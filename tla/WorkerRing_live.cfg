SPECIFICATION FairRingSpec
CONSTANTS
  WorkerCount = 2
  TaskCount = 1
  Dispatchers = 1
  SuspectAfter = 1
  DeadAfter = 1
  Value <- MCValue
  None = None
  MaxRejoins = 1
  Steps = 2
  MaxCrashes = 1
  MaxDown = 1
  AccurateFD = TRUE
  LongDowntime = FALSE
PROPERTIES JobEnds
CHECK_DEADLOCK FALSE
