SPECIFICATION RingSpec
CONSTANTS
  WorkerCount = 2
  TaskCount = 1
  Dispatchers = 1
  SuspectAfter = 1
  DeadAfter = 1
  Value <- MCValue
  None = None
  MaxRejoins = 2
  Steps = 2
  MaxCrashes = 2
  MaxDown = 1
  AccurateFD = TRUE
  LongDowntime = TRUE
INVARIANTS CountsExact
CONSTRAINT FirstToOne
CHECK_DEADLOCK FALSE
