SPECIFICATION RingSpec
CONSTANTS
  WorkerCount = 3
  TaskCount = 2
  Dispatchers = 1
  SuspectAfter = 1
  DeadAfter = 1
  Value <- MCValue
  None = None
  MaxRejoins = 1
  Steps = 1
  MaxCrashes = 1
  MaxDown = 1
  AccurateFD = TRUE
  LongDowntime = TRUE
INVARIANTS RequestAnswered
CONSTRAINT FirstToOne
CHECK_DEADLOCK FALSE
