SPECIFICATION RingSpec
CONSTANTS
  WorkerCount = 2
  TaskCount = 1
  Dispatchers = 1
  SuspectAfter = 1
  DeadAfter = 1
  Value <- MCValue
  None = None
  MaxRejoins = 1
  Steps = 2
  MaxCrashes = 1
  MaxDown = 1
  AccurateFD = FALSE
  LongDowntime = FALSE
INVARIANTS CountsExact
CONSTRAINT FirstToOne
CHECK_DEADLOCK FALSE
