SPECIFICATION RingSpec
CONSTANTS
  WorkerCount = 3
  TaskCount = 1
  Dispatchers = 1
  SuspectAfter = 1
  DeadAfter = 1
  Value <- MCValue
  None = None
  MaxRejoins = 1
  Steps = 1
  MaxCrashes = 2
  MaxDown = 2
  AccurateFD = TRUE
  LongDowntime = FALSE
INVARIANTS RingTypeOK NoOrphan NoZombie RejoinPending
CONSTRAINT FirstToOne
CHECK_DEADLOCK FALSE
