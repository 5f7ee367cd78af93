SPECIFICATION TablesSpec
CONSTANTS
  WorkerCount = 2
  TaskCount = 2
  Dispatchers = 2
  SuspectAfter = 1
  DeadAfter = 2
  Value = {v1}
  None = None
  MaxRejoins = 1
INVARIANTS TypeOK DeadOwnsNothing NoticeCurrent CommitsExact DeadReadStable
PROPERTIES ImplementsLedger NoCommitAfterScan
CHECK_DEADLOCK FALSE
