CONSTANTS
  N = 2
  NumTasks = 6
  QueueSize = 3
  Heavy = 1
  MaxEvents = 2
SPECIFICATION FairSpec
INVARIANTS TransferTypeOK OneRunner NothingLost NoFalseAlarm
PROPERTIES RunEnds
CHECK_DEADLOCK FALSE
