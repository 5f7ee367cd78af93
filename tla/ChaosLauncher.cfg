SPECIFICATION FairLauncherSpec
CONSTANTS
  WorkerCount = 3
  MaxDown = 2
  MinFirst = 1
  MaxFirst = 1
  MinInterval = 1
  MaxInterval = 2
  MinDowntime = 1
  MaxDowntime = 2
  Cutoff = 5
INVARIANTS LauncherTypeOK AtMostMaxDown PlanResumes
PROPERTIES NoSpinning Recovers
CHECK_DEADLOCK FALSE
