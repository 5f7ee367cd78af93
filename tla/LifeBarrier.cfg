CONSTANTS
  Height = 4
  Width = 3
  N = 3
  Era = 1
  Full = 3
  Team = 2
  Canvas <- MCCanvas
  History <- MCHistory
  MaxFaults = 1
SPECIFICATION FairSpec
INVARIANTS LifeTypeOK RightBlame
PROPERTIES ImplementsReference EveryoneEnds
CHECK_DEADLOCK FALSE
