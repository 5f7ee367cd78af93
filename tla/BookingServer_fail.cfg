SPECIFICATION FairServerSpec
CONSTANTS
  Client = {c1, c2}
  SeatCount = 1
  MinMulti = 2
  MaxMulti = 2
  RequestsPerClient = 2
  MaxId = 2
  SeatLists <- OneSeat
  Worker = {w1}
  Capacity = 1
  SocketRoom = 1
  MaxFaults = 1
  Nobody = Nobody
  None = None
PROPERTIES RunEnds
CHECK_DEADLOCK FALSE
