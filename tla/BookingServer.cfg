SPECIFICATION ServerSpec
CONSTANTS
  Client = {c1, c2}
  SeatCount = 2
  MinMulti = 2
  MaxMulti = 2
  RequestsPerClient = 2
  MaxId = 2
  SeatLists <- TwoSeats
  Worker = {w1, w2}
  Capacity = 1
  SocketRoom = 2
  MaxFaults = 0
  Nobody = Nobody
  None = None
INVARIANTS ServerTypeOK NoFalseAlarm HeldIsOwned EndsInAgreement
SYMMETRY Symmetric
CHECK_DEADLOCK FALSE
