SPECIFICATION ManagerSpec
CONSTANTS
  Client = {c1, c2, c3}
  SeatCount = 2
  MinMulti = 2
  MaxMulti = 2
  MaxId = 2
  SeatLists <- MCSeatLists
  Worker = {w1, w2}
  Nobody = Nobody
  None = None
  MaxRequests = 4
INVARIANTS SeatTypeOK NoCircularWait OneClaim NoVacantQueue Balanced
PROPERTIES ImplementsBooking
CONSTRAINT FewRequests
SYMMETRY Symmetric
CHECK_DEADLOCK FALSE
