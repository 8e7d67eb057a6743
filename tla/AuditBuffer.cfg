SPECIFICATION FairSpec
CONSTANTS
  Writers = {w1, w2, w3}
  FileSize = 4
  Requests = {1, 2, 3}
  Slots = 3
  MaxCalls = 5
  MaxSegments = 6
INVARIANTS TypeOK ReservationsDisjoint RetiredOnce
PROPERTY ReserveReturns
CHECK_DEADLOCK FALSE
