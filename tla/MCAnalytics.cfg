SPECIFICATION Spec
CONSTANTS
  Requests = {r1, r2}
  Events = {e1}
  Kinds = {"validScan", "invalidScan", "movedTicket", "attempt"}
  PoolSize = 2
  MaxCalls = 3
  MaxDay = 1
INVARIANTS
  TypeOK
  OvercountNeedsFirstReader
  UndisturbedRowsAreExact
PROPERTIES
  RequestsEnd
CHECK_DEADLOCK FALSE
