SPECIFICATION Spec
CONSTANTS
  Busy = a
  Conns = {a}
  Requests = {r1}
  ConnOf <- OnBusy
  MaxConnections = 1
  MaxInFlight = 1
  QueueCap = 1
  HasAuth = TRUE
  MaxEvents = 0
  MaxFaults = 0
INVARIANT IdentityVisible
CHECK_DEADLOCK FALSE
