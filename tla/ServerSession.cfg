SPECIFICATION FairSpec
CONSTANTS
  Busy = a
  Conns = {a}
  Requests = {r1, r2}
  ConnOf <- OnBusy
  MaxConnections = 1
  MaxInFlight = 1
  QueueCap = 1
  HasAuth = TRUE
  MaxEvents = 1
  MaxFaults = 2
INVARIANTS
  TypeOK
  PermitsConserved
  InFlightConserved
  OnlyAuthenticatedServed
  AnsweredAtMostOnce
  NeverDropped
PROPERTIES
  TeardownCompletes
  NoHandlerHangs
CHECK_DEADLOCK FALSE
