SPECIFICATION FairSpec
CONSTANTS
  ApiCalls = {c1, c2}
  EventCalls = {}
  Closers = {}
  MaxGen = 2
  MaxFaults = 1
  QueueCap = 1
  Beats = FALSE
  AutoReconnect = TRUE
INVARIANTS
  TypeOK
  ReplyMatchesCall
  NoOrphanedWaiter
  PendingIsOwned
  RefusedNeverRan
PROPERTIES KeepsContract CallsReturn
CHECK_DEADLOCK FALSE
