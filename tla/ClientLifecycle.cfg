SPECIFICATION FairSpec
CONSTANTS
  ApiCalls = {}
  EventCalls = {}
  Closers = {k1}
  MaxGen = 2
  MaxFaults = 1
  QueueCap = 1
  Beats = TRUE
  AutoReconnect = TRUE
INVARIANTS
  ConnectedIsServed
  StoppedIsDisconnected
  TeardownBeforeReconnect
PROPERTIES EndIsNoticed
CHECK_DEADLOCK FALSE
