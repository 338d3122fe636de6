SPECIFICATION FairSpec
CONSTANTS
  ApiCalls = {}
  EventCalls = {}
  Closers = {}
  MaxGen = 2
  MaxFaults = 1
  QueueCap = 1
  Beats = TRUE
  AutoReconnect = TRUE
PROPERTIES DisconnectTriggersReconnect
CHECK_DEADLOCK FALSE
