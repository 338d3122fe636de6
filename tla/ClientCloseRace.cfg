SPECIFICATION Spec
CONSTANTS
  ApiCalls = {}
  EventCalls = {}
  Closers = {k1}
  MaxGen = 2
  MaxFaults = 1
  QueueCap = 1
  Beats = FALSE
  AutoReconnect = TRUE
PROPERTIES NoConnectAfterClose
CHECK_DEADLOCK FALSE
