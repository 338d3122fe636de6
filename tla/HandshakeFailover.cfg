\* One of two servers refuses the client; no faults but the loss of a connection
SPECIFICATION Spec
CONSTANTS
    UrlCount = 2
    Modes = {"plain"}
    MaxConns = 2
    MaxFaults = 2
PROPERTIES TriesAllBeforeBackoff
CHECK_DEADLOCK FALSE
