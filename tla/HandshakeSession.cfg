\* Two URLs, every configuration, two faults
SPECIFICATION FairSpec
CONSTANTS
    UrlCount = 2
    Modes = {"plain", "ecdh"}
    MaxConns = 2
    MaxFaults = 2
INVARIANTS TypeOK SessionKeysAgree VerdictHonest
PROPERTIES BackoffDoubles FailoverConnects HalfOpenEnds
CHECK_DEADLOCK FALSE
