SPECIFICATION Spec
CONSTANTS
    Base = 4
    NonceLen = 2
    TagLen = 1
    Chars <- MCChars
    Text <- MCText
    Packets <- MCPackets
    Keys = {k1}
    NoKey = NoKey
    Limits <- MCLimits
    Changes <- MCChanges
INVARIANTS
    TypeOK
    ReadsInside
    
    SealedIntact
    LimitExact
    LengthErrorsAnswered
CHECK_DEADLOCK FALSE
