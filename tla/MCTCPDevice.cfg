SPECIFICATION FairSpec
CONSTANTS
    Bytes <- SomeBytes
    MaxLen = 2
    Frames <- SomeFrames
    MaxFrames = 2
    MaxBreaks = 1
    MaxConns = 4
INVARIANTS
    TypeOK
    OfOneFrame
    InOrder
PROPERTY Meets
CHECK_DEADLOCK FALSE
