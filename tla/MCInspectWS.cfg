CONSTANTS
    Ops = {"binary", "continuation", "close"}
    MaxFrames = 2
    SockBuf = 1
SPECIFICATION ReadingSpec
CHECK_DEADLOCK FALSE
INVARIANTS TypeOK RelayedInOrder BinaryUntouched
PROPERTIES SessionEnds ImplementsRelay
