CONSTANTS
    Ops = {"text", "binary", "continuation", "close"}
    MaxFrames = 2
    SockBuf = 1
SPECIFICATION Spec
CHECK_DEADLOCK FALSE
INVARIANT CompressedUntouched
