CONSTANTS
    pump = pump
    observer = observer
    Callers = {pump, observer}
    FirstFrames <- MessageFirstFrames
    Frames <- MessageFrames
    MaxFrames = 3
    Bufio = 3
    ReadSize = 2
    Window = 4
    NoCaller = NoCaller
SPECIFICATION FairSpec
CHECK_DEADLOCK FALSE
PROPERTY NextDecodeUnblocks
