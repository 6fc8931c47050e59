CONSTANTS
    pump = pump
    observer = observer
    Callers = {pump, observer}
    FirstFrames <- AllFirstFrames
    Frames <- AllFrames
    MaxFrames = 4
    Bufio = 3
    ReadSize = 2
    Window = 4
    NoCaller = NoCaller
SPECIFICATION FairSpec
CHECK_DEADLOCK FALSE
INVARIANTS TypeOK InOrder WritersJoinedWhileLive AtMostOneMessageLate
PROPERTIES CloseReleasesWriters ImplementsDecoder
