CONSTANTS
    pump = pump
    observer = observer
    Callers = {pump}
    FirstFrames <- FlushedFirstFrames
    Frames <- FlushedFrames
    MaxFrames = 4
    Bufio = 3
    ReadSize = 2
    Window = 4
    NoCaller = NoCaller
SPECIFICATION Spec
CHECK_DEADLOCK FALSE
INVARIANT FlushedOutputIsComplete
