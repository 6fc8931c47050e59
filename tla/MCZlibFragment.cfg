CONSTANTS
    pump = pump
    observer = observer
    Callers = {pump}
    FirstFrames <- FragmentFirstFrames
    Frames <- FragmentFrames
    MaxFrames = 4
    Bufio = 3
    ReadSize = 2
    Window = 4
    NoCaller = NoCaller
SPECIFICATION FairSpec
CHECK_DEADLOCK FALSE
PROPERTY NonTerminalReturns
