SPECIFICATION PartsFairSpec
CONSTANTS
    Procs = {init, a, b}
    Intervals = {0, 1, 2}
    NPages = 1
    HandlerCalls = {}
    ArmedExec = FALSE
    init = init
    sh = sh
    a = a
    b = b
    c = c
    cpu = cpu
    None = None
INVARIANT StateOK
INVARIANT NoCallLost
INVARIANT Resumed
INVARIANT WaitTimeFits
INVARIANT CopiedRight
PROPERTY AlarmComes
PROPERTY NotStarved
CHECK_DEADLOCK FALSE
