SPECIFICATION Spec
CONSTANTS
    Procs = {init, a}
    init = init
    Intervals = {0, 1, 2}
    NPages = 1
    HandlerCalls = {}
    ArmedExec = FALSE
    None = None
INVARIANT A0Kept
