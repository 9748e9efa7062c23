SPECIFICATION Spec
CONSTANTS
    Procs = {init, a, b}
    CPUs = {c1, c2}
    init = init
    KillTargets = {a, b}
    KillsPidZero = FALSE
    None = None
INVARIANT NoPanic
