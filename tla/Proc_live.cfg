SPECIFICATION FairSpec
CONSTANTS
    Procs = {init, a, b}
    CPUs = {c1}
    init = init
    KillTargets = {a, b}
    KillsPidZero = FALSE
    None = None
PROPERTY OrphansReaped
PROPERTY KilledExits
