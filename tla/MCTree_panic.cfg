SPECIFICATION Spec
CONSTANTS
    a = a
    b = b
    Procs = {p}
    Names = {a, b}
    Paths <- APaths
    NINODES = 3
    Removed = FALSE
INVARIANT NoPanic
CHECK_DEADLOCK FALSE
