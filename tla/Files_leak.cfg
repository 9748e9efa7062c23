SPECIFICATION Spec
CONSTANTS
    Procs = {p1, p2}
    Names = {x}
    NINODES = 1
    NINODE = 1
    NFILE = 1
    NOFILE = 1
    DirFull = FALSE
    None = None
INVARIANT FreedWithLastUse
