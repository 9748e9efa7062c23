SPECIFICATION BuiltSpec
CONSTANTS
    CPUs = {c1, c2}
    Locks = {1, 2}
    IrqLocks = {1, 2}
    init = init
    a = a
    b = b
    c = c
    c1 = c1
    c2 = c2
    None = None
SYMMETRY Slots
INVARIANT LocksHold
INVARIANT OneStack
PROPERTY QueuesOrdered
PROPERTY DrawDecides
