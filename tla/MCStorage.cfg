SPECIFICATION PartsSpec
CONSTANTS
    Threads = {t1, t2}
    Nums = {b1, b2, b3}
    Vals = {0, 1}
    NBUF = 2
    MaxPinned = 1
    t1 = t1
    t2 = t2
    b1 = b1
    b2 = b2
    x = x
    y = y
    mkfs = mkfs
    None = None
INVARIANT Counted
INVARIANT SpaceKept
INVARIANT OpFits
INVARIANT TreeShape
INVARIANT NoPanic
INVARIANT SleepsForReason
PROPERTY ImplementsBlocks
PROPERTY ImplementsByteFiles
CHECK_DEADLOCK FALSE
