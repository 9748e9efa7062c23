SPECIFICATION WorkSpec
CONSTANTS
    Ops = {o1, o2, o3}
    Blocks = {b1, b2, b3, b4}
    Few = {b1, b2}
    Vals = {0, 1}
    InitVal = 0
    MAXOPBLOCKS = 2
    LOGSIZE = 5
    NLOG = 5
    OpBlocks = 2
INVARIANT TypeOK
INVARIANT NoPanic
INVARIANT PinsMatchLog
PROPERTY ImplementsAtomicFS
PROPERTY SleepersWoken
PROPERTY CommitInstalled
