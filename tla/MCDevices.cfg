SPECIFICATION PartsFairSpec
CONSTANTS
    Threads = {t1, t2, t3}
    Old = 0
    Vals = {1}
    NUM = 4
    t1 = t1
    t2 = t2
    t3 = t3
    r1 = r1
    w1 = w1
    w2 = w2
    x = x
    y = y
    None = None
INVARIANT Transferred
INVARIANT SleepsForReason
PROPERTY BytesPass
PROPERTY SleepersWoken
CHECK_DEADLOCK FALSE
