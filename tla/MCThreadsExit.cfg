SPECIFICATION FairSpec
CONSTANTS
    w1 = w1
    w2 = w2
    w3 = w3
    tid_lock = tid_lock
    l1 = l1
    s1 = s1
    c1 = c1
    NULL = NULL
    Main = Main
    Idle = Idle
    Worker = {w1}
    Semas = {}
    Locks = {tid_lock}
    TidLock = tid_lock
    Conds = {}
    CondLock <- MCNoCondLock
    TIME_SLICE = 1
    MaxValue = 0
PROPERTIES ExitDestroys
