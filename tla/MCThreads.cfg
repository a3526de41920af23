SPECIFICATION Spec
CONSTANTS
    w1 = w1
    w2 = w2
    w3 = w3
    tid_lock = tid_lock
    l1 = l1
    s1 = s1
    c1 = c1
    NULL = NULL
    Main = Main
    Idle = Idle
    Worker = {w1, w2}
    Semas = {s1}
    Locks = {tid_lock, l1}
    TidLock = tid_lock
    Conds = {c1}
    CondLock <- MCCondLock
    TIME_SLICE = 1
    MaxValue = 1
SYMMETRY Symmetry
INVARIANTS
    TypeOK
    ElemInv
    NobodyForgotten
    MutualExclusion
    CondNoLostSignal
    IdleOnlyWhenNothingToRun
