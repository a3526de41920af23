CONSTANTS
    p1 = p1
    p2 = p2
    p3 = p3
    Main = Main
    NULL = NULL
    Proc = {p1, p2, p3}
    Status <- MCStatus
    Garbage = {7}

SPECIFICATION FairSpec
INVARIANTS TypeOK InfoLifetime WaitResult ExecResult NoOrphans
PROPERTIES WaiterReleased
