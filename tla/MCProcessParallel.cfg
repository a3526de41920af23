CONSTANTS
    p1 = p1
    p2 = p2
    p3 = p3
    Main = Main
    NULL = NULL
    Proc = {p1, p2}
    Status = {0}
    Garbage = {7}

SPECIFICATION FairSpec
PROPERTIES ExecReturnsOnceLoaded
