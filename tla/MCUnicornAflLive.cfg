CONSTANTS
    t1 = t1
    t2 = t2
    p1 = p1
    p2 = p2
    b1 = b1
    Testcases = {t1, t2}
    Pids = {p1, p2}
    TBs = {b1}
    NoPid = NoPid
    NoTestcase = NoTestcase
    PersistentIters = {0, 1}
SPECIFICATION Spec
PROPERTIES
    ImplementsContract
    IdleChildEnds
