CONSTANTS
    t1 = t1
    t2 = t2
    p1 = p1
    p2 = p2
    Testcases = {t1, t2}
    Pids = {p1, p2}
    NoPid = NoPid
    NoTestcase = NoTestcase
    CounterRange = 4
    MaxCounts = {0, 1, 2}
SPECIFICATION Spec
INVARIANTS
    TypeOK
    AnswerMatchesRun
    MapQuiescent
    ChildrenAccountedFor
PROPERTIES
    ImplementsContract
    StopEndsChildren
