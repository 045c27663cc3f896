CONSTANTS
    m = m
    s1 = s1
    s2 = s2
    a = a
    b = b
    Nobody = Nobody
    Seed = Seed
    Fuzzers = {m, s1, s2}
    Mains = {m}
    Finds = {a, b}
    FinalSync = {m}
    NoUnlink = {s1}
    Scenarios <- MCScenarios
SPECIFICATION Spec
CHECK_DEADLOCK FALSE
INVARIANTS
    TypeOK
    PassedIsKept
    QueueSurvives
PROPERTIES
    FindsSpread
    RealMainPrevails
