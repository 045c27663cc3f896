CONSTANTS
    a = a
    b = b
    plain = plain
    flaky = flaky
    slow = slow
    slowcrash = slowcrash
    stuck = stuck
    crash = crash
    crash2 = crash2
    broken = broken
    NoTrace = NoTrace
    Edges = {a, b}
    Inputs = {plain, flaky, slow, slowcrash, stuck, crash, crash2, broken}
    Runs <- MCRuns
    OptionSets <- MCOptionSets
    CAL_CYCLES = 2
    CAL_CYCLES_LONG = 3
    CAL_CHANCES = 2
    KEEP_UNIQUE_HANG = 1
    KEEP_UNIQUE_CRASH = 3
SPECIFICATION Spec
CHECK_DEADLOCK FALSE
INVARIANTS
    TypeOK
    CoverageIsKept
    VariableBytesVary
    CrashesAreKept
PROPERTIES
    SaveReturns
