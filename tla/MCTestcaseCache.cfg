CONSTANTS
    q1 = q1
    q2 = q2
    q3 = q3
    q4 = q4
    Entries = {q1, q2, q3, q4}
    NoEntry = NoEntry
    Lengths = {1, 2}
    MaxCacheSize = 5
    MaxEntries = 4
    Slack = 1
    U32 = 16
    U64 = 1024
SPECIFICATION Spec
SYMMETRY Symmetry
INVARIANTS
    TypeOK
    TableConsistent
    SearchesSucceed
PROPERTIES
    CurrentStaysCached
