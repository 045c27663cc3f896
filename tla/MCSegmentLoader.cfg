CONSTANTS
    PageSize = 2
    AddressSpace = 10
    MaxSegmentSize = 6
    MaxSegments = 3
    Dumps <- MCDumps
SPECIFICATION Spec
INVARIANTS
    TypeOK
    PassedIsMapped
    OrderedLoads
    FirstOwnsPage
