SPECIFICATION Spec
CONSTANTS
    MapSize = 3
    MaxItems = 3
    MaxSeeds = 2
    Lengths = {1, 2}
    Times = {1}
    TraceChoices <- MCTraces
    Residues <- MCResidues
    OptionChoices <- MCOptions
    ByLevel = TRUE
    CAL_CHANCES = 2
    ManyItems = 2
    MaxLevel = 2
    MaxResumes = 1
    MaxResumed = 2
CHECK_DEADLOCK FALSE
INVARIANTS
    TypeOK
    CountersExact
    NextCanBeCounted
    TraceMiniPresent
    FavouredCover
