SPECIFICATION Spec
CONSTANTS
    MapSize = 3
    MaxItems = 3
    MaxSeeds = 2
    Lengths = {1, 2}
    Times = {1}
    TraceChoices <- MCTraces
    Residues <- NoResidue
    OptionChoices <- NoOptions
    ByLevel = TRUE
    CAL_CHANCES = 2
    ManyItems = 2
    MaxLevel = 2
    MaxResumes = 1
    MaxResumed = 2
CHECK_DEADLOCK FALSE
INVARIANT TraceMiniIsOwn
