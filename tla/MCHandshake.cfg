\* The sizes are small, equal to or greater than the default sizes, and not
\* always multiples of Align.
CONSTANTS
    MAP_SIZE = 4
    DEFAULT_SHMEM_SIZE = 8
    Align = 2
    FS_NEW_VERSION = 1
    Sizes = {0, 7}
    TargetSizes = {1, 4, 7, 11}
    Envs = {1, 5, 9, 12}
    Unset = Unset
    NoTarget = NoTarget
    Setups <- MCSetups

SPECIFICATION Spec
CHECK_DEADLOCK FALSE
INVARIANTS
    TypeOK
    BothSidesAgree
PROPERTY
    HandshakeEnds
