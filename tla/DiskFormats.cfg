CONSTANTS
    LONG_MAX = 31
    MaxInput = 2100
SPECIFICATION WalkSpec
INVARIANTS
    SeekReaches
    ChsDecodes
    StageTwoCovered
    SumIsRemainder
CHECK_DEADLOCK FALSE
