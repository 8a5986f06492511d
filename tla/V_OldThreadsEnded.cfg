CONSTANTS
    MaxPresses = 4
    MaxKills = 1
    MaxKeys = 2
    MayFail = FALSE
SPECIFICATION Spec
CHECK_DEADLOCK FALSE
INVARIANTS
    OldThreadsEnded
