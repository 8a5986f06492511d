CONSTANTS
    MaxPresses = 4
    MaxKills = 1
    MaxKeys = 2
    MayFail = TRUE
SPECIFICATION Spec
CHECK_DEADLOCK FALSE
INVARIANTS
    TypeOK
    OneMain
    CallbackIsOwn
    RunIsNamed
PROPERTIES
    StopEndsRun
    NoRunWithoutService
