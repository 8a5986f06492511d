CONSTANTS
    j1 = j1
    j2 = j2
    j3 = j3
    w1 = w1
    w2 = w2
    w3 = w3
    KillJob = KillJob
    NoJob = NoJob
    Event = Event
    Jobs <- MCJobs
    Workers <- MCWorkers
    Sockets <- AnyClient
    MayFail = TRUE
SPECIFICATION FairSpec
CHECK_DEADLOCK FALSE
INVARIANTS
    TypeOK
    ActiveMeansAlive
    HandledInOrder
    OneHandler
PROPERTIES
    EveryJobFinishes
    KilledIsFreed
