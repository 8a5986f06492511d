CONSTANTS
    j1 = j1
    j2 = j2
    j3 = j3
    w1 = w1
    w2 = w2
    w3 = w3
    KillJob = KillJob
    NoJob = NoJob
    Event = Event
    Jobs <- OnlyJobs
    Workers <- MCWorkers
    Sockets <- NoSocket
    MayFail = FALSE
SPECIFICATION Spec
CHECK_DEADLOCK FALSE
INVARIANT NoJobStranded
