CONSTANTS
    c1 = c1
    c2 = c2
    s1 = s1
    s2 = s2
    s3 = s3
    s4 = s4
    NoService = NoService
    NoClient = NoClient
    Clients <- MCClients
    Services <- MCServices
    Requests <- MCRequests
    ParallelTimeout = 0
    DefaultInterval = 2
    SaneInterval = 4
    MaxParallel = 2
    PendingSize = 2
    MaxTime = 5
    MaxInFlight = 2
SPECIFICATION Spec
SYMMETRY Symmetry
CHECK_DEADLOCK FALSE
INVARIANTS
    TypeOK
    UniqueService
    PendingOnlyWhenFull
    BlockedOnlyWhenFull
    OneBlockPerClient
PROPERTIES
    BlockedByActiveOnly
    LiveServiceKept
