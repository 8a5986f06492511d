CONSTANTS
    local = local
    proxy = proxy
    fallback = fallback
    cacheex = cacheex
    cw1 = cw1
    cw2 = cw2
    NoCw = NoCw
    NoReader = NoReader
    Peer = Peer
    Readers <- CacheexAndProxy
    CacheexReaders <- Cacheexs
    LocalReaders <- NoReaders
    FallbackReaders <- NoReaders
    LimitedReaders <- Proxies
    BadEcmReaders <- Cacheexs
    CWs <- OneCw
    DoubleChecks <- No
    WaitUntilCtimeout = FALSE
    Waits <- NoOrYes
    Mode1Delay = 1
    WaitTime = 2
    FallbackTimeout = 3
    ClientTimeout = 4
    AnswerLimit = 4
    MaxQueued = 1
    MaxCached = 1
SPECIFICATION Spec
CHECK_DEADLOCK FALSE
INVARIANTS
    TypeOK
    OneReply
PROPERTY
    WaitObserved
