CONSTANTS
    local = local
    proxy = proxy
    fallback = fallback
    cacheex = cacheex
    cw1 = cw1
    cw2 = cw2
    NoCw = NoCw
    NoReader = NoReader
    Peer = Peer
    Readers <- LocalAndProxy
    CacheexReaders <- NoReaders
    LocalReaders <- NoReaders
    FallbackReaders <- NoReaders
    LimitedReaders <- Proxies
    BadEcmReaders <- NoReaders
    CWs <- OneCw
    DoubleChecks <- No
    WaitUntilCtimeout = FALSE
    Waits <- No
    Mode1Delay = 0
    WaitTime = 0
    FallbackTimeout = 1
    ClientTimeout = 2
    AnswerLimit = 2
    MaxQueued = 1
    MaxCached = 0
SPECIFICATION Spec
CHECK_DEADLOCK FALSE
INVARIANT
    AnsweredWhenExhausted
