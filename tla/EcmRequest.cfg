CONSTANTS
    local = local
    proxy = proxy
    fallback = fallback
    cacheex = cacheex
    cw1 = cw1
    cw2 = cw2
    NoCw = NoCw
    NoReader = NoReader
    Peer = Peer
    Readers <- AllReaders
    CacheexReaders <- NoReaders
    LocalReaders <- Locals
    FallbackReaders <- Fallbacks
    LimitedReaders <- NoReaders
    BadEcmReaders <- Proxies
    CWs <- OneCw
    DoubleChecks <- NoOrYes
    WaitUntilCtimeout = FALSE
    Waits <- No
    Mode1Delay = 0
    WaitTime = 0
    FallbackTimeout = 1
    ClientTimeout = 2
    AnswerLimit = 2
    MaxQueued = 1
    MaxCached = 0
SPECIFICATION FairSpec
CHECK_DEADLOCK FALSE
INVARIANTS
    CwReachesClient
    AnsweredWhenExhausted
    DeliveredIsVerified
PROPERTIES
    FallbackLast
    EveryRequestAnswered
