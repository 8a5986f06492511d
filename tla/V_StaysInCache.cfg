SPECIFICATION Spec
CONSTANTS
    Requests = {r1, r2}
    ReaderThreads = {t1}
    Sockets = {TRUE}
    NoRequest = NoRequest
    Ctimeout = 1
    Arrivals = {0, 5}
    MaxTime = 6
INVARIANT StaysInCache
CHECK_DEADLOCK FALSE
