SPECIFICATION Spec
CONSTANTS
    Requests = {r1, r2, r3}
    ReaderThreads = {t1, t2}
    Sockets = {TRUE, FALSE}
    NoRequest = NoRequest
    Ctimeout = 1
    Arrivals = {0, 1, 6}
    MaxTime = 14
SYMMETRY Symmetry
INVARIANT NoCircleAnywhere
CHECK_DEADLOCK FALSE
