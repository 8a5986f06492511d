SPECIFICATION Spec
CONSTANTS
    Hashes = {h1, h2}
    CWs = {c1, c2, c3}
    Peers = {p1}
    MaxCws = 2
    Ctimeout = 1
    Default = 0
    CacheSection = TRUE
    Unsigned = TRUE
    MaxLag = 1
    MaxAdds = 3
    MaxTime = 6
SYMMETRY Symmetry
INVARIANTS NoFreedPush CleanupExact
PROPERTY CwsKept
CHECK_DEADLOCK FALSE
