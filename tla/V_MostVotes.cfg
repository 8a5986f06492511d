SPECIFICATION Spec
CONSTANTS
    Hashes = {h1}
    CWs = {c1, c2}
    Peers = {p1}
    MaxCws = 2
    Ctimeout = 1
    Default = 0
    CacheSection = TRUE
    Unsigned = TRUE
    MaxLag = 0
    MaxAdds = 3
    MaxTime = 0
INVARIANT MostVotes
CHECK_DEADLOCK FALSE
