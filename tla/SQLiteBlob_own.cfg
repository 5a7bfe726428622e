\* Two threads, each with its own instance on one database; one of them asynchronous.
SPECIFICATION FairSpec
CONSTANTS
    t1 = t1  t2 = t2  b1 = b1  b2 = b2  v1 = v1
    all = all  some = some
    None = None
    Prefixes <- MCPrefixes
    Under <- MCUnder
    Threads <- TwoThreads
    Blobs <- TwoBlobs
    Uses <- OwnBlob
    Keys <- TwoKeys
    Values <- OneValue
    Ops <- OwnOps
    Conns = {1, 2}
    PreOpened = FALSE
    Wrapped <- Second
    MaxFaults = 0
INVARIANTS TypeOK
PROPERTIES ImplementsStore EveryCallReturns
CHECK_DEADLOCK TRUE
