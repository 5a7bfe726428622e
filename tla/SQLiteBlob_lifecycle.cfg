\* Two threads open, use and close one instance; connecting may fail.
SPECIFICATION FairSpec
CONSTANTS
    t1 = t1  t2 = t2  b1 = b1  b2 = b2  v1 = v1
    all = all  some = some
    None = None
    Prefixes <- OnePrefix
    Under <- MCUnder
    Threads <- TwoThreads
    Blobs <- OneBlob
    Uses <- SharedBlob
    Keys <- TwoKeys
    Values <- OneValue
    Ops <- LifecycleOps
    Conns = {1, 2, 3}
    PreOpened = FALSE
    Wrapped = {}
    MaxFaults = 1
INVARIANTS NoConnectionLeaked ScanFaithful
PROPERTIES LockReleased
CHECK_DEADLOCK TRUE
