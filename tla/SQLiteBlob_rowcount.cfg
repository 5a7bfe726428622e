\* Two threads delete through one opened instance.
SPECIFICATION FairSpec
CONSTANTS
    t1 = t1  t2 = t2  b1 = b1  b2 = b2  v1 = v1
    all = all  some = some
    None = None
    Prefixes <- MCPrefixes
    Under <- MCUnder
    Threads <- TwoThreads
    Blobs <- OneBlob
    Uses <- SharedBlob
    Keys <- TwoKeys
    Values <- OneValue
    Ops <- DeleteOps
    Conns = {1}
    PreOpened = TRUE
    Wrapped = {}
    MaxFaults = 0
PROPERTIES ImplementsStore
CHECK_DEADLOCK TRUE
