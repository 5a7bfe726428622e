\* Two threads make the first calls on one instance.
SPECIFICATION Spec
CONSTANTS
    t1 = t1  t2 = t2  b1 = b1  b2 = b2  v1 = v1
    all = all  some = some
    None = None
    Prefixes <- MCPrefixes
    Under <- MCUnder
    Threads <- TwoThreads
    Blobs <- OneBlob
    Uses <- SharedBlob
    Keys <- OneKey
    Values <- OneValue
    Ops <- PointOps
    Conns = {1, 2}
    PreOpened = FALSE
    Wrapped = {}
    MaxFaults = 0
INVARIANTS ConnectionUsable
CHECK_DEADLOCK TRUE
