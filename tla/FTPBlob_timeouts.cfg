\* One thread, one timeout.
SPECIFICATION Spec
CONSTANTS
    t1 = t1  t2 = t2  b1 = b1  b2 = b2  v1 = v1
    Torn = Torn  Unknown = Unknown  None = None
    Threads <- OneThread
    Blobs <- OneBlob
    Uses <- SharedBlob
    Keys <- TwoKeys
    Prefixes <- MCPrefixes
    Values <- OneValue
    Large <- NoValue
    Flavours <- Synchronous
    Ops <- PointOps
    HasRoot = FALSE
    GivenFeatures = None
    ServerFeatures <- AllFeatures
    Refusals = {450}
    Ports = {1, 2, 3}
    MaxFaults = 0
    MaxTimeouts = 1
INVARIANTS ResultsTruthful
CHECK_DEADLOCK TRUE
