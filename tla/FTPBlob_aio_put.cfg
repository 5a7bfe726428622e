\* The asynchronous variant, one thread: a value that may not fit in a socket's buffer.
SPECIFICATION Spec
CONSTANTS
    t1 = t1  t2 = t2  b1 = b1  b2 = b2  v1 = v1
    Torn = Torn  Unknown = Unknown  None = None
    Threads <- OneThread
    Blobs <- OneBlob
    Uses <- SharedBlob
    Keys <- TwoKeys
    Prefixes <- MCPrefixes
    Values <- OneValue
    Large <- OneValue
    Flavours <- Asynchronous
    Ops <- PointOps
    HasRoot = FALSE
    GivenFeatures = None
    ServerFeatures <- AllFeatures
    Refusals = {450}
    Ports = {1, 2}
    MaxFaults = 0
    MaxTimeouts = 0
INVARIANTS ResultsTruthful
CHECK_DEADLOCK TRUE
