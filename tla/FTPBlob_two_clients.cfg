\* Two asynchronous clients, each with its own instance, put; one late reply or cancellation.
SPECIFICATION Spec
CONSTANTS
    t1 = t1  t2 = t2  b1 = b1  b2 = b2  v1 = v1
    Torn = Torn  Unknown = Unknown  None = None
    Threads <- TwoThreads
    Blobs <- TwoBlobs
    Uses <- OwnBlob
    Keys <- OneKey
    Prefixes <- MCPrefixes
    Values <- OneValue
    Large <- NoValue
    Flavours <- Asynchronous
    Ops <- PutOnly
    HasRoot = FALSE
    GivenFeatures <- AllFeatures
    ServerFeatures <- AllFeatures
    Refusals = {450}
    Ports = {1, 2, 3, 4}
    MaxFaults = 0
    MaxTimeouts = 1
INVARIANTS NoSpuriousFailure LatenessIsolated
SYMMETRY Alike
CHECK_DEADLOCK TRUE
