\* One thread, either variant, all operations; refusals, aborts, drops and failed connects.
SPECIFICATION FairSpec
CONSTANTS
    t1 = t1  t2 = t2  b1 = b1  b2 = b2  v1 = v1
    Torn = Torn  Unknown = Unknown  None = None
    Threads <- OneThread
    Blobs <- OneBlob
    Uses <- SharedBlob
    Keys <- TwoKeys
    Prefixes <- MCPrefixes
    Values <- OneValue
    Large <- NoValue
    Flavours <- Variants
    Ops <- AllOps
    HasRoot = TRUE
    GivenFeatures = None
    ServerFeatures <- AllFeatures
    Refusals = {450}
    Ports = {1, 2}
    MaxFaults = 2
    MaxTimeouts = 0
INVARIANTS TypeOK ResultsTruthful ControlInSync NoMutualWait
PROPERTIES EveryCallReturns
CHECK_DEADLOCK TRUE
