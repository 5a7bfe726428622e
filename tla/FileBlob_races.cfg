\* Two threads of different processes, crashes and cancellations.
SPECIFICATION FairSpec
CONSTANTS
    t1 = t1  t2 = t2  v1 = v1  v2 = v2
    Empty = Empty  Torn = Torn  Unknown = Unknown  None = None
    Threads <- MCThreads
    Names <- MCNames
    Resolve <- MCResolve
    Prefixes <- MCPrefixes
    Values <- MCValues
    Calls <- MCCalls
    Inodes = {1, 2, 3, 4}
INVARIANTS TypeOK AckedKept ReadsRegular ScanFaithful
PROPERTIES FailsOnlyOnClash EveryCallReturns
CHECK_DEADLOCK TRUE
