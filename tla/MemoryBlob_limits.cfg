\* Two threads, three keys, payloads of 1 and 2 bytes, both limits set.
SPECIFICATION FairSpec
CONSTANTS
    t1 = t1  t2 = t2
    a = a  b = b  c = c
    short = short  long = long
    all = all  some = some
    None = None
    EmptyKey = EmptyKey
    Threads <- MCThreads
    Keys <- MCKeys
    Values <- MCValues
    Bytes <- MCBytes
    Prefixes <- MCPrefixes
    Under <- MCUnder
    MaxObjects = 2
    MaxSize = 3
INVARIANTS TypeOK SizeAccounts LimitsRespected
PROPERTIES RefusedOnlyWhenFull ImplementsStore CallsComplete
CHECK_DEADLOCK TRUE
