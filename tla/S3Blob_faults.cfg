\* Two clients, two keys, pages of one object; one request refused or lost.
SPECIFICATION FairSpec
CONSTANTS
    c1 = c1  c2 = c2  v1 = v1  v2 = v2
    all = all
    None = None
    Clients <- TwoClients
    Keys <- MCKeys
    Values <- MCValues
    Prefixes <- MCPrefixes
    Under <- MCUnder
    PageSize = 1
    MaxFaults = 1
INVARIANTS TypeOK DeleteJustified ScanFaithful
PROPERTIES ImplementsRemote EveryCallReturns
CHECK_DEADLOCK TRUE
