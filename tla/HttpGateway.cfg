SPECIFICATION GatewaySpec
CONSTANTS
    r1 = r1
    r2 = r2
    ip = ip
    operator = operator
    member = member
    Null = Null
    Requests <- MCRequests
    Keys <- MCKeys
    Groups <- MCGroups
    Accounts <- MCAccounts
    Operators = {operator}
    Address = ip
    maxLimiterEntries = 1
    Burst = 1
    Patience = 1
    Limit = 1
    Watched <- MCWatched
SYMMETRY Symmetry
INVARIANTS MemoryBounded CounterExpires ChargedToCaller UploadAccounted
PROPERTIES ImplementsBucket
