SPECIFICATION Spec
CONSTANTS
    volatile = volatile
    persistent = persistent
    Key <- MCKey
    Root = {r1, r2}
    Value = {v}
    Null = Null
    Priority <- MCPriority
    LeaseDuration = 1
    MaxRetry = 0
    Total_ = Total_
    CacheExpire <- MCCacheExpire
    RequeueInterval = 1
    MaxRetriesError = v
SYMMETRY Symmetry
INVARIANTS TypeOK CountsConsistent
