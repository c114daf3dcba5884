SPECIFICATION Spec
CONSTANTS
    n1 = n1  n2 = n2  c1 = c1  c2 = c2  w1 = w1  w2 = w2  k1 = k1  k2 = k2
    Priority <- SamePriority
    Value = {out, fail}
    Output = out
    Failure = fail
    Null = Null
    LeaseDuration = 2
    Handoff = 1
    RequeueInterval = 1
    Options <- Shared
    Node = {n1, n2}
    NodeOf <- Spread
    Caller = {c1, c2}
    Worker = {w1, w2}
    Key = {k1}
    Root = {k1}
    MaxRetry = 1
    MaxCrash = 1
    RunCap = 2
INVARIANTS Exclusive RunsOnce
PROPERTIES CacheKept StuckOnlyByCall
VIEW AllButReply
