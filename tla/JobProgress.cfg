SPECIFICATION FairSpec
CONSTANTS
    n1 = n1  n2 = n2  c1 = c1  c2 = c2  w1 = w1  w2 = w2  k1 = k1  k2 = k2
    Priority <- SamePriority
    Value = {out, fail}
    Output = out
    Failure = fail
    Null = Null
    LeaseDuration = 2
    Handoff = 1
    RequeueInterval = 1
    Options <- Waiting
    Node = {n1}
    NodeOf <- Here
    Caller = {c1}
    Worker = {w1}
    Key = {k1, k2}
    Root = {k1, k2}
    MaxRetry = 1
    MaxCrash = 1
    RunCap = 0
INVARIANTS TypeOK ClosedIsVisible
PROPERTIES ResultStable JobFinishes GoResolves
