SPECIFICATION FairSpec
CONSTANTS
    Handler = {h1, h2}
    Paced = {h1}
    Routed = {h1}
    Job = {j1, j2}
    Worker = {w1, w2}
    Firing = {f1}
    Null = Null
    Quiet = 2
    h1 = h1
    j1 = j1  j2 = j2
    Load <- MCLoad
    MaxRequest = 1
    MaxWrapping = 1
INVARIANTS IntervalExclusive PanicsOnlyStarting
PROPERTIES WaitMeansIdle ServeEnds LocksReleased
CHECK_DEADLOCK FALSE
