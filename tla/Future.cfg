SPECIFICATION FairSpec
CONSTANTS
    t1 = t1  t2 = t2  c1 = c1  f1 = f1
    Callback = {t1, t2, c1, f1}
    Kind <- MCKind
    Deliverer = {d1, d2}
    Waiter = {w1}
    Null = Null
INVARIANTS AtMostOnce AwaitAgrees
PROPERTY CallbackRuns
CHECK_DEADLOCK FALSE
