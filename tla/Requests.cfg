SPECIFICATION Spec
CONSTANTS
    u1 = u1  u2 = u2  t1 = t1  doc = doc  junk = junk  token = token
    None = None
    Uid = {u1, u2}
    Tenant = {t1}
    Debug = TRUE
    Revoked = {u2}
    DisableValidator = FALSE
    Text = {junk, token}
    Policy <- MCPolicy
    Inject <- MCInject
    Slot = {s1, s2}
    Client = {c1, c2}
    Arrivals <- MCArrivals
    Tools <- MCTools
    Nested <- MCNested
    MaxServed = 2
SYMMETRY MCSymmetry
INVARIANTS WritableProven RunsPermitted InputValid SerialSession NeverForeign
CHECK_DEADLOCK FALSE
