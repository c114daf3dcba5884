SPECIFICATION Spec
CONSTANTS
    g1 = g1  g2 = g2  cpu = cpu  s1 = s1  s2 = s2  s3 = s3
    Group = {g1, g2}
    Resource = {cpu}
    Resources <- MCResources
    UseResource <- MCUse
    Session = {s1, s2, s3}
    Expire = 2
    GCInterval = 1
    Slot = {p1, p2}
    Client = {c1, c2}
    MaxUse = 1
    Null = Null
INVARIANTS NeverOvercommitted BookedIsUsed LockedHasSession NotClosedInUse
SYMMETRY Symmetric
