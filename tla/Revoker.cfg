SPECIFICATION RevokerSpec
CONSTANTS
    Char = {1, 2}
    NoValue = NoValue
    NoWork = NoWork
    Scope <- MCScope
    Subject <- MCSubject
    Worker = {w1, w2}
    Keep = 2
    MaxTime = 1
    MaxEpoch = 2
    MaxRevoke = 3
INVARIANTS NoFalseDenial KeptUntilRotatedOut MatchesArePrefixes
