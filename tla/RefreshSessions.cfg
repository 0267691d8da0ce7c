SPECIFICATION Spec
CONSTANTS
    Account = {a}
    Family = {f, g}
    Token = {s, t, u}
    Worker = {w, v}
    RefreshLifetime = 2
    AccessLifetime = 1
    MaxClock = 3
    None = None
INVARIANTS
    TypeOK
    OneChain
    AccessIsCurrent
    ReuseRevokes
    RotatedInTime
SYMMETRY Interchangeable
PROPERTY RevokedIsFinal
