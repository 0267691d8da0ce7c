SPECIFICATION Spec
CONSTANTS
    Account = {a, b}
    Served = {a, b}
    Token = {t, u, v}
    Credential = {c}
    Counting = {c}
    Family = {f, g}
    Worker = {w, x}
    Lifetime = 1
    MaxClock = 2
    MaxSigned = 2
    None = None
INVARIANTS
    AssertedSession
    RegisteredBySelf
    GenuineIsAccepted
SYMMETRY Interchangeable
