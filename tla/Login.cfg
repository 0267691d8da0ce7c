SPECIFICATION Spec
CONSTANTS
    Account = {a}
    Password = {p}
    Dummy = Dummy
    Token = {t, u, v}
    Factor = {f, g}
    Family = {s, r}
    Worker = {w, x}
    Lifetime = 1
    MaxClock = 2
    Operable = {"active", "mfa_enrollment_required", "suspended"}
    None = None
INVARIANTS
    OneSessionPerTransaction
    SecondFactorAlways
    CodeAcceptedOnce
    ActiveHasOneFactor
    ConfirmedWhereShown
SYMMETRY Interchangeable
