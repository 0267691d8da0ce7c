SPECIFICATION Spec
CONSTANTS
    Local = {m}
    Remote = {r}
    Key = {k, j}
    Request = {i}
    Document = {k, j}
    Presented <- OneDefectAtMost
    Trust = {"active", "suspended"}
    Worker = {w, x}
    Ticks = 2
    Skew = 1
    MaxLifetime = 1
    MaxClock = 2
    MaxStamp = 6
    MaxKeys = 2
    None = None
INVARIANTS
    AcceptedOnce
    TrustedWhileHandled
SYMMETRY Interchangeable
