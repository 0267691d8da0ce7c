SPECIFICATION Spec
CONSTANTS
    Tenant = {m, n}
    Account = {a, b}
    Family = {f}
    Grant = {x, y}
    Worker = {w, v}
    InitialRole = {"admin", "member"}
    Asked <- Changes
    Lifetime = 1
    MaxClock = 2
    Operable = {"active", "mfa_enrollment_required"}
    None = None
INVARIANTS
    OwnerKept
    OneProofOneChange
    AuditExplainsRoles
SYMMETRY Interchangeable
CHECK_DEADLOCK FALSE
