SPECIFICATION Spec
CONSTANTS
    Federation = {f}
    Attempt = {x}
    Endpoint = {a, b}
    Foreign = {}
    Description = {d, e}
    Candidate = {k}
    Payload = {p}
    MaxSeen = 2
    MaxApplied = 4
    NoId = NoId
INVARIANTS
    TypeOK
    ReplayWindow
    Agreement
    CfrWithinAgreement
    GlareNeverResolves
PROPERTIES NeverRewritten ImplementsContract
CHECK_DEADLOCK FALSE
