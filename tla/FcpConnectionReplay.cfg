SPECIFICATION Spec
CONSTANTS
    Federation = {f}
    Attempt = {x}
    Endpoint = {a, b}
    Foreign = {}
    Description = {d}
    Candidate = {k}
    Payload = {p}
    MaxSeen = 2
    MaxApplied = 4
    NoId = NoId
INVARIANT NoSecondAction
CHECK_DEADLOCK FALSE
