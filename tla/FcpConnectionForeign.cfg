SPECIFICATION Spec
CONSTANTS
    Federation = {f}
    Attempt = {x, y}
    Endpoint = {a, b}
    Foreign = {b}
    Description = {d}
    Candidate = {k}
    Payload = {}
    MaxSeen = 1
    MaxApplied = 3
    NoId = NoId
INVARIANTS
    NegotiatedOnce
    CandidatesBelongHere
CHECK_DEADLOCK FALSE
