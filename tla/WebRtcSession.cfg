SPECIFICATION SessionSpec
CONSTANTS
    fed = fed
    att = att
    me = me
    you = you
    Federation = {fed}
    Attempt = {att}
    Endpoint = {me, you}
    Foreign = {you}
    Description = {d, f}
    Candidate = {0, 1}
    Payload = {p}
    MaxSeen = 4
    MaxApplied = 2
    NoId = NoId
    Self <- TheSession
    Inbound <- Signals
    Channel = {h}
    SignalCapacity = 2
    EventCapacity = 1
    MaxStaged = 1
INVARIANTS
    SessionTypeOK
    NoSignalLost
    CandidateInOnePlace
    CfrDeliveredOnce
    EventsSound
    EngineMatchesNegotiation
CHECK_DEADLOCK FALSE
