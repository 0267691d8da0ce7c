SPECIFICATION SessionSpec
CONSTANTS
    fed = fed
    att = att
    me = me
    you = you
    Federation = {fed}
    Attempt = {att}
    Endpoint = {me, you}
    Foreign = {you}
    Description = {d}
    Candidate = {0}
    Payload = {p}
    MaxSeen = 4
    MaxApplied = 2
    NoId = NoId
    Self <- TheSession
    Inbound <- Signals
    Channel = {h}
    SignalCapacity = 2
    EventCapacity = 1
    MaxStaged = 1
INVARIANT RemoteCloseSurfaces
CHECK_DEADLOCK FALSE
