SPECIFICATION Spec
CONSTANTS
    f = f
    g = g
    a = a
    u = u
    v = v
    w = w
    x = x
    y = y
    z = z
    Federation = {f, g}
    Authority = {a, b}
    ForeignAuthority = {b}
    Cfr = {u, v, w}
    Endpoint = {x, y, z}
    Server <- OneServer
    Client <- Clients
    MemberList <- Lists
    Link <- Links
    MaxMembers = 3
    MaxEpoch = 2
    MaxRun = 1
    None = None
    Everyone = Everyone
INVARIANTS
    TypeOK
    ViewIsSnapshot
    SameEpochSameView
    RoutedToMembers
    BroadcastComplete
PROPERTY MonotoneViews
