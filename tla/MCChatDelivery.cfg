SPECIFICATION Spec
CONSTANTS
    s1 = s1
    s2 = s2
    s3 = s3
    u1 = u1
    u2 = u2
    c1 = c1
    Sockets <- MCSockets
    ConvOf <- MCConvOf
    UserOf <- MCUserOf
    Convs = {c1}
    Users = {u1, u2}
    Agents = {a1}
    Reasons = {r1}
    Requests = {}
    Limits = {1}
    MaxMessages = 0
    MaxEscalations = 0
    MaxRestarts = 0
    MaxLoops = 2
    None = None
INVARIANTS
    RegistriesNameRunningHandlers
    AtMostOncePerDelivery
    SkipsNeedDepartures
PROPERTIES
    DeadSocketsUnregistered
    DeliveriesEnd
CHECK_DEADLOCK FALSE
