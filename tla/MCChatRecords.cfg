SPECIFICATION Spec
CONSTANTS
    s1 = s1
    u1 = u1
    c1 = c1
    c2 = c2
    Sockets <- MCSockets
    ConvOf <- MCConvOf
    UserOf <- MCUserOf
    Convs = {c1, c2}
    Users = {u1}
    Agents = {a1}
    Reasons = {r1}
    Requests = {q1}
    Limits = {1, 2, 3}
    MaxMessages = 3
    MaxEscalations = 2
    MaxRestarts = 1
    MaxLoops = 1
    None = None
INVARIANTS
    TypeOK
    HistoryIsTail
    QueueShowsLatestEscalations
PROPERTIES
    HistoriesAreLogs
