SPECIFICATION Spec
CONSTANTS
    Sockets = {s1, s2}
    Scans = {b1, b2}
    Timeout = 1
    Interval = 2
    MaxTime = 7
    None = None
INVARIANTS
    TypeOK
    SessionsAgree
    StaleSessionsBounded
PROPERTIES
    ExpiresOnlyIdleSessions
    DeadSocketsForgotten
    BroadcastsEnd
CHECK_DEADLOCK FALSE
