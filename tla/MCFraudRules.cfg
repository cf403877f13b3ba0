SPECIFICATION FraudSpec
CONSTANTS
    ip1 = ip1
    u1 = u1
    e1 = e1
    k1 = k1
    hall = hall
    gate = gate
    NoLocation = NoLocation
    NoCapacity = NoCapacity
    DefaultCapacity = 1000000
    EventKinds <- MCEventKinds
    IpWindow = 1
    TravelWindow = 3
    DayLength = 144
    MaxPerIp = 3
    MaxPerDay = 5
    MaxEvents = 6
INVARIANTS
    RulesAreExact
CHECK_DEADLOCK FALSE
