SPECIFICATION Spec
CONSTANTS
    e1 = e1
    d1 = d1
    d2 = d2
    Events = {e1}
    Days = {d1, d2}
    Future = d2
    SaleKinds <- MCSaleKinds
    Requests = {r1, r2}
    Asks <- MCAsks
    CacheTime = 1
    ListLength = 100
    MaxTime = 2
    MaxSales = 2
    MaxRequests = 2
INVARIANTS
    TypeOK
    ReportsNameTheirEvents
    ListedReportsAreReadable
CHECK_DEADLOCK FALSE
