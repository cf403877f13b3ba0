SPECIFICATION Spec
CONSTANTS
    e1 = e1
    d1 = d1
    d2 = d2
    Events = {e1}
    Days = {d1, d2}
    Future = d2
    SaleKinds <- MCSaleKinds
    Runners = {scheduler}
    MaxRetries = 2
    MaxPages = 2
    MaxSales = 2
    MaxRuns = 2
INVARIANT TotalsKeepLoadedSales
CHECK_DEADLOCK FALSE
