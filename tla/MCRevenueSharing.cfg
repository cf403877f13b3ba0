SPECIFICATION Spec
CONSTANTS
    ProcessingRate = 29
    FixedFee = 30
    PlatformFee = 5
    OrganizerShare = 80
    VenueFee = 10
    MaxPercentage = 100
    Supported <- MCSupported
    Events = {e1, e2}
    Configs <- MCConfigs
    Inputs <- MCInputs
    Savers = {t1, t2}
    MaxSaves = 3
    MaxCalcs = 1
INVARIANTS
    TypeOK
    LatestSaveIsKept
    PayoutsAddUp
CHECK_DEADLOCK FALSE
