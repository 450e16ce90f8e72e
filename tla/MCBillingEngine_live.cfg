SPECIFICATION FairSpec
CONSTANTS
    Reqs = {r1, r2}
    Estimates = {2}
    Costs = {1, 2}
    InitialBalance = 4
    TopUps = {}
    MaxLoaded = 4
    Periods <- DayAndMonth
    Limit <- BothLimits
    Faults <- CutsShort
    None = None
CHECK_DEADLOCK FALSE
INVARIANTS TrackerCovers SpendExact
PROPERTIES AdmittedWithinLimit RequestsEnd CacheEventuallyFresh
