SPECIFICATION FairSpec
CONSTANTS
    NumKeys = 2
    Calls = {c1}
    Capacity = 3
    MinRemaining = 2
    Quota = 3
    MaxTime = 1
    Faults <- NoFault
    None = None
PROPERTIES PoolRecovers
