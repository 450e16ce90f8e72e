SPECIFICATION Spec
CONSTANTS
    Requests = {r1, r2}
    Limits = {1, 3}
    HardCap = 2
    Window = 3
    KeyTTL = 2
    Patience = 1
    MaxTime = 6
    MaxRequests = 3
    Faults <- AnyFault
    None = None
SYMMETRY Symmetry
INVARIANTS TypeOK RevocationBounded RateRespected
PROPERTIES RefusedForCause
