SPECIFICATION Spec
CONSTANTS
    NumKeys = 2
    Calls = {c1, c2}
    Capacity = 5
    MinRemaining = 4
    Quota = 5
    MaxTime = 2
    Faults <- AnyFault
    None = None
SYMMETRY Symmetry
INVARIANTS SelectsHealthiest Reserve
