SPECIFICATION Spec
CONSTANTS
    Users = {u1, u2}
    Calls = {c1, c2, c3}
    MaxAttempts = 2
    MaxRows = 5
    Faults <- AnyFault
    None = None
SYMMETRY Symmetry
INVARIANTS TypeOK FewAddresses
PROPERTIES ImplementsBook GivesUpForCause
