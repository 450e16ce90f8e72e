SPECIFICATION Spec
CONSTANTS
    Reqs = {r1, r2}
    Estimates = {2}
    Costs = {1, 3}
    InitialBalance = 3
    TopUps = {2}
    MaxLoaded = 5
    Periods <- NoPeriod
    Limit <- Unlimited
    Faults <- AnyFault
    None = None
SYMMETRY Symmetry
CHECK_DEADLOCK FALSE
INVARIANTS TypeOK WalletConserved PromisesCovered
PROPERTIES ImplementsLedger ServedIsPaid
