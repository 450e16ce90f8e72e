SPECIFICATION Spec
CONSTANTS
    Executions = {e1, e2}
    Addresses = {a1}
    Treasury = treasury
    Workers = 1
    MinUSD = 1
    Prices <- CheapOrDear
    TransferGas = 1
    FundGas = 1
    InitialUsdc = 1
    TreasuryEth = 8
    Deposits = {1}
    MaxUsdc = 3
    Faults <- AnyFault
SYMMETRY Symmetry
CHECK_DEADLOCK FALSE
INVARIANTS TypeOK NoNonceGap FailuresByOverlap GasFundedOnce ReportsTrue
