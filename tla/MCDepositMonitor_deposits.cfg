SPECIFICATION Spec
CONSTANTS
    Transfers <- TwoTransfers
    Monitors = {m1, m2}
    Users <- OneUser
    Owner <- ToAnn
    TxOf <- OwnTransactions
    Amount <- TwoAmounts
    MinDeposit = 1
    ReorgDepth = 1
    BootstrapBlocks = 2
    MaxCatchUpBlocks = 4
    ScanChunkBlocks = 2
    MaxHead = 5
    Faults <- HarmlessFaults
    None = None
INVARIANTS TypeOK NothingSkipped Accounted
PROPERTY CreditsFollowLedger
CHECK_DEADLOCK FALSE
