SPECIFICATION LiveSpec
CONSTANTS
    Transfers <- TwoTransfers
    Monitors = {m1}
    Users <- TwoUsers
    Owner <- ToBoth
    TxOf <- OwnTransactions
    Amount <- TwoAmounts
    MinDeposit = 1
    ReorgDepth = 1
    BootstrapBlocks = 2
    MaxCatchUpBlocks = 4
    ScanChunkBlocks = 2
    MaxHead = 6
    Faults <- ReadFaults
    None = None
PROPERTY DepositsArrive
CHECK_DEADLOCK FALSE
