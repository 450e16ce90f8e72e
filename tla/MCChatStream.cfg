SPECIFICATION ChatSpec
CONSTANTS
    Chunks <- AllChunks
    Modes <- BothModes
    MaxLines = 4
    MaxAhead = 2
    Nothing = Nothing
INVARIANTS ChatTypeOK BilledAsReported EventsFaithful
PROPERTY AlwaysSettled
