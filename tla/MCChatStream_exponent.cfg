SPECIFICATION ChatSpec
CONSTANTS
    Chunks <- AllChunks
    Modes <- BothModes
    MaxLines = 4
    MaxAhead = 2
    Nothing = Nothing
INVARIANT RestIdentical
