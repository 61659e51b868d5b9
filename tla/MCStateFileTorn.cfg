CONSTANTS
    MinChunkWorth = 2
    BufferSize = 2
    Sizes <- MCSizes
    Requested <- MCRequested
    MaxRuns = 3
SPECIFICATION SSpec
INVARIANTS CompleteMeansWhole
CHECK_DEADLOCK FALSE
