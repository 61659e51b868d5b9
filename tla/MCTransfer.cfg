CONSTANTS
    MinChunkWorth = 3
    BufferSize = 3
    Sizes <- MCSizes
    Requested <- MCRequested
SPECIFICATION Spec
INVARIANTS SegmentsDisjoint NothingLost BytesDoneExact CompleteMeansWhole
CHECK_DEADLOCK FALSE
