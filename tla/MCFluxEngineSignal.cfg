CONSTANTS
    MinChunkWorth = 2
    BufferSize = 2
    Size = 5
    Requested = 2
    Servers <- RangeServer
    Resumes <- FreshOnly
    Faults <- SignalOnly
    MaxFaults = 1
SPECIFICATION Spec
INVARIANT ExitCodeTruthful
CHECK_DEADLOCK FALSE
