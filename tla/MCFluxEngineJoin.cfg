CONSTANTS
    MinChunkWorth = 2
    BufferSize = 2
    Size = 5
    Requested = 2
    Servers <- RangeServer
    Resumes <- FreshOnly
    Faults <- ExpireOnly
    MaxFaults = 1
SPECIFICATION Spec
INVARIANT JoinsItsThread
CHECK_DEADLOCK FALSE
