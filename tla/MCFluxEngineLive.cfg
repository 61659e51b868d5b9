CONSTANTS
    MinChunkWorth = 2
    BufferSize = 2
    Size = 4
    Requested = 2
    Servers <- RangeServers
    Resumes <- FreshOnly
    Faults <- LossFaults
    MaxFaults = 2
SPECIFICATION FairSpec
PROPERTY EventuallyComplete
CHECK_DEADLOCK FALSE
