CONSTANTS
    MinChunkWorth = 2
    BufferSize = 2
    Size = 5
    Requested = 2
    Servers <- AnyServer
    Resumes <- FreshOrResumed
    Faults <- AllFaults
    MaxFaults = 2
SPECIFICATION Spec
INVARIANTS TypeOK NoOrphanedLock SocketExclusive DownloadsOwnPart ContentCorrect ResumableOrDone
PROPERTY ImplementsTransfer
CHECK_DEADLOCK FALSE
