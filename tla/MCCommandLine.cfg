CONSTANTS
    SearchAmount = 3
    SearchThreads = 2
    SearchTop = 2
    Verbose = TRUE
    Speeds <- MCSpeeds
    MaxNocreate = 1
    MaxUrls = 8
    MaxLen = 8
    Directories <- MCDirectories
    Norest <- MCNorest
    MaxNumber = 5
    MaxFaults = 2
    Commands <- MCCommands
    Before_ <- MCBefore
    MaxRuns = 2
SPECIFICATION FairCL
INVARIANTS PoolAccounts FastestFirst ExpansionExact OneSource ExitTruthful
PROPERTIES SearchEnds NeverClobbers
CHECK_DEADLOCK FALSE
