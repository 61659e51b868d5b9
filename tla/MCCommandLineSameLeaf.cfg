CONSTANTS
    SearchAmount = 3
    SearchThreads = 2
    SearchTop = 2
    Verbose = TRUE
    Speeds <- MCSpeeds
    MaxNocreate = 1
    MaxUrls = 8
    MaxLen = 8
    Directories <- MCDirectories
    Norest <- MCNorest
    MaxNumber = 5
    MaxFaults = 0
    Commands <- MCSameLeaf
    Before_ <- MCBefore
    MaxRuns = 1
SPECIFICATION CLSpec
INVARIANTS EpisodesDoNotClobber
CHECK_DEADLOCK FALSE
