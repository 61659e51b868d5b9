CONSTANTS
    Segments <- MCSegments
    Concurrency = 3
    Options <- OptionRecords
    Faults <- MCFaults
    MaxFaults = 3
    MaxRedirect = 3
    Servers <- MCServers
    Starts <- MCStarts
    ReadSize = 2
    MaxBody = 9
    MaxCuts = 1
    FtpServers <- MCFtpServers
    MaxRedir = 2
    Wanted <- MCWanted
    MaxLate = 3
SPECIFICATION MCSpec
INVARIANTS ClaimedOnce OutputWhole NothingLeftBehind FtpInfoTruthful FtpOffsetRight InfoTruthful BuffersFit
PROPERTIES DownloadReturns ExchangeEnds
CHECK_DEADLOCK FALSE
