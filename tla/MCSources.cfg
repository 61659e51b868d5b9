CONSTANTS
    None = None
    Playlists <- MCPlaylists
    MasterLines <- MCMasterLines
    MediaLines <- MCMediaLines
    MaxMasterLines = 4
    MaxMediaLines = 6
    Qualities <- MCQualities
    MaxVariants = 2
    MaxSegments = 2
    Page <- MCPage
    Forced = None
    Path <- MCPath
    Begun <- MCBegun
    Lines <- MCLines
    UserFile = "user"
    MaxAdded = 5
    Sites <- MCSites
    Captures <- MCCaptures
    ScanCaptures <- MCScanCaptures
    Wanted_ <- MCWanted
    MaxMatches = 2
    MaxDirectives = 9
    MaxHeaders = 1
    MaxVars = 7
    MaxEpisodes = 3
    Depths = {0, 1, 2}
    ScanFile = "scanned"
    DirectEres <- MCDirectEres
    IframeEre <- MCIframeEre
    LinkEres <- MCLinkEres
    AnchorEre <- MCAnchorEre
    EpisodeEres <- MCEpisodeEres
    MediaEres <- MCMediaEres
    Ext <- MCExt
    Numbered <- MCNumbered
    Loosened <- MCLoosened
    HandleNames = {"file"}
    Related <- MCRelated
    Relevance <- MCRelevance
    AdHosts = {"ads"}
    MaxCandidates = 3
    MaxFollow = 2
    MaxChain = 3
    MaxFetches = 4
    SeriesMin = 2
    MaxHrefs = 3
    MaxPool = 2
    Count = 3
    Preselected = {2}
    MaxTokens = 5
    Rows = {2, 7, 9, 11, 12, 30}
    Chromes = {8, 9}
    Summaries = {1, 5, 6}
SPECIFICATION MCSpec
INVARIANTS PlaylistRight ExtractionRight ChainsLead ConfigReproduces ListsRight CursorShown TerminalRestored
CHECK_DEADLOCK FALSE
