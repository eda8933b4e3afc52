CONSTANTS
    SrcRefs = {1, 2}
    Obj = {o1, o2}
    NoObj = NoObj
    KeepSeconds = 1
    QuietSeconds = 1
    CleanupSeconds = 2
    MaxRuns = 1
    Interval = 1
    LeastInterval = 1
    MaxTime = 2
    WantTcp = TRUE
    WantUdp = TRUE
    ProviderOf <- MCProviderOf
    OpenPorts = {"listen", "conn"}
    PortMoves <- BoundIsConnected
    MaxLives = 1
    InboxCap = 3
    Refused = {}
    Lossy = FALSE
SPECIFICATION FairClientSpec
PROPERTIES
    HandshakeCompletes
    StreamsAreAnnounced
    ClosedStreamsAreWithdrawn
    CountsAreAnswered
