CONSTANTS
    SrcRefs = {1}
    Obj = {o1}
    NoObj = NoObj
    KeepSeconds = 0
    QuietSeconds = 1
    CleanupSeconds = 1
    MaxRuns = 2
    Interval = 1
    LeastInterval = 1
    MaxTime = 1
    WantTcp = TRUE
    WantUdp = FALSE
    ProviderOf <- MCTcpOnly
    OpenPorts = {"conn"}
    PortMoves <- NeverMoves
    MaxLives = 1
    InboxCap = 4
    Refused = {}
    Lossy = FALSE
SPECIFICATION FairClientSpec
PROPERTY ClosedStreamsAreWithdrawn
