CONSTANTS
    SrcRefs = {1}
    Obj = {o1}
    NoObj = NoObj
    KeepSeconds = 1
    QuietSeconds = 1
    CleanupSeconds = 2
    MaxRuns = 1
    Interval = 1
    LeastInterval = 1
    MaxTime = 1
    WantTcp = TRUE
    WantUdp = FALSE
    ProviderOf <- MCTcpOnly
    OpenPorts = {"none"}
    PortMoves <- CreatedIsConnected
    MaxLives = 1
    InboxCap = 5
    Refused = {}
    Lossy = FALSE
SPECIFICATION ClientSpec
PROPERTY RemovedWereAdded
