CONSTANTS
    SrcRefs = {1}
    Obj = {o1, o2}
    NoObj = NoObj
    KeepSeconds = 0
    QuietSeconds = 1
    CleanupSeconds = 1
    MaxRuns = 2
    Interval = 1
    LeastInterval = 1
    MaxTime = 4
    WantTcp = TRUE
    WantUdp = TRUE
    ProviderOf <- MCTcpOnly
    OpenPorts = {"conn"}
    PortMoves <- NeverMoves
    MaxLives = 1
    InboxCap = 4
    Refused = {}
    Lossy = TRUE
SYMMETRY ObjSymmetry
SPECIFICATION ClientSpec
INVARIANTS
    RequestsDoNotPileUp
    RemovedLeaveInTime
PROPERTY ListenerContract
