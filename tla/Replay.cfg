CONSTANTS
    SrcRefs = {1}
    Obj = {o1, o2}
    NoObj = NoObj
    Cut = Cut
    KeepSeconds = 0
    QuietSeconds = 1
    CleanupSeconds = 0
    MaxRuns = 1
    Interval = 1
    LeastInterval = 1
    MaxTime = 3
    WantTcp = TRUE
    WantUdp = FALSE
    ProviderOf <- MCTcpOnly
    OpenPorts = {"none", "conn"}
    PortMoves <- NeverMoves
    MaxLives = 2
    InboxCap = 3
    Refused = {}
    Lossy = FALSE
SYMMETRY ObjSymmetry
SPECIFICATION ReplaySpec
CHECK_DEADLOCK FALSE
INVARIANTS
    ReplayRepeatsSession
    ReplayIsComplete
