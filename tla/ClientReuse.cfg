CONSTANTS
    SrcRefs = {1}
    Obj = {o1, o2}
    NoObj = NoObj
    KeepSeconds = 1
    QuietSeconds = 1
    CleanupSeconds = 2
    MaxRuns = 1
    Interval = 1
    LeastInterval = 1
    MaxTime = 6
    WantTcp = TRUE
    WantUdp = TRUE
    ProviderOf <- MCTcpOnly
    OpenPorts = {"none", "listen", "conn"}
    PortMoves <- BoundIsConnected
    MaxLives = 2
    InboxCap = 5
    Refused = {"udp"}
    Lossy = FALSE
SYMMETRY ObjSymmetry
SPECIFICATION ClientSpec
INVARIANTS
    ClientTypeOK
    TableMatchesKernelWhenDrained
    NoSourceForgotten
    NoCountForgotten
    RemovedLeaveInTime
PROPERTY ListenerContract
