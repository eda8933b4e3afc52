\* Two references, an object to replace one source with, two clock values:
\* a removed source can expire (KeepSeconds = 0) and a live one go quiet.
CONSTANTS
    SrcRefs = {1, 2}
    Obj = {o1, o2}
    NoObj = NoObj
    KeepSeconds = 0
    QuietSeconds = 1
    MaxTime = 2
SYMMETRY ObjSymmetry
VIEW TableView
SPECIFICATION Spec
INVARIANTS
    TypeOK
    LiveSourcesAreInTable
    WaitingForDescIsCurrent
    QueriesAreForCurrentSources
    AwaitedCountsAreDescribed
PROPERTY AddedOnce
