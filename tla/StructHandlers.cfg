\* Refs 4 and up need more than the 32 bits (here: 2) of the older kernels.
CONSTANTS
    Versions = {2422, 2782, 3248, 3789, 4570}
    Refs = {1, 5}
    NarrowRefs = 4
    Descriptions <- MCDescriptions
    Counters <- MCCounters
    NoSource = NoSource
    Untold = Untold
    MaxKeys = 2
SPECIFICATION Spec
INVARIANTS
    RequestsSayWhatIsMeant
    StreamIsAsReported
    KeysTellStreamsApart
