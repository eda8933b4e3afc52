CONSTANTS
    Fds <- MCFds
    MaxMessages = 3
    ChecksResult = TRUE
SPECIFICATION FairSpec
INVARIANTS
    TypeOK
    RunUsesItsOwnSocket
    NoSocketLeaks
PROPERTY StopEndsLoop
