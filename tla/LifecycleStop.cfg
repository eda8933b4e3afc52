CONSTANTS
    Fds <- MCFds
    MaxMessages = 3
    ChecksResult = TRUE
SPECIFICATION FairSpec
PROPERTY StopEndsRun
