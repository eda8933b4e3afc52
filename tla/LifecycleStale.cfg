CONSTANTS
    Fds <- MCFds
    MaxMessages = 3
    ChecksResult = FALSE
SPECIFICATION Spec
INVARIANT ConnectedMeansConnected
