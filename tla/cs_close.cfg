CONSTANTS
    Programs = {"resource"}
    NumClients <- MCNumClients
    MaxRequests <- MCMaxRequests
    N = 2
    MaxConnections = 2
    MaxConnQueue = 3
    MayFail = TRUE
SPECIFICATION Spec
INVARIANT CloseIsHandled
CHECK_DEADLOCK FALSE
