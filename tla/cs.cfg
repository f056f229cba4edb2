CONSTANTS
    Programs = {"echo", "attempt", "resource", "slots", "reverse", "time"}
    NumClients <- MCNumClients
    MaxRequests <- MCMaxRequests
    N = 2
    MaxConnections = 2
    MaxConnQueue = 3
    MayFail = TRUE
SPECIFICATION FairSpec
INVARIANT RepliesInOrder
INVARIANT CountsHandedOutOnce
INVARIANT SlotsConserved
CHECK_DEADLOCK FALSE
PROPERTY AllServed
PROPERTY OthersServed
