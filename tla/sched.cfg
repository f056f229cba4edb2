CONSTANTS
    Programs = {"detached", "pairs", "joined", "onExit", "counter", "named"}
    NUM_RESOURCES = 2
    NUM_TASKS = 3
    THREAD_BURST = 2
    MaxBursts <- MCMaxBursts
    NumClients = 2
    MaxStarts = 2
    MayFail = TRUE
SPECIFICATION FairSpec
INVARIANT UnitsConserved
INVARIANT FreedAfterUse
INVARIANT NoLostAdds
PROPERTY AllServed
CHECK_DEADLOCK FALSE
