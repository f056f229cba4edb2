CONSTANTS
    Programs = {"gennaio", "giugno"}
    BUFFER_SIZE = 2
    NumProducers = 2
    MaxInputs = 2
    MaxStarts = 2
    MayFail = TRUE
SPECIFICATION FairSpec
INVARIANT InOrder
INVARIANT RestartSucceeds
PROPERTY AllServed
CHECK_DEADLOCK FALSE
