CONSTANTS
    Variants = {FALSE, TRUE}
    BufferSize = 2
    NumProducers = 1
    NumConsumers = 2
    OpsPerProducer = 4
    OpsPerConsumer = 2
    MaxSessions = 2
    MaxAttempts = 2
SPECIFICATION FairSpec
INVARIANT FileRestartSucceeds
INVARIANT InOrder
INVARIANT ExclusiveAccess
INVARIANT NothingLeft
PROPERTY SessionEnds
CHECK_DEADLOCK FALSE
