CONSTANTS
    Variants = {TRUE}
    BufferSize = 2
    NumProducers = 1
    NumConsumers = 2
    OpsPerProducer = 4
    OpsPerConsumer = 2
    MaxSessions = 2
    MaxAttempts = 1
SPECIFICATION Spec
INVARIANT RestartSucceeds
CHECK_DEADLOCK FALSE
