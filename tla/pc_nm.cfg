CONSTANTS
    BufferSize = 2
    NumProducers = 2
    NumConsumers = 2
    OpsPerProducer = 2
    OpsPerConsumer = 2
    UsesWriteSem = TRUE
    UsesReadSem = TRUE
    DrawsInLock = FALSE
    Amount <- MCAmount
SPECIFICATION FairSpec
INVARIANT IndInv
INVARIANT NoCellRace
INVARIANT FinalDeposit
PROPERTY FifoRefinement
PROPERTY Termination
