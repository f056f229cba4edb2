CONSTANTS
    Programs = {"pipe", "attempt", "fifo"}
    WRITERS_COUNT = 2
    READERS_COUNT = 2
    MSG_COUNT = 4
    MSG_ELEMS = 3
    Capacity = 2
    MaxFailures = 1
SPECIFICATION FairSpec
INVARIANT WholeMessages
INVARIANT AllDelivered
PROPERTY AllEnd
CHECK_DEADLOCK FALSE
