CONSTANTS
    Starts = {"semaphore", "fifo"}
    N = 3
    M = 1
    MaxRounds = 2
    MayFail = TRUE
SPECIFICATION FairSpec
INVARIANT ExclusiveFile
INVARIANT NobodyStartsEarly
INVARIANT CountIsFinal
INVARIANT AtMostOneMoreRound
PROPERTY AllTerminate
PROPERTY MainTerminates
