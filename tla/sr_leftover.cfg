CONSTANTS
    BufferSize = 3
    NumOperations = 5
    Amount <- MCAmount
    Leftover = TRUE
    Garbage = {0, 7}
SPECIFICATION FairSpec
INVARIANT IndInv
INVARIANT NoCellRace
INVARIANT SumsAgree
PROPERTY ClearChangesNothing
PROPERTY RunEnds
PROPERTY FifoRefinement
