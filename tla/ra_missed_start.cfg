CONSTANTS
    N = 2
    M = 1
    MaxBursts = 1
SPECIFICATION FairSpec
PROPERTY MainGetsToParse
