SPECIFICATION FairSpec
CONSTANTS
    BufferChunks = 2
    TimeoutInput = 1
    Bottomless = TRUE
    Starting = 0
    PipeCap = 2
    MaxChunks = 6
INVARIANTS
    LastChunksKept
PROPERTIES
    Counts
    ChildNeverBlocked
