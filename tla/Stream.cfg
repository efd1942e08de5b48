SPECIFICATION FairSpec
CONSTANTS
    BufferChunks = 1
    TimeoutInput = 2
    Bottomless = FALSE
    Starting = 1
    PipeCap = 1
    MaxChunks = 7
INVARIANTS
    MemoryBound
    ExitNeedsTimeouts
PROPERTIES
    Delivers
    Counts
    NextReturns
    StreamEnds
