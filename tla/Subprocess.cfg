SPECIFICATION FairSpec
CONSTANTS
    ChunkCountMax = 1
    LateChunks = 1
    ErrKept = 1
    PipeCap = 1
    Works <- SomeWorks
INVARIANTS
    FailureNotMissed
    OutputComplete
PROPERTIES
    ConstructorReturns
    NextReturns
    CloseReleases
    RaiseReleases
