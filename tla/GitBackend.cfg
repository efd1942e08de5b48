SPECIFICATION Spec
CONSTANTS
    main = main
    topic = topic
    Branches = {main, topic}
    Tags = {}
    HeadBranch = main
    HEAD = HEAD
    Files <- SomeFiles
    FirstTree <- OneDirectory
    MaxCommits = 2
    Contexts = {x1, x2}
    NoContext = NoContext
    Methods <- SomeMethods
    Args <- Revs
    Threads = {t1, t2}
    ChunkRefs = 1
    CommitEdits <- SomeEdits
    Pulls <- SomePulls
    MaxCalls = 3
    MaxReads = 2
    MaxFaults = 1
SYMMETRY Symmetry
CHECK_DEADLOCK FALSE
INVARIANTS
    RefsClosed
    EditKept
    ContextFresh
PROPERTIES
    CommitAnswerRight
    PullKeepsOthers
