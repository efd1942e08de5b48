SPECIFICATION Spec
CONSTANTS
    a = a
    b = b
    m = m
    Branches = {a, b}
    Bookmarks = {m}
    Files = {"f", "g"}
    Shapes <- SomeShapes
    MaxCommits = 4
    Contexts = {x1, x2}
    NoContext = NoContext
    Methods <- SomeMethods
    Args <- Revs
    Threads = {t1, t2}
    NoThread = NoThread
    CommitEdits <- SomeEdits
    Pulls <- SomePulls
    Pushes <- SomePushes
    CheckHeads = TRUE
    Publishing = TRUE
    MaxCalls = 3
    MaxReads = 2
    MaxFaults = 1
SYMMETRY Symmetry
CHECK_DEADLOCK FALSE
INVARIANTS
    HeadsRight
    SeenOnceAnnounced
PROPERTIES
    LandsAsApproved
    LandedIsAnnounced
