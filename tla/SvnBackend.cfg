SPECIFICATION Spec
CONSTANTS
    Paths <- SomePaths
    FirstTree <- SomeTree
    MaxCommits = 3
    Contexts = {x1}
    NoContext = NoContext
    Methods <- SomeMethods
    Args <- Revs
    Threads = {t1, t2}
    Kinds <- SomeKinds
    FirstFiles <- SomeFiles
    Installers = {i1, i2}
    CommitEdits <- SomeEdits
    MaxInstalls = 2
    MaxUserActs = 1
    MaxFaults = 1
    MaxReads = 2
    MaxCalls = 4
SYMMETRY Symmetry
CHECK_DEADLOCK FALSE
INVARIANTS
    HooksKept
    RevisionAnswerRight
PROPERTIES
    LandsAsAsked
    ApprovedLands
