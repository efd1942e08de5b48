SPECIFICATION Spec
CONSTANTS
    main = main
    topic = topic
    Pushers = {p1, p2}
    Branches = {main, topic}
    Revs = {1, 2}
    Nil = 0
    Ancestors <- History
    InitialRefs <- OneBranch
    UpdateServerInfo = TRUE
    DetectForcePush = TRUE
    MaxFaults = 1
SYMMETRY Symmetry
INVARIANTS
    RefusedMovesNothing
    MovedIsAnnounced
PROPERTIES
    PrunedAsTold
    InfoFresh
