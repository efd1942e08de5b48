SPECIFICATION Spec
CONSTANTS
    Uploaders = {u1, u2}
    Downloaders = {d1}
    Size = 2
    MaxAborts = 1
    MaxCrashes = 1
SYMMETRY Symmetry
INVARIANTS
    StoredIsPrefix
PROPERTIES
    NeverVanishes
    AcceptedIsWhole
    ServedIsFrozen
