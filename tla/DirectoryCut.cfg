CONSTANTS
    Files = {a, b}
    Dirs = {d}
    LongNames = {a, b, d}
    Root = root
    None = none
    ClusterCount = 3
    PerCluster = 8
    SystemSlots = 8
    END_OF_CHAIN = 99
    Lens = {0}
    Fresh = TRUE
    Ops = {"create", "mkdir", "remove", "rename"}
    MaxCuts = 1
SPECIFICATION Spec
INVARIANTS
    NamesUnique
    DirectoriesSound
PROPERTY KeepsTree
SYMMETRY Interchangeable
CHECK_DEADLOCK FALSE
