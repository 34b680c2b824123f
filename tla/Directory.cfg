CONSTANTS
    Files = {a, b}
    Dirs = {d, e}
    LongNames = {a, b, d, e}
    Root = root
    None = none
    ClusterCount = 4
    PerCluster = 4
    SystemSlots = 4
    END_OF_CHAIN = 99
    Lens = {0, 1}
    Fresh = FALSE
    Ops = {"create", "mkdir", "update", "remove", "rename"}
    MaxCuts = 0
SPECIFICATION Spec
INVARIANTS
    TypeOK
    ReadersAgree
    NoLostDirectoryClusters
    CreatedIsFound
PROPERTY ImplementsTree
SYMMETRY Interchangeable
CHECK_DEADLOCK FALSE
