CONSTANTS
    Files = {a}
    Dirs = {d}
    LongNames = {}
    Root = root
    None = none
    ClusterCount = 3
    PerCluster = 4
    SystemSlots = 3
    END_OF_CHAIN = 99
    Lens = {0, 1}
    Fresh = FALSE
    Ops = {"create"}
    MaxCuts = 0
SPECIFICATION Spec
INVARIANTS
    CreatedIsFound
CHECK_DEADLOCK FALSE
