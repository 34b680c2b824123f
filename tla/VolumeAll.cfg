CONSTANTS
    Names = {a, b}
    NoName = none
    ClusterCount = 2
    ClusterBytes = 2
    END_OF_CHAIN = 99
    BitsPerByte = 8
    MaxLen = 4
    Bytes = {"0", "x"}
    Zero = "0"
    Noise = "?"
    Ops = {"create", "write", "extend", "shrink", "remove", "rename"}
    MaxCuts = 1
    CutKinds = {"create", "write", "remove"}
SPECIFICATION Spec
INVARIANTS
    NoSharedClusters
    LiveClustersAllocated
    NoLostClusters
PROPERTY ImplementsFileStore
SYMMETRY Interchangeable
