CONSTANTS
    Names = {a, b}
    NoName = none
    ClusterCount = 3
    ClusterBytes = 1
    END_OF_CHAIN = 99
    BitsPerByte = 3
    MaxLen = 2
    Bytes = {"0"}
    Zero = "0"
    Noise = "?"
    Ops = {"create", "write", "extend", "shrink", "empty", "remove", "rename"}
    MaxCuts = 1
    CutKinds = {"create", "write", "shrink", "remove", "rename"}
SPECIFICATION CacheSpec
INVARIANTS
    CommittedChainsApart
    OnlyWrittenBytes
PROPERTIES
    LossHitsOnlyTheCall
    KeepsFileStore
    EveryCallReturns
