CONSTANTS
    Names = {a, b}
    NoName = none
    ClusterCount = 4
    ClusterBytes = 1
    END_OF_CHAIN = 99
    BitsPerByte = 8
    MaxLen = 2
    Bytes = {"0"}
    Zero = "0"
    Noise = "?"
    Ops = {"create", "write", "shrink"}
    MaxCuts = 1
    CutKinds = {"shrink"}
SPECIFICATION Spec
INVARIANT CommittedFilesReadable
