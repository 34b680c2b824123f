CONSTANTS
    Callers = {s, t}
    Nobody = nobody
    Blocks = {p, q, h}
    Hidden = {h}
    MaxMutations = 2
SYMMETRY Interchangeable
SPECIFICATION Spec
INVARIANTS
    TypeOK
    LockedMeansGone
    InternalMeansGone
    AcknowledgedIsDurable
PROPERTIES
    ClosedStaysUntouched
    LatchFreezesVolume
    ImplementsSerialVolume
