CONSTANTS
    Word = 2097152
    LongWord = 1610612736
    Memory = 190000
    Requests <- MCRequests
    Desktop <- MCDesktop
    Fds = {f1, f2, f3}
    MaxDamage = 2
SYMMETRY FdSymmetry
SPECIFICATION Spec
INVARIANT TypeOK
INVARIANT CreatedOpens
INVARIANT BootMeansComplete
INVARIANT VerdictsAreHonest
INVARIANT DescriptorsSettled
INVARIANT VolumesKeepToTheirAreas
INVARIANT LayoutsAreSound
CHECK_DEADLOCK FALSE
