CONSTANTS
    Size = 20
    Group = 4
    Unit = 4
    Block = 2
    HiddenSizes = {4, 12}
    Values = {x}
    Boot = boot
    Scrambled = scrambled
    MaxWrites = 2
SPECIFICATION Spec
INVARIANTS
    TypeOK
    HeadersUntouched
PROPERTIES
    KeepsTwoVolumes
    CreatedVolumesOpen
