CONSTANTS
    Size = 20
    Group = 4
    Unit = 4
    Block = 2
    HiddenSizes = {8}
    Values = {x}
    Boot = boot
    Scrambled = scrambled
    MaxWrites = 0
SPECIFICATION Spec
PROPERTY CreatedVolumesOpen
