\* Every history of two edits and one trouble on five disks.
CONSTANTS
    LastLba = 8
    ScanLimit = 2
    MaxParts = 2
    MaxFs = 2
    MaxLseg = 3
    SeenMax = 2
    LoCyl = 1
    HiCyl = 4
    CylBlocks = 8
    small = small
    big = big
    Drivers <- MCDrivers
    CodeLen <- MCCodeLen
    PartChoices <- MCPartChoices
    FreshLo <- MCFreshLo
    InitDisks <- MCInitDisks
    MaxEdits = 2
    MaxTroubles = 1
SPECIFICATION Spec
INVARIANTS
    TypeOK
    BadbSpared
PROPERTIES
    LoadMatches
    NoSilentLoss
    PartitionDataUntouched
    HeaderLast
    ReadEnds
