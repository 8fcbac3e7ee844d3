\* Two resizes and two troubles, on four volumes.
CONSTANTS
    LastBlock = 25
    Reserved = 2
    Bpbm = 4
    RootSlots = 2
    ExtSlots = 2
    MaxExt = 3
    MaxDepth = 3
    Junk = {0, 3}
    MaxSteps = 4
    Sizes = {8, 10, 12, 13, 16, 22, 26}
    Volumes <- MCVolumes
    MaxOps = 2
    MaxTroubles = 2
SPECIFICATION Spec
\* The bound on the resizes stops it.
CHECK_DEADLOCK FALSE
INVARIANTS
    TypeOK
    SoundVolume
    OldGeometryStands
    InfoMatchesGate
PROPERTIES
    DataKept
    RootFirst
