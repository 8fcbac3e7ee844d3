\* Two resizes and a trouble, on four volumes.
CONSTANTS
    LastBlock = 35
    Cyl = 8
    Phys = 2
    Bib = 8
    MaxMod = 2
    SeqNums = 8
    RootObj = 1
    Sizes = {2, 3, 4, 5, 6, 8}
    Volumes <- MCVolumes
    MaxOps = 2
    MaxTroubles = 1
    MaxAllocs = 1
SPECIFICATION Spec
\* The bound on the resizes stops it.
CHECK_DEADLOCK FALSE
INVARIANTS
    TypeOK
    SoundWhenDone
    BeginsRegular
    OldVolumeKept
    InfoMatchesGate
