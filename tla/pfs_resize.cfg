\* Two resizes, two files and a trouble, on seven volumes.
CONSTANTS
    Cyl = 4
    BmStart = 3
    Cov = 3
    PerIdx = 2
    Bmb <- MCBmb
    LargeIdx = 4
    SmallIdx = 3
    Sizes = {2, 3, 4, 5, 6}
    Volumes <- AllVolumes
    Absent = Absent
    Bad = Bad
    MaxOps = 2
    MaxTroubles = 1
    MaxAllocs = 2
SPECIFICATION Spec
\* The bound on the resizes stops it.
CHECK_DEADLOCK FALSE
INVARIANTS
    TypeOK
    SoundWhenDone
    MountsEitherWay
    InfoMatchesGate
