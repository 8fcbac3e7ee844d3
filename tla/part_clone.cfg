\* Two copies and a trouble.
CONSTANTS
    Disks <- MCDisks
    Size <- MCSize
    Start <- MCStart
    Files <- MCFiles
    Volumes <- MCVolumes
    MaxName = 1
    Chunk = 3
    MaxParts = 3
    MaxFs = 1
    NoFile = NoFile
    MaxOps = 2
    MaxTroubles = 1
SPECIFICATION Spec
\* The bound on the copies stops it.
CHECK_DEADLOCK FALSE
INVARIANTS
    Faithful
    Contained
