\* A partition with blocks of 1024 bytes next to a plain one.
CONSTANTS
    dh0 = dh0
    dh1 = dh1
    Nobody = Nobody
    Parts <- MCParts
    Spc <- MCSpc
    LoCyl = 1
    HiCyl = 7
    LastSector = 31
    Scale <- WideScale
    Sfs = {}
    Totals <- NoTotals
    Chunk = 3
    InitTable <- WideTable
    MaxMoves = 1
    MaxTroubles = 0
SPECIFICATION Spec
PROPERTY OthersUntouched
