\* Three operations and two troubles, an SFS and a plain partition.
CONSTANTS
    dh0 = dh0
    dh1 = dh1
    Nobody = Nobody
    Parts <- MCParts
    Spc <- MCSpc
    LoCyl = 1
    HiCyl = 5
    LastSector = 11
    Scale <- PlainScale
    Sfs = {dh0}
    Totals <- MCTotals
    Chunk = 3
    InitTable <- MCInitTable
    MaxMoves = 3
    MaxTroubles = 2
SPECIFICATION Spec
INVARIANTS
    TypeOK
    SavedWhole
PROPERTIES
    MoveFaithful
    OthersUntouched
    RootsFollow
    Ends
