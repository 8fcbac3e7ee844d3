SPECIFICATION Spec
CONSTANTS
    Parts <- MCParts
    Long = 4
    Bits = 8
    Ptrs = 2
    RootPtrs = 3
    Slack = 2
    Admin = 9
    Cluster = 2
    Schijf <- MCSchijf
    FirstLongs = 3
    MoreLongs = 2
    Margin = 4
    SmallDisk = 60
INVARIANTS SoundVolume WholeOrNothing
CHECK_DEADLOCK FALSE
