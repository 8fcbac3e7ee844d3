SPECIFICATION Spec
CONSTANTS
    Names = {"DH0", "DH1"}
    TopCyl = 3
    NoTable = NoTable
    NoMbr = NoMbr
    Slots <- MCSlots
    MaxParts = 2
    MaxDrivers = 1
    Starts <- MCStarts
    Images <- MCImages
    Backups <- MCBackups
    MaxEvents = 4
INVARIANTS TypeOK Accepted
PROPERTIES StoreSpec FormatsAsked
CHECK_DEADLOCK FALSE
