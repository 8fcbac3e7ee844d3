SPECIFICATION Spec
CONSTANTS
    Names = {"DH0", "DH1"}
    TopCyl = 3
    NoTable = NoTable
    NoMbr = NoMbr
    Slots <- MCSlots
    MaxParts = 2
    MaxDrivers = 1
    Starts <- MCStarts
    Images <- MCImages
    Backups <- MCBackups
    MaxEvents = 3
CHECK_DEADLOCK FALSE
PROPERTY UndoUntouched
