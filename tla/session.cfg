SPECIFICATION Spec
CONSTANTS
    Names = {"DH0", "DH1"}
    Aliases = {"DPF0"}
    Live = {"DH0"}
    TopCyl = 3
    NoTable = NoTable
    NoMbr = NoMbr
    Slots <- MCSlots
    MaxParts = 3
    MaxDrivers = 1
    Starts <- MCStarts
    Images <- MCImages
    MaxCommands = 4
INVARIANTS TypeOK Bystanders Apart
PROPERTY StoreSpec
CHECK_DEADLOCK FALSE
