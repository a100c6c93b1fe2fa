SPECIFICATION FatSpec
CONSTANTS
    ClusterMapSize = 5
    TableSize = 4
    Names <- MCNames
    Exts <- MCOneExt
    NoExt = ""
    Values = {v}
    MaxSize = 3
    DirectoryMax = 0
    KernelDriver = kernel
    UserDrivers = {}
    Writers = {kernel}
    RoomChecked = FALSE
    FreshDelete = TRUE
    AtomicFormat = TRUE
    EmptyDirsOnly = TRUE
    MaxPowerOff = 1
    v = v
    kernel = kernel
INVARIANTS
    ChainsSound
CHECK_DEADLOCK FALSE
