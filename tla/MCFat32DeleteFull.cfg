SPECIFICATION FatSpec
CONSTANTS
    ClusterMapSize = 6
    TableSize = 4
    Names <- MCNames
    Exts <- MCOneExt
    NoExt = ""
    Values = {v}
    MaxSize = 2
    DirectoryMax = 1
    KernelDriver = kernel
    UserDrivers = {}
    Writers = {kernel}
    RoomChecked = TRUE
    FreshDelete = TRUE
    AtomicFormat = TRUE
    EmptyDirsOnly = FALSE
    MaxPowerOff = 1
    v = v
    kernel = kernel
PROPERTIES
    DeletesEmptyDirectories
CHECK_DEADLOCK FALSE
