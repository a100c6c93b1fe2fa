SPECIFICATION FatSpec
CONSTANTS
    ClusterMapSize = 6
    TableSize = 4
    Names <- MCNames
    Exts <- MCOneExt
    NoExt = ""
    Values = {v}
    MaxSize = 2
    DirectoryMax = 0
    KernelDriver = kernel
    UserDrivers = {shell}
    Writers = {shell}
    RoomChecked = TRUE
    FreshDelete = FALSE
    AtomicFormat = TRUE
    EmptyDirsOnly = TRUE
    MaxPowerOff = 1
    v = v
    kernel = kernel
    shell = shell
INVARIANTS
    ChainsSound
CHECK_DEADLOCK FALSE
