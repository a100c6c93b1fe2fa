SPECIFICATION FatSpec
CONSTANTS
    ClusterMapSize = 6
    TableSize = 4
    Names <- MCNames
    Exts <- MCTwoExts
    NoExt = ""
    Values = {v}
    MaxSize = 2
    DirectoryMax = 2
    KernelDriver = kernel
    UserDrivers = {}
    Writers = {kernel}
    RoomChecked = TRUE
    FreshDelete = TRUE
    AtomicFormat = TRUE
    EmptyDirsOnly = TRUE
    MaxPowerOff = 1
    v = v
    kernel = kernel
INVARIANTS
    FoldersUnique
CHECK_DEADLOCK FALSE
