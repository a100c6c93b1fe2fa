SPECIFICATION FatSpec
CONSTANTS
    ClusterMapSize = 5
    TableSize = 4
    Names <- MCNames
    Exts <- MCTwoExts
    NoExt = ""
    Values = {v}
    MaxSize = 1
    DirectoryMax = 1
    KernelDriver = kernel
    UserDrivers = {}
    Writers = {kernel}
    RoomChecked = TRUE
    FreshDelete = TRUE
    AtomicFormat = TRUE
    EmptyDirsOnly = TRUE
    MaxPowerOff = 1
    v = v
    kernel = kernel
INVARIANTS
    ReadFindsFile
PROPERTIES
    FilesEnterAlone
CHECK_DEADLOCK FALSE
