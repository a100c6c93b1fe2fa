SPECIFICATION FatSpec
CONSTANTS
    ClusterMapSize = 5
    TableSize = 4
    Names <- MCOneName
    Exts <- MCTwoExts
    NoExt = ""
    Values = {v}
    MaxSize = 1
    DirectoryMax = 2
    KernelDriver = kernel
    UserDrivers = {}
    Writers = {kernel}
    RoomChecked = TRUE
    FreshDelete = TRUE
    AtomicFormat = TRUE
    EmptyDirsOnly = TRUE
    MaxPowerOff = 1
    v = v
    kernel = kernel
INVARIANTS
    TreeSound
PROPERTIES
    FilesEnterAlone
    ImplementsFileStore
CHECK_DEADLOCK FALSE
