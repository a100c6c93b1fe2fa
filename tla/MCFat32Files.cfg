SPECIFICATION FatSpec
CONSTANTS
    ClusterMapSize = 7
    TableSize = 4
    Names <- MCNames
    Exts <- MCOneExt
    NoExt = ""
    Values = {v}
    MaxSize = 2
    DirectoryMax = 0
    KernelDriver = kernel
    UserDrivers = {shell}
    Writers = {shell}
    RoomChecked = TRUE
    FreshDelete = TRUE
    AtomicFormat = TRUE
    EmptyDirsOnly = TRUE
    MaxPowerOff = 1
    v = v
    kernel = kernel
    shell = shell
INVARIANTS
    ChainsSound
    CacheCurrent
    ReadFindsFile
    NothingLeaks
PROPERTIES
    ImplementsFileStore
CHECK_DEADLOCK FALSE
