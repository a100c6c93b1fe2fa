SPECIFICATION FatSpec
CONSTANTS
    ClusterMapSize = 6
    TableSize = 4
    Names <- MCNames
    Exts <- MCOneExt
    NoExt = ""
    Values = {v}
    MaxSize = 2
    DirectoryMax = 0
    KernelDriver = kernel
    UserDrivers = {}
    Writers = {kernel}
    RoomChecked = TRUE
    FreshDelete = TRUE
    AtomicFormat = FALSE
    EmptyDirsOnly = TRUE
    MaxPowerOff = 1
    v = v
    kernel = kernel
INVARIANTS
    SignedMeansFormatted
CHECK_DEADLOCK FALSE
