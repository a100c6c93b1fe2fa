SPECIFICATION Spec
CONSTANTS
    ClusterMapSize = 9
    TableSize = 5
    Names <- MCNames
    Exts <- MCTwoExts
    NoExt = ""
    Values <- MCNames
    MaxSize = 2
    DirectoryMax = 6
    KernelDriver = kernel
    UserDrivers = {shell}
    Writers = {shell}
    RoomChecked = TRUE
    FreshDelete = TRUE
    AtomicFormat = TRUE
    EmptyDirsOnly = TRUE
    MaxPowerOff = 1
    ShellDriver = shell
    Paths <- MCPaths
    CopySize = 1
    CarefulUser = FALSE
    Images <- MCImages
    MaxCommands = 2
    kernel = kernel
    shell = shell
PROPERTIES
    OnlyRmLosesData
CHECK_DEADLOCK FALSE
