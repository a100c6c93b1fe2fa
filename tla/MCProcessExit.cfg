SPECIFICATION Spec
CONSTANTS
    FrameCount = 8
    DirectoryCount = 3
    Pages <- MCPages
    ZeroPage = 0
    StackPage = 767
    KernelPage = 768
    ProcessCountMax = 3
    FrameCountMax = 8
    CounterModulus = 65536
    Sizes <- MCSizes
    Entries <- MCPages
    AlwaysReadable = TRUE
    CarefulKills = FALSE
PROPERTIES
    ExitEndsCaller
CHECK_DEADLOCK FALSE
