SPECIFICATION Spec
CONSTANTS
    FrameCount = 11
    DirectoryCount = 4
    Pages <- MCPages
    ZeroPage = 0
    StackPage = 767
    KernelPage = 768
    ProcessCountMax = 3
    FrameCountMax = 8
    CounterModulus = 8
    Sizes <- MCSizes
    Entries <- MCPages
    AlwaysReadable = FALSE
    CarefulKills = FALSE
INVARIANTS
    ProcessTypeOK
    FramesPrivate
PROPERTIES
    RoundRobin
CHECK_DEADLOCK FALSE
