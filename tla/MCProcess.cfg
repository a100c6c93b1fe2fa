SPECIFICATION FairSpec
CONSTANTS
    FrameCount = 12
    DirectoryCount = 5
    Pages <- MCPages
    ZeroPage = 0
    StackPage = 767
    KernelPage = 768
    ProcessCountMax = 5
    FrameCountMax = 8
    CounterModulus = 65536
    Sizes <- MCSizes
    Entries <- MCPages
    AlwaysReadable = TRUE
    CarefulKills = TRUE
INVARIANTS
    RunningOwnsCpu
    ContextsOwned
    ProcessTableConsistent
    EveryProcessHasStack
    NoFault
    PoolsBalanced
PROPERTIES
    KilledStaysDead
    RoundRobin
    NoStarvation
