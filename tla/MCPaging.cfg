SPECIFICATION PagingSpec
CONSTANTS
    FrameCount = 4
    DirectoryCount = 2
    Pages <- MCPages
    ZeroPage = 0
    StackPage = 767
    KernelPage = 768
INVARIANTS
    PagingTypeOK
    FreeCountExact
    FramesPrivate
