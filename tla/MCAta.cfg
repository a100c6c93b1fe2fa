SPECIFICATION AtaSpec
CONSTANTS
    Programs = {kernel, shell}
    BlockCount = 5
    Base = 2
    HALF_BLOCK_SIZE = 2
    MaxCount = 2
    MaxCalls = 3
    OneAtATime = TRUE
    kernel = kernel
    shell = shell
INVARIANTS
    MediumHoldsWrites
PROPERTIES
    ReadsLastWrite
    CallsReturn
CHECK_DEADLOCK FALSE
