SPECIFICATION AtaSpec
CONSTANTS
    Programs = {kernel, shell}
    BlockCount = 5
    Base = 2
    HALF_BLOCK_SIZE = 2
    MaxCount = 2
    MaxCalls = 3
    OneAtATime = TRUE
    kernel = kernel
    shell = shell
INVARIANTS
    WriteIsCompleted
CHECK_DEADLOCK FALSE
