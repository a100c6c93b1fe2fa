SPECIFICATION AtaSpec
CONSTANTS
    Programs = {kernel, shell}
    BlockCount = 5
    Base = 2
    HALF_BLOCK_SIZE = 2
    MaxCount = 2
    MaxCalls = 3
    OneAtATime = FALSE
    kernel = kernel
    shell = shell
PROPERTIES
    ReadsLastWrite
CHECK_DEADLOCK FALSE
