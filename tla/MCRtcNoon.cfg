SPECIFICATION RtcSpec
CONSTANTS
    Starts <- MCStarts
    MaxUpdates = 1
    UpdatesPerCall = 1
    Binaries <- MCBoth
    Hours24 <- MCBoth
INVARIANTS
    HourIn24Hours
CHECK_DEADLOCK FALSE
