SPECIFICATION ClockSpec
CONSTANTS
    Starts <- MCStarts
    MaxUpdates = 3
    UpdatesPerCall = 3
    Binaries <- MCBoth
    Hours24 <- MCBoth
INVARIANTS
    FaceShowsEveryField
