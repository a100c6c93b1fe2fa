SPECIFICATION ClockSpec
CONSTANTS
    Starts <- MCStarts
    MaxUpdates = 5
    UpdatesPerCall = 3
    Binaries <- MCBoth
    Hours24 <- MCBoth
INVARIANTS
    ReadIsInstant
    FaceShowsTime
PROPERTIES
    FaceCatchesUp
