SPECIFICATION TerminalSpec
CONSTANTS
    Height = 3
    Width = 4
    TabWidth = 2
    ClockCols <- MCClockCols
    Keys <- MCKeys
    EditKeys <- MCEditKeys
    Prompt <- MCPrompt
    MaxKeys = 7
    KeepClock = TRUE
INVARIANTS
    TerminalTypeOK
    LineAsTyped
    EchoFaithful
    ClockInCorner
PROPERTIES
    KeysAreRead
