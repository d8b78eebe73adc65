SPECIFICATION Spec
CONSTANTS
    UintRange = 4096
    Cols = 3
    Rows = 2
    KeyCols = 4
    KeyRows = 4
    Arguments <- Quarters
    MaxEvents = 1
INVARIANTS
    TypeOK
    EchoLightsTheKey
    EventsInsideGrid
    NoVeryBigNumbers
