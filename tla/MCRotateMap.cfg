SPECIFICATION MapSpec
CONSTANTS
    UintRange = 4096
    Bitmaps <- SparseMaps
INVARIANTS
    MapTurnsEveryLed
    LevelMapTurnsEveryLed
    RowIsReversed
CHECK_DEADLOCK FALSE
