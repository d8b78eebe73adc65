SPECIFICATION Spec
CONSTANTS
    UintRange = 4096
    Section = 2
    Grids <- AllGrids
    BigEndian = FALSE
    MaxLevel = 3
    Offsets <- FirstAndSecond
    Rotated <- Quarters
    Bitmaps <- OneDot
    LevelMaps <- Corner
    ByteRows <- TwoBytes
    LevelRows <- Groups
    Intensities <- Dims
    TurnedMaps = TRUE
    MaxCalls = 1
    Served = {}
    Keys <- OneKey
    Requests <- Traffic
    MaxInputs = 0
    MaxRequests = 0
    MaxFailedPolls = 0
PROPERTY LevelMapIsTheMap
CHECK_DEADLOCK FALSE
