SPECIFICATION Spec
CONSTANTS
    UintRange = 4096
    Section = 2
    Grids <- AllGrids
    BigEndian = FALSE
    MaxLevel = 3
    Offsets <- FirstAndSecond
    Rotated <- Quarters
    Bitmaps <- OneDot
    LevelMaps <- Corner
    ByteRows <- TwoBytes
    LevelRows <- Groups
    Intensities <- Dims
    TurnedMaps = FALSE
    MaxCalls = 2
    Served <- Wide
    Keys <- OneKey
    Requests <- Traffic
    MaxInputs = 2
    MaxRequests = 1
    MaxFailedPolls = 1
INVARIANT TypeOK PressesAreForwarded EndsWhenUnplugged
PROPERTY  OnlyAllHidesItsFailure RequestsDrawTheirArguments 
CHECK_DEADLOCK FALSE
