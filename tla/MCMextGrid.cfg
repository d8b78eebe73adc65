SPECIFICATION Spec
CONSTANTS
    UintRange = 4096
    Section = 2
    Cols = 4
    Rows = 2
    MaxLevel = 1
    Offsets <- Corners
    Rotated <- Quarters
    Bitmaps <- OneDot
    LevelMaps <- Corner
    ByteRows <- TwoBytes
    LevelRows <- Groups
    Intensities <- Dims
    MaxPending = 2
    MaxCalls = 2
INVARIANT TypeOK
PROPERTY MextGridImplementsGridFrame
