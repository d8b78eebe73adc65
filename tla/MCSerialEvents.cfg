SPECIFICATION Spec
CONSTANTS
    Protos <- Both
    Keys <- OneKey
    Levels <- TwoLevels
    Noise <- AuxInput
    Size <- EightByEight
    MaxMessages = 3
    MaxEvents = 4
INVARIANT TypeOK
PROPERTIES SerialImplementsSession NextEventReturns
