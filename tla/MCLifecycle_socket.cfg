SPECIFICATION Spec
CONSTANTS
    d1 = d1
    d2 = d2
    Devices <- TwoDevices
    Protos <- OnlyOsc
    SocketMissing = TRUE
INVARIANT CleanedUpOnce
