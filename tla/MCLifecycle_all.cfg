SPECIFICATION Spec
CONSTANTS
    d1 = d1
    d2 = d2
    Devices <- TwoDevices
    Protos <- AllProtos
    SocketMissing = FALSE
SYMMETRY Symmetric
INVARIANTS
    CleanedUpOnce
    NothingLeaks
    OpenedIsComplete
