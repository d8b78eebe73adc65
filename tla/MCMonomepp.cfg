SPECIFICATION Spec
CONSTANTS
    Wrappers = {v, w}
    Devices = {d, e}
    Types = {down, up}
    Fns = {f}
    None = None
    RegistrationFails = TRUE
    MaxEvents = 2
SYMMETRY Symmetry
INVARIANT TypeOK OneOwner TablesAgree
PROPERTY MonomeppImplementsCallbacks

CHECK_DEADLOCK FALSE
