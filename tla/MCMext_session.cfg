SPECIFICATION Spec
CONSTANTS
  IdLength = 1
  Timeout = 3
  RetryAt = 2
  Slice = 2
  ReadTimeout = 1
  Fragmenting = FALSE
  Cols = 4
  Rows = 2
  Input <- PressAndTilt
  Chatter <- SystemMsg
  MaxUnasked = 2
  MaxWire = 1
  MaxClock = 3
INVARIANTS
  TypeOK
  IdentityIsTheDevices
  NegativeMeansDeviceError
  HealthyDeviceIsRead
  GivesUpOnlyAfterRetry
PROPERTIES
  MextImplementsSession
  
