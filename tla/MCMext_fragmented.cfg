SPECIFICATION Spec
CONSTANTS
  IdLength = 1
  Timeout = 3
  RetryAt = 2
  Slice = 2
  ReadTimeout = 1
  Fragmenting = TRUE
  Cols = 4
  Rows = 2
  Input <- TurnOnly
  Chatter <- Quiet
  MaxUnasked = 1
  MaxWire = 1
  MaxClock = 3
INVARIANTS  AskedAtMostTwice  DescriptorOwned PayloadFits
PROPERTIES HandshakeEnds NextEventReturns
