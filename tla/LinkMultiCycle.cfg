SPECIFICATION BoundedSpec
CONSTANTS
  A = A
  B = B
  None = None
  Side <- MCSide
  NumData <- OneWay
  FifoSize = 4
  MaxChunks = 1
  SingleCycleArb = FALSE
  LinkDepth = 1
PROPERTIES
  SwitchesKeepProtocol
