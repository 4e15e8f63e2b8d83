SPECIFICATION FairSpec
CONSTANTS
  A = A
  B = B
  None = None
  Side <- MCSide
  NumData <- OneWay
  FifoSize = 4
  MaxChunks = 1
  SingleCycleArb = TRUE
  LinkDepth = 1
PROPERTIES
  RequestsAreSent
  FlowControlIsSent
