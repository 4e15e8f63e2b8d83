SPECIFICATION Spec
CONSTANTS
  A = A
  B = B
  None = None
  Side <- MCSide
  NumData <- OneWay
  FifoSize = 8
  MaxChunks = 1
  SingleCycleArb = TRUE
  LinkDepth = 1
INVARIANTS
  BuffersAreSound
  StreamsAreFramed
  FlowControlIsBounded
PROPERTIES
  ImplementsCreditProtocol
