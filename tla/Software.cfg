SPECIFICATION FairEndSpec
CONSTANTS
  t1 = t1
  t2 = t2
  NoThread = NoThread
  Thread <- TwoThreads
  Senders <- OneThread
  c1 = c1
  c2 = c2
  fc = fc
  Ends = {"sender", "receiver", "receivers", "pointer sender", "pointer receiver", "server", "client", "pipes"}
  FifoSize = 8
  MaxPacket = 3
INVARIANTS
  NoCreditIsLost
  NoLostWakeup
  SomeoneReturns
  RequestsKeepOrder
  WordsKeepOrder
PROPERTIES
  SoftwareKeepsProtocol
  NobodyWaitsForEver
\* Processes end, a pool is stopped, an assertion of the pointer switch fails.
CHECK_DEADLOCK FALSE
