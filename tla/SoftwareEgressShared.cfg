SPECIFICATION EndSpec
CONSTANTS
  t1 = t1
  t2 = t2
  NoThread = NoThread
  Thread <- TwoThreads
  Senders <- TwoThreads
  c1 = c1
  c2 = c2
  fc = fc
  Ends = {"sender"}
  FifoSize = 8
  MaxPacket = 3
INVARIANTS
  BlocksWithoutCredit
