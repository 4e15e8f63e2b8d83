\* A buffer of sixteen slots, packets of one to eight chunks: MaxPacket + 1 is
\* exactly Capacity - Threshold, the largest packet for which a blocked sender is
\* always refilled.
SPECIFICATION FairSpec
CONSTANTS
  Capacity = 16
  MaxPacket = 7
  Threshold = 8
INVARIANTS
  Conservation
  NeverWedged
PROPERTIES
  RefillUnblocks
  AlwaysUnblocked
