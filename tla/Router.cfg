SPECIFICATION FairPassSpec
CONSTANTS
  A = A
  B = B
  C = C
  l1 = l1
  l2 = l2
  l3 = l3
  v1 = v1
  v2 = v2
  v3 = v3
  w1 = w1
  w2 = w2
  Invalid = Invalid
  None = None
  Platforms = {A, B, C}
  Connections <- Line
  LaneChoices <- Cuts
  PlatformTypes <- Types
  Bits = 8
  HeaderSize = 7
  LoadDivisor = 128
  UMF <- UMFParameters
  EnableAggressive = TRUE
  UseDefault = FALSE
INVARIANTS
  HeadersAreSound
  LanesAreSound
  ReturnsAgree
  RoutersFit
PROPERTIES
  ImplementsLaneChannels
  AllGoesOn
CHECK_DEADLOCK FALSE
