SPECIFICATION Spec
CONSTANTS
  A = A
  B = B
  C = C
  D = D
  Elsewhere = Elsewhere
  C1 = C1
  C2 = C2
  C3 = C3
  Chunk = Chunk
  Whole = Whole
  Wide = Wide
  Pair = Pair
  Single = Single
  PA = PA
  PB = PB
  X = X
  Y = Y
  S = S
  None = None
INVARIANTS
  EnvironmentIsSound
  TablesRoute
  RoutesAreWhole
  PlacementIsLegal
  TrafficIsWeighed
PROPERTIES
  NetworkIsRouted
CHECK_DEADLOCK FALSE
