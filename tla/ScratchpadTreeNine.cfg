SPECIFICATION Spec
CONSTANTS
  S1 = S1
  S2 = S2
  S3 = S3
  S4 = S4
  None = None
  Passes = {"tree"}
  TreeCases <- Nine
INVARIANTS
  EveryClientHasALeaf
CHECK_DEADLOCK FALSE
