SPECIFICATION Spec
CONSTANTS
  S1 = S1
  S2 = S2
  S3 = S3
  S4 = S4
  None = None
  Passes = {"assignment", "network", "tree", "ring"}
  TreeCases <- UpToEight
INVARIANTS
  AssignmentIsBalanced
  ClientsAreWired
  SharesAreKept
  TreesRoute
  RingsAreWhole
PROPERTIES
  RoundTrip
CHECK_DEADLOCK FALSE
