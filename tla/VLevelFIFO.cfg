SPECIFICATION KindSpec
CONSTANTS
  NoFifo = 2
  Size = 2
  Data = {d1, d2}
  None = None
  Kinds = {"rings", "lists"}
INVARIANTS
  SlotConservation
  PointersAgree
PROPERTIES
  ImplementsMultiQueue
  ListsKeepOrder
