SPECIFICATION Spec
CONSTANTS
  c1 = c1
  c2 = c2
  c3 = c3
  Client = {c1, c2, c3}
  NoClient = NoClient
  OpenMax = 7
  ItemsMax = 6
  SelectorSize = 6
  LostMax = 1
SYMMETRY Symmetry
INVARIANTS TypeOK RegisteredIsHeld SetsMatchItems NoStaleReadiness NoLeak RetrievalHasFile
