SPECIFICATION Spec
CONSTANTS
  PageIds = {p, q}
  Texts = {a, b}
  Blobs = {x}
  Nothing = Nothing
  MaxVersion = 4
  MaxChain = 2
SYMMETRY Symmetry
CHECK_DEADLOCK FALSE
INVARIANTS
  HistoryFaithful
PROPERTIES
  RestoreExact
