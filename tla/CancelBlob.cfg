SPECIFICATION Spec
CONSTANTS
  PageIds = {p, q}
  Texts = {a, b}
  Blobs = {x, y}
  Nothing = Nothing
  MaxVersion = 3
  MaxChain = 2
SYMMETRY Symmetry
CHECK_DEADLOCK FALSE
PROPERTY CancelLeavesPreRun
