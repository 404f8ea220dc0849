SPECIFICATION Spec
CONSTANTS
  Artifacts = {a}
  Nodes = {n}
  Pages = {1, 2}
  Tasks = {t1, t2}
  MaxEdits = 3
  MaxFaults = 0
  None = None
CHECK_DEADLOCK FALSE


PROPERTIES
  RebuildKeepsMerges

