SPECIFICATION Spec
CONSTANTS
  Tables = {t1, t2}
  Definitions = {d1, d2}
  None = None
  Keyless = TRUE
  MaxVersions = 2
  MaxChanges = 1
  MaxVerified = 0
PROPERTIES
  IncrementalCatchesUp
CHECK_DEADLOCK FALSE
