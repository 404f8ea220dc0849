SPECIFICATION MCSpec
CONSTANTS
  Tables = {t1, t2}
  Definitions = {d1, d2}
  None = None
  Keyless = FALSE
  MaxVersions = 3
  MaxChanges = 1
  MaxVerified = 1
  NSchemas = 3
  Categories = {c1}
  Owners = Owners
  Columns = Columns
  NoAnswer = NoAnswer
  MaxRows = 4
  PageRows = 4
  MaxPages = 3
  Fit = 2
  Limit = 1
  Budget = 16
  MaxFaults = 1
INVARIANTS
  VerifiedSound
  DetectSound
  RowIsCurrent
  LossIsTold
  PagesComplete
SYMMETRY CatalogSymmetry
CHECK_DEADLOCK FALSE
