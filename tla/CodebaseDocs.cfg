SPECIFICATION Spec
CONSTANTS
  NSections = 1
  Families = {1}
  Slugs = {a}
  Main = Main
  Revs = {r1, r2}
  None = None
  Unsourced = {a}
  Shared = TRUE
  MaxVersions = 3
  Kept = 1
INVARIANTS
  OneCommit
  ResumeKeeps
PROPERTIES
  FamilyCurrent
SYMMETRY RevsSymmetry
