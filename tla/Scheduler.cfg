SPECIFICATION MCSpec
CONSTANTS
  e1 = e1
  e2 = e2
  s1 = s1
  s2 = s2
  Entities = {e1, e2}
  JobIds = {j1, j2, j3}
  Nobody = Nobody
  Schedules = {s1, s2}
  MaxPoints = 2
  MaxFailures = 1
INVARIANTS
  LaunchBound
PROPERTIES
  DueHandled
