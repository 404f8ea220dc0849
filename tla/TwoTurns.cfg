SPECIFICATION Spec
CONSTANTS
  Sessions = {s1}
  Clients = {c1}
  Probes = {p1}
  Nobody = Nobody
  MaxTurns = 3
  MaxEvents = 0
  MaxFailures = 0
CHECK_DEADLOCK FALSE
INVARIANT OneTurnPerSession
