SPECIFICATION FairSpec
CONSTANTS
  Sessions = {s1}
  MaxTurns = 2
  Clients = {c1}
  Probes = {p1}
  Nobody = Nobody
  MaxEvents = 1
  MaxFailures = 1
CHECK_DEADLOCK FALSE
INVARIANTS
  TranscriptPaired
  SavedBeforeSeen
  ReplayComplete
PROPERTIES
  StreamsEnd
