SPECIFICATION MCSpec
CONSTANTS
  Nodes = {n1, n2, n3}
  Moves = {m1, m2, m3}
  TopLevel = TopLevel
  Uncreated = Uncreated
  Deleted = Deleted
  MaxTreeEdits = 1
  Codebases = {c1}
  Databases = {d1, d2}
  Pages = {p1, p2}
  Servers = {s1, s2}
  Asks = {a1, a2}
  None = None
  Stripped = Stripped
  Unborn = Unborn
  Gone = Gone
  MaxWrites = 2
  MaxRequests = 4
  MaxClaims = 1
  Resolvers = {r1}
  Saver = saver
  Urls = {u1, u2}
  Public = u0
  NSlots = 2
  Blank = Blank
  Unset = Unset
  Absent = Absent
  MaxSaves = 1
  MaxResolves = 2
  MaxFaults = 1
SYMMETRY Interchangeable
INVARIANT NodesShown PresetPaired
PROPERTY BodiesKept OwnedKept TokenOfItsHost
CHECK_DEADLOCK FALSE
