SPECIFICATION MCSpec
CONSTANTS
  c = c
  p = p
  q = q
  r = r
  b1 = b1
  b2 = b2
  cut = cut
  Order <- MCOrder
  Parent <- MCParent
  Plans <- MCPlans
  Drawings <- MCDrawings
  Bodies = {b1, b2}
  Cut = cut
  MaxRepairs = 1
  Slots = 2
  MaxTries = 2
  Chunks = {1, 2}
  Openers = {1, 2}
  Artifacts = {x1, x2}
  Repos = {g, h}
  NoCommit = NoCommit
  Rubble = Rubble
  MaxCommits = 2
  MaxJobs = 3
  MaxCloneFaults = 1
INVARIANTS BrokenTold
PROPERTIES RunEnds RunDescribesTip DetectKeepsCheckout
           UnchangedIsCurrent DetectsEnd
