SPECIFICATION MCSpec
CONSTANTS
  s1 = s1
  s2 = s2
  a = a
  b = b
  c = c
  d = d
  p = p
  q = q
  r = r
  read = read
  x = x
  y = y
  None = None
  Over = Over
  Servers = {s1, s2}
  Confs = {1, 2}
  Names = {read, x, y}
  Builtin = {read}
  Http <- MCHttp
  Offer <- MCOffer
  Refused <- MCRefused
  Allows <- MCAllows
  FirstBindings <- MCBindings
  Requests = {a, b, c, d, p, q, r}
  Checks = {1}
  MaxChanges = 2
  Ways <- MCWays
  MaxRounds = 2
  StepLimit <- MCLimit
  Sizes = {1, 2}
CHECK_DEADLOCK FALSE
INVARIANTS ToolsAsBound StatusJudged ResearchBounded
PROPERTIES AnswersEnd
