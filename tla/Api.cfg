CONSTANTS
  p1 = p1
  p2 = p2
  c1 = c1
  d1 = d1
  n1 = n1
  Posts = {p1, p2}
  Polls = {}
  Headers = {}
  NoHeader = NoHeader
  Paths = {d1}
  Projects = {n1}
  NoJob = NoJob
  Calls = {c1}
  MaxRounds = 2
  MaxTools = 2
SPECIFICATION ApiSpec
CONSTRAINT InOrder
INVARIANT ApiTypeOK
INVARIANT RepliesTrue
INVARIANT AgentKeepsTurns
INVARIANT KeysResolve
PROPERTY EveryRequestServed
CHECK_DEADLOCK FALSE
