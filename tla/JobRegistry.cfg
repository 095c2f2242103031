CONSTANTS
  p1 = p1
  p2 = p2
  g1 = g1
  Posts = {p1, p2}
  Polls = {g1}
  Headers = {h1}
  NoHeader = NoHeader
  Paths = {d1}
  Projects = {n1}
  NoJob = NoJob
SPECIFICATION Spec
INVARIANT TypeOK
INVARIANT OneRunPerKey
INVARIANT FinalPollHasEnd
PROPERTY PromiseKept
PROPERTY PollsGoForward
CHECK_DEADLOCK FALSE
