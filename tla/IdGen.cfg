CONSTANTS
  g1 = g1
  g2 = g2
  c1 = c1
  c2 = c2
  Gens = {g1, g2}
  RawWorker <- MCRawWorker
  Callers = {c1, c2}
  EpochMs = 1
  SeqMax = 1
  WorkerMax = 1
  TimeSpan = 4
  StartMs = {0, 2}
  MaxMs = 4
  MaxIssued = 5
SPECIFICATION FairSpec
INVARIANT TypeOK
INVARIANT UniqueIds
INVARIANT AgeOrder
INVARIANT WorkersDisjoint
PROPERTY EveryCallReturns
CHECK_DEADLOCK FALSE
