CONSTANTS
  w1 = w1
  w2 = w2
  w3 = w3
  md = md
  code = code
  p1 = p1
  Writes = {w1, w2}
  Titles = {t1}
  Contents = {md, code}
  ChunksOf <- MCChunksOf
  Mids = {w1, w2}
  MidOf <- MCOwnId
  Faults = {"qdrant"}
  Concurrent = TRUE
  NoRow = NoRow
  Projects = {p1}
  ProjectOf <- MCProjectOf
  StoreFaults = {"reset", "keyword", "redis"}
SPECIFICATION StoreSpec
INVARIANT StoreTypeOK
INVARIANT PointsMatchRows
INVARIANT KeywordsResolve
PROPERTY EveryWriteSettled
CHECK_DEADLOCK FALSE
