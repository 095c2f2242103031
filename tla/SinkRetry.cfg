CONSTANTS
  w1 = w1
  w2 = w2
  w3 = w3
  w4 = w4
  md = md
  code = code
  m1 = m1
  m2 = m2
  Writes = {w1, w2}
  Titles = {t1}
  Contents = {md, code}
  ChunksOf <- MCChunksOf
  Mids = {w1, w2}
  MidOf <- MCOwnId
  Faults = {"pg"}
  Concurrent = FALSE
  NoRow = NoRow
SPECIFICATION Spec
INVARIANT OkMeansStored
CHECK_DEADLOCK FALSE
