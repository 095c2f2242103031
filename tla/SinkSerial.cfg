CONSTANTS
  w1 = w1
  w2 = w2
  w3 = w3
  w4 = w4
  md = md
  code = code
  m1 = m1
  m2 = m2
  Writes = {w1, w2, w3, w4}
  Titles = {t1, t2}
  Contents = {md, code}
  ChunksOf <- MCChunksOf
  Mids = {w1, w2, w3, w4}
  MidOf <- MCOwnId
  Faults = {"embed", "qdrant"}
  Concurrent = FALSE
  NoRow = NoRow
SPECIFICATION Spec
SYMMETRY MCSymmetry
INVARIANT TypeOK
INVARIANT OkMeansStored
INVARIANT NoDuplicates
PROPERTY PromiseKept
CHECK_DEADLOCK FALSE
