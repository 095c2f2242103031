CONSTANTS
  w1 = w1
  w2 = w2
  w3 = w3
  w4 = w4
  md = md
  code = code
  m1 = m1
  m2 = m2
  Writes = {w1, w2, w3}
  Titles = {t1}
  Contents = {md, code}
  ChunksOf <- MCChunksOf
  Mids = {m1, m2}
  MidOf <- MCSharedId
  Faults = {"pg", "pgread", "qdrant", "crash"}
  Concurrent = TRUE
  NoRow = NoRow
SPECIFICATION Spec
SYMMETRY MCPair
INVARIANT FullAnswerStored
INVARIANT PointsHaveRows
INVARIANT FullAnswerSearchable
INVARIANT RevisionsBelong
CHECK_DEADLOCK FALSE
