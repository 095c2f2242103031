CONSTANTS
  r1 = r1
  r2 = r2
  r3 = r3
  x = x
  y = y
  a = a
  b = b
  t = t
  u = u
  Runs = {r1, r2}
  Roots = {"top", "sub"}
  NoRoot = NoRoot
  Files = {x, y}
  Targets <- Nested
  Titles = {t, u}
  TitleOf <- SameTitles
  Contents = {a, b}
  Faults = {"register", "pgread", "write", "finalize", "kill"}
  Edits = TRUE
  Overlap = "all"
SPECIFICATION Spec
SYMMETRY MCSymmetry
INVARIANT TypeOK
INVARIANT FinishedMeansStored
PROPERTY SkipAfterFullRun
CHECK_DEADLOCK FALSE
