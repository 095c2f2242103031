CONSTANTS
  r1 = r1
  r2 = r2
  r3 = r3
  x = x
  y = y
  a = a
  b = b
  t = t
  u = u
  Runs = {r1, r2, r3}
  Roots = {"top", "sub"}
  NoRoot = NoRoot
  Files = {x, y}
  Targets <- Nested
  Titles = {t, u}
  TitleOf <- OwnTitles
  Contents = {a, b}
  Faults = {"register", "write", "finalize", "kill"}
  Edits = FALSE
  Overlap = "roots"
SPECIFICATION Spec
SYMMETRY MCSymmetry
PROPERTY SkipMeansStored
INVARIANT QuietMeansSettled
CHECK_DEADLOCK FALSE
