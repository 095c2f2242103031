CONSTANTS
  r1 = r1
  r2 = r2
  r3 = r3
  x = x
  y = y
  a = a
  b = b
  t = t
  u = u
  Runs = {r1, r2}
  Roots = {"top", "sub"}
  NoRoot = NoRoot
  Files = {x, y}
  Targets <- WholeDirs
  Titles = {t, u}
  TitleOf <- OwnTitles
  Contents = {a, b}
  Faults = {}
  Edits = TRUE
  Overlap = "none"
SPECIFICATION Spec
SYMMETRY MCSymmetry
PROPERTY SkipMeansStored
CHECK_DEADLOCK FALSE
