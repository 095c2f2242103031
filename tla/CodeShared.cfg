CONSTANTS
  c1 = c1
  c2 = c2
  c3 = c3
  Requests = {c1,c2}
  Concurrent = TRUE
SPECIFICATION Spec
INVARIANT OwnLanguage
CHECK_DEADLOCK FALSE
