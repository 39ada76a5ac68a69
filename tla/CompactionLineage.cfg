SPECIFICATION Spec
CONSTANTS
  NULL = NULL
  s1 = s1
  s2 = s2
  s3 = s3
  e1 = e1
  e2 = e2
  Engines = {e1}
  Sessions = {s1, s2, s3}
  MaxRows = 4
  MaxClock = 4
  CasAttempts = 1
  RetainLeaves = TRUE
  HostOps = {"boundary", "reset"}
SYMMETRY Symmetry
INVARIANTS FrontierClaimed
PROPERTIES BoundaryKeepsRows
CHECK_DEADLOCK FALSE
