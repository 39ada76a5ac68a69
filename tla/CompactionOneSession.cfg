SPECIFICATION Spec
CONSTANTS
  NULL = NULL
  s1 = s1
  s2 = s2
  s3 = s3
  e1 = e1
  e2 = e2
  Engines = {e1, e2}
  Sessions = {s1}
  MaxRows = 2
  MaxClock = 3
  CasAttempts = 2
  RetainLeaves = FALSE
  HostOps = {"resume", "boundary", "reset"}
SYMMETRY Symmetry
INVARIANTS TypeOK FrontierClaimed NoDoubleClaim
PROPERTIES FrontierMonotone
CHECK_DEADLOCK FALSE
