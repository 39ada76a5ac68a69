SPECIFICATION Spec
CONSTANTS
  NULL = NULL
  s1 = s1
  s2 = s2
  s3 = s3
  e1 = e1
  e2 = e2
  Engines = {e1, e2}
  Sessions = {s1, s2}
  MaxRows = 2
  MaxClock = 1
  CasAttempts = 1
  RetainLeaves = TRUE
  HostOps = {"resume", "reset", "offcurrent", "prune", "rotate"}
SYMMETRY Symmetry
PROPERTIES PublicationSkipsNoRow
CHECK_DEADLOCK FALSE
