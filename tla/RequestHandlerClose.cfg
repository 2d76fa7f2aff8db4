SPECIFICATION Spec
CONSTANTS
  p1 = p1
  p2 = p2
  Paths <- MCPaths
  NoPath = NoPath
  MaxRequests = 1
  Clients <- MCPatient
CHECK_DEADLOCK FALSE
INVARIANT CloseHonoured
