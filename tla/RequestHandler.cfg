SPECIFICATION Spec
CONSTANTS
  p1 = p1
  p2 = p2
  Paths <- MCPaths
  NoPath = NoPath
  MaxRequests = 2
  Clients <- MCClients
CHECK_DEADLOCK FALSE
INVARIANTS ParsedRight FirstHeaderGoverns
PROPERTIES Implements Answered
