SPECIFICATION Spec
CONSTANTS
  r1 = r1
  r2 = r2
  n1 = n1
  n2 = n2
  n3 = n3
  NoNode = NoNode
  Requests <- MCRequests
  Nodes <- MCNodes
  Timeouts <- MCTimeouts
  MaxTime = 4
INVARIANTS OwnTimer LiveReachable
PROPERTIES Implements SweepEnds
CHECK_DEADLOCK FALSE
