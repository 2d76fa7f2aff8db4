SPECIFICATION Spec
CONSTANTS
  c1 = c1
  c2 = c2
  c3 = c3
  w1 = w1
  w2 = w2
  n1 = n1
  n2 = n2
  n3 = n3
  n4 = n4
  a1 = a1
  a2 = a2
  Listener = Listener
  NoNode = NoNode
  NoTask = NoTask
  Conns <- MCConns
  Workers <- MCWorkers
  Nodes <- MCNodes
  Addresses <- MCAddresses
  MaxSends = 1
  Timeout = 1
  MaxTime = 4
  MaxQueueSize = 1
  MaxFds = 2
  Prompt = TRUE
CHECK_DEADLOCK FALSE
SYMMETRY Symmetry
INVARIANTS NoStaleUse OneOwner TimedUnlessHandled FdOwned SkipExact
PROPERTIES TimerProtocol
