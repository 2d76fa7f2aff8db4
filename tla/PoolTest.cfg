SPECIFICATION TestSpec
CONSTANTS
  w1 = w1
  w2 = w2
  w3 = w3
  t1 = t1
  t2 = t2
  t3 = t3
  last = last
  Main = Main
  Adder = Adder
  NoThread = NoThread
  NoTask = NoTask
  Tasks <- MCTasks
  Workers <- MCWorkers3
  Producers <- MCProducers
  LatchTask = last
  MaxQueueSize = 2
  Spurious = TRUE
  CreateMayFail = FALSE
CHECK_DEADLOCK FALSE
INVARIANTS AllRun LatchLeft LockAsserts
PROPERTY TestEnds
