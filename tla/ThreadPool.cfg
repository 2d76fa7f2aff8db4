SPECIFICATION Spec
CONSTANTS
  w1 = w1
  w2 = w2
  p1 = p1
  p2 = p2
  t1 = t1
  t2 = t2
  t3 = t3
  t4 = t4
  Main = Main
  NoThread = NoThread
  NoTask = NoTask
  Tasks <- MCTasks
  Workers <- MCWorkers
  Producers <- MCProducers
  MaxQueueSize = 1
  Spurious = TRUE
  CreateMayFail = TRUE
CHECK_DEADLOCK FALSE
INVARIANTS RunAsserts WorkerAwake NoSleeper ProducerAwake OnePlace
PROPERTIES Implements TaskRuns ProducerProceeds StopReturns
