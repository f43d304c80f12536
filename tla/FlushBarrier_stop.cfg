\* One Flush task at worker 0 and a stop of the runtime.
CONSTANTS
  t1 = t1
  t2 = t2
  f1 = f1
  f2 = f2
  NumWorkers = 2
  Tasks <- MCTasks
  FlushTasks <- MCFlushTask1
  FlushWorkers = {0}
  IterCap = 2
  MaxExceptions = 1

SPECIFICATION SpecWithStop

PROPERTY WorkersExit
CHECK_DEADLOCK FALSE
