\* Two workers, one Flush task routed to worker 0, two ordinary tasks.
CONSTANTS
  t1 = t1
  t2 = t2
  f1 = f1
  f2 = f2
  NumWorkers = 2
  Tasks <- MCTasks
  FlushTasks <- MCFlushTask1
  FlushWorkers = {0}
  IterCap = 2
  MaxExceptions = 1


SPECIFICATION Spec

INVARIANT FlushDrains
