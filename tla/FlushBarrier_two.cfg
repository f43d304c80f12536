\* Two workers; Flush tasks can be routed to either of them.
CONSTANTS
  t1 = t1
  t2 = t2
  f1 = f1
  f2 = f2
  NumWorkers = 2
  Tasks <- MCTasks
  FlushTasks <- MCFlushTasks
  FlushWorkers = {0, 1}
  IterCap = 2
  MaxExceptions = 1


SPECIFICATION Spec

PROPERTY FlushRoundTerminates
