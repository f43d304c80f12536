\* Two workers, Flush tasks routed only to worker 0, two of them in turn.
CONSTANTS
  t1 = t1
  t2 = t2
  f1 = f1
  f2 = f2
  NumWorkers = 2
  Tasks <- MCTasks
  FlushTasks <- MCFlushTasks
  FlushWorkers = {0}
  IterCap = 2
  MaxExceptions = 1

SPECIFICATION Spec

INVARIANT TypeOK
PROPERTY FlushRoundTerminates
PROPERTY FlushTaskCompletes
