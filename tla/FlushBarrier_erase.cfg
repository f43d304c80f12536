\* Two workers, Flush tasks routed to either: both may raise the flags.
CONSTANTS
  t1 = t1
  t2 = t2
  f1 = f1
  f2 = f2
  NumWorkers = 2
  Tasks <- MCTasks
  FlushTasks <- MCFlushTasks
  FlushWorkers = {0, 1}
  IterCap = 2
  MaxExceptions = 0

SPECIFICATION Spec

INVARIANT RaiseServed
