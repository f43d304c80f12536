\* Life cycle under the fault model: one exception escaping the remote branch of ExecTask.
CONSTANTS
  w1 = w1  w2 = w2  l1 = l1  l2 = l2  l3 = l3
  c = c  p = p  k = k  r = r  n = n  PA = PA  PP = PP
  s1 = s1  s2 = s2  s3 = s3  s4 = s4
  NoTask = NoTask  NoPool = NoPool  NullPool = NullPool  NoStack = NoStack
  Workers <- MCWorkers
  Lanes <- MCLanes
  ProcLanes <- MCProcLanes
  InterLanes <- MCInterLanes
  LateAssign = FALSE
  Pools <- MCPools
  AdminPool = PA
  Stacks <- MCStacks
  InitStacks <- MCInitStacks
  Tasks <- LifeTasks
  TaskPool <- LifePool
  Creates <- LifeCreates
  Child <- LifeChild
  Resolution <- LifeResolution
  HomeLane <- LifeHome
  LongRunning = {}
  LowLatency = {k}
  RouteStable = TRUE
  QueueCap = 2
  RoundCap = 2
  MaxReruns = 1
  MaxThrows = 1

SPECIFICATION SpecWithThrows

INVARIANT NoTaskLost
