\* Stable routing: construction, subtask wait and remote round trip.
CONSTANTS
  w1 = w1  w2 = w2  l1 = l1  l2 = l2  l3 = l3
  c = c  p = p  k = k  r = r  n = n  PA = PA  PP = PP
  s1 = s1  s2 = s2  s3 = s3  s4 = s4
  NoTask = NoTask  NoPool = NoPool  NullPool = NullPool  NoStack = NoStack
  Workers <- MCWorkers
  Lanes <- MCLanes
  ProcLanes <- MCProcLanes
  InterLanes <- MCInterLanes
  LateAssign = TRUE
  Pools <- MCPools
  AdminPool = PA
  Stacks <- MCStacks
  InitStacks <- MCInitStacks
  Tasks <- LifeTasks
  TaskPool <- LifePool
  Creates <- LifeCreates
  Child <- LifeChild
  Resolution <- LifeResolution
  HomeLane <- LifeHome
  LongRunning = {}
  LowLatency = {k}
  RouteStable = TRUE
  QueueCap = 2
  RoundCap = 2
  MaxReruns = 1
  MaxThrows = 0

SPECIFICATION Spec

INVARIANT TypeOK
INVARIANT SingleOwner
INVARIANT StackExclusive
INVARIANT EndTaskAtMostOnce
INVARIANT NoTaskLost
PROPERTY EveryTaskEnds
PROPERTY ImplementsLifecycle
