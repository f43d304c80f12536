CONSTANTS
  Workers = {"w1", "w2"}
  Requests = {"r1", "r2", "r3"}
  ReqPolicy <- MCPolicies
  ReqWorker <- MCOneLane
  NewSched <- MCNewSched
  SchedWorker = "w2"
  NoSched = NoSched
  SchedYields = TRUE
SPECIFICATION Spec
INVARIANT TypeOK
INVARIANT OneScheduler
PROPERTY RequestsComplete
\* Every request completes and the last scheduler runs on; nothing else is left to do.
CHECK_DEADLOCK FALSE
