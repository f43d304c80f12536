--------------------------- MODULE MCWorkerSched ----------------------------
(* Model-checking instances of WorkerSched.                                 *)
(* Two workers; worker w1 polls the process lane l1 and the admin lane l3, *)
(* worker w2 the process lane l2.  Pool PA is the admin pool, PP a pool    *)
(* the admin task c constructs.  Task p (pool PP) spawns and waits for its *)
(* low-latency subtask k; task r is resolved by hash, so it goes through   *)
(* the remote queue, and can arrive before PP exists.                      *)
EXTENDS WorkerSched, TLC

CONSTANTS w1, w2, l1, l2, l3, c, p, k, r, n, PA, PP, s1, s2, s3, s4

MCWorkers == {w1, w2}
MCLanes == {l1, l2, l3}
MCProcLanes == (w1 :> {l1} @@ w2 :> {l2})
MCInterLanes == (w1 :> {l3} @@ w2 :> {})
MCPools == {PA, PP}
MCStacks == {s1, s2, s3, s4}
MCInitStacks == (w1 :> {s1} @@ w2 :> {s2})

\* Life cycle: construction, a parent waiting on its subtask, a remote task.
LifeTasks == {c, p, k, r}
LifePool == (c :> PA @@ p :> PP @@ k :> PP @@ r :> PP)
LifeCreates == (c :> PP @@ p :> NoPool @@ k :> NoPool @@ r :> NoPool)
LifeChild == (c :> NoTask @@ p :> k @@ k :> NoTask @@ r :> NoTask)
LifeResolution == (c :> "localId" @@ p :> "localId" @@ k :> "localId"
                   @@ r :> "localHash")
LifeHome == (c :> l3 @@ p :> l2 @@ k :> l1 @@ r :> l1)

\* Adds a task n of the null pool, resolved on another node.
AllTasks == {c, p, k, r, n}
AllPool == LifePool @@ (n :> NullPool)
AllCreates == LifeCreates @@ (n :> NoPool)
AllChild == LifeChild @@ (n :> NoTask)
AllResolution == LifeResolution @@ (n :> "otherNode")
AllHome == LifeHome @@ (n :> l2)

\* The subtask k of p names the null pool and is resolved off-node.
NullChildPool == (k :> NullPool) @@ LifePool
NullChildResolution == (k :> "otherNode") @@ LifeResolution

=============================================================================
