---------------------------- MODULE FlushBarrier ----------------------------
(***************************************************************************)
(* The flush / quiescence barrier of the worker pool.                      *)
(*                                                                         *)
(* Models Worker::Loop, Worker::BeginFlush, Worker::EndFlush,              *)
(* Worker::AnyFlushing and Worker::AnyFlushWorkDone                        *)
(* (src/include/chimaera/work_orchestrator/worker.h) together with the     *)
(* admin Flush task handler Server::Flush                                  *)
(* (src/tasks/chimaera_admin/src/chimaera_admin.cc).                       *)
(*                                                                         *)
(* Worker::Run is one atomic step: it neither reads nor writes any flush   *)
(* flag, so its interleaving with the other workers' flag accesses is      *)
(* captured by placing it before or after them.  Every ordinary task in a  *)
(* worker's queues is polled once per Run pass; it either completes or     *)
(* yields and waits for the next pass.  Flush tasks sit in the private     *)
(* flush queue, which only EndFlush polls.                                 *)
(***************************************************************************)
EXTENDS Naturals, FiniteSets

CONSTANTS
  NumWorkers,    \* |orch->workers_|; workers are 0..NumWorkers-1 in vector order
  Tasks,         \* ordinary (non-flush) tasks submitted by clients
  FlushTasks,    \* admin Flush tasks
  FlushWorkers,  \* workers whose lanes a Flush task can be routed to
  IterCap,       \* saturation bound of flush_.flush_iter_ (only compared with 0)
  MaxExceptions  \* bound on the exceptions Loop's try/catch absorbs in a run

ASSUME NumWorkers \in Nat \ {0}
ASSUME FlushWorkers \subseteq 0 .. NumWorkers - 1
ASSUME IterCap \in Nat \ {0}
ASSUME MaxExceptions \in Nat

Workers == 0 .. NumWorkers - 1

VARIABLES
  pc,            \* where each worker is in its Loop iteration
  flushingLocal, \* the local `flushing` computed at the top of the iteration
  flushing,      \* flush_.flushing_
  flushIter,     \* flush_.flush_iter_, saturated at IterCap
  workUncounted, \* flush_.count_ /= flush_.work_done_
  idx,           \* loop index of the raise loop in BeginFlush / of AnyFlushing
  pending,       \* ordinary tasks queued at each worker
  done,          \* ordinary tasks that completed
  flushQ,        \* active_.GetFlush(): Flush tasks queued at each worker
  flushDone,     \* Flush tasks that completed
  snap,          \* history: tasks outstanding when each Flush task was submitted
  ranInRound,    \* history: worker did a Run(true) pass since its flag was raised
  exceptions,    \* exceptions caught by Loop so far
  alive          \* orch->IsAlive()

vars == <<pc, flushingLocal, flushing, flushIter, workUncounted, idx,
          pending, done, flushQ, flushDone, snap, ranInRound, exceptions, alive>>

Outstanding == UNION {pending[w] : w \in Workers}

QueuedFlush == UNION {flushQ[w] : w \in Workers}

Init ==
  /\ pc = [w \in Workers |-> "top"]
  /\ flushingLocal = [w \in Workers |-> FALSE]
  /\ flushing = [w \in Workers |-> FALSE]
  /\ flushIter = [w \in Workers |-> 0]
  /\ workUncounted = [w \in Workers |-> FALSE]
  /\ idx = [w \in Workers |-> 0]
  /\ pending = [w \in Workers |-> {}]
  /\ done = {}
  /\ flushQ = [w \in Workers |-> {}]
  /\ flushDone = {}
  /\ snap = [f \in FlushTasks |-> {}]
  /\ ranInRound = [w \in Workers |-> TRUE]
  /\ exceptions = 0
  /\ alive = TRUE

-----------------------------------------------------------------------------
(* Clients: a task lands in the lanes of some worker; a Flush task only in *)
(* the lanes of a worker of FlushWorkers, where push() classifies it into  *)
(* the flush queue.                                                        *)

SubmitTask(t, w) ==
  /\ t \notin done \cup Outstanding
  /\ pending' = [pending EXCEPT ![w] = @ \cup {t}]
  /\ UNCHANGED <<pc, flushingLocal, flushing, flushIter, workUncounted, idx,
                 done, flushQ, flushDone, snap, ranInRound, exceptions, alive>>

SubmitFlush(f, w) ==
  /\ w \in FlushWorkers
  /\ f \notin flushDone \cup QueuedFlush
  /\ flushQ' = [flushQ EXCEPT ![w] = @ \cup {f}]
  /\ snap' = [snap EXCEPT ![f] = Outstanding]
  /\ UNCHANGED <<pc, flushingLocal, flushing, flushIter, workUncounted, idx,
                 pending, done, flushDone, ranInRound, exceptions, alive>>

-----------------------------------------------------------------------------
(* Worker::Loop: bool flushing = flush_.flushing_ || active_.GetFlush().size_ *)
LoopTop(w) ==
  /\ pc[w] = "top"
  /\ alive
  /\ LET f == flushing[w] \/ flushQ[w] # {} IN
       /\ flushingLocal' = [flushingLocal EXCEPT ![w] = f]
       /\ pc' = [pc EXCEPT ![w] = IF f THEN "begin" ELSE "run"]
  /\ UNCHANGED <<flushing, flushIter, workUncounted, idx, pending, done,
                 flushQ, flushDone, snap, ranInRound, exceptions, alive>>

(* ++flush_.flush_iter_, saturated: the counter is only compared with 0.  *)
IncIter(n) == IF n < IterCap THEN n + 1 ELSE n

(* Worker::BeginFlush: only a worker whose flush_iter_ is 0 and that holds *)
(* flush work raises the flags of every worker, one by one.                *)
BeginFlush(w) ==
  /\ pc[w] = "begin"
  /\ \/ /\ flushIter[w] = 0 /\ flushQ[w] # {}
        /\ pc' = [pc EXCEPT ![w] = "raise"]
        /\ idx' = [idx EXCEPT ![w] = 0]
        /\ UNCHANGED flushIter
     \/ /\ ~(flushIter[w] = 0 /\ flushQ[w] # {})
        /\ flushIter' = [flushIter EXCEPT ![w] = IncIter(@)]
        /\ pc' = [pc EXCEPT ![w] = "run"]
        /\ UNCHANGED idx
  /\ UNCHANGED <<flushingLocal, flushing, workUncounted, pending, done,
                 flushQ, flushDone, snap, ranInRound, exceptions, alive>>

(* Mutant: the raise loop runs one index past the last worker.           *)
RaiseFlagPastEnd(w) ==
  /\ pc[w] = "raise"
  /\ idx[w] <= NumWorkers
  /\ flushing' = [flushing EXCEPT ![idx[w]] = TRUE]
  /\ ranInRound' = [ranInRound EXCEPT ![idx[w]] = FALSE]
  /\ idx' = [idx EXCEPT ![w] = @ + 1]
  /\ UNCHANGED <<pc, flushingLocal, flushIter, workUncounted, pending, done,
                 flushQ, flushDone, snap, exceptions, alive>>

(* One iteration of: for (worker : orch->workers_) worker->flush_.flushing_ = true *)
RaiseFlag(w) ==
  /\ pc[w] = "raise"
  /\ idx[w] < NumWorkers
  /\ flushing' = [flushing EXCEPT ![idx[w]] = TRUE]
  /\ ranInRound' = [ranInRound EXCEPT ![idx[w]] = FALSE]
  /\ idx' = [idx EXCEPT ![w] = @ + 1]
  /\ UNCHANGED <<pc, flushingLocal, flushIter, workUncounted, pending, done,
                 flushQ, flushDone, snap, exceptions, alive>>

(* End of the raise loop: ++flush_.flush_iter_ *)
RaiseDone(w) ==
  /\ pc[w] = "raise"
  /\ idx[w] = NumWorkers
  /\ flushIter' = [flushIter EXCEPT ![w] = IncIter(@)]
  /\ pc' = [pc EXCEPT ![w] = "run"]
  /\ UNCHANGED <<flushingLocal, flushing, workUncounted, idx, pending, done,
                 flushQ, flushDone, snap, ranInRound, exceptions, alive>>

(* Worker::Run(flushing): every queued ordinary task runs once (ExecTask   *)
(* bumps flush_.count_ for it when flushing); `fin` are those that set     *)
(* module-complete, the rest are pushed back.  Then EndFlush, if flushing. *)
RunPass(w) ==
  /\ pc[w] = "run"
  /\ \E fin \in SUBSET pending[w] :
       /\ pending' = [pending EXCEPT ![w] = @ \ fin]
       /\ done' = done \cup fin
  /\ workUncounted' =
       [workUncounted EXCEPT ![w] = @ \/ (flushingLocal[w] /\ pending[w] # {})]
  /\ ranInRound' = [ranInRound EXCEPT ![w] = @ \/ flushingLocal[w]]
  /\ pc' = [pc EXCEPT ![w] = IF flushingLocal[w] THEN "clear" ELSE "top"]
  /\ UNCHANGED <<flushingLocal, flushing, flushIter, idx, flushQ, flushDone, snap, exceptions, alive>>

(* An exception escapes Worker::Run and is caught by Loop's try/catch:   *)
(* the tasks polled before it keep their outcome, the iteration ends      *)
(* there and EndFlush is skipped, the worker's flag staying as it was.    *)
RunPassThrows(w) ==
  /\ pc[w] = "run"
  /\ exceptions < MaxExceptions
  /\ \E fin \in SUBSET pending[w] :
       /\ pending' = [pending EXCEPT ![w] = @ \ fin]
       /\ done' = done \cup fin
  /\ workUncounted' =
       [workUncounted EXCEPT ![w] = @ \/ (flushingLocal[w] /\ pending[w] # {})]
  /\ exceptions' = exceptions + 1
  /\ pc' = [pc EXCEPT ![w] = "top"]
  /\ UNCHANGED <<flushingLocal, flushing, flushIter, idx, flushQ, flushDone,
                 snap, ranInRound, alive>>

(* Mutant: EndFlush forgets to lower the worker's own flag.               *)
EndFlushKeepFlag(w) ==
  /\ pc[w] = "clear"
  /\ idx' = [idx EXCEPT ![w] = 0]
  /\ pc' = [pc EXCEPT ![w] = "scan"]
  /\ UNCHANGED <<flushingLocal, flushing, flushIter, workUncounted, pending, done,
                 flushQ, flushDone, snap, ranInRound, exceptions, alive>>

(* Worker::EndFlush: flush_.flushing_ = false, then spin on AnyFlushing.  *)
EndFlushClear(w) ==
  /\ pc[w] = "clear"
  /\ flushing' = [flushing EXCEPT ![w] = FALSE]
  /\ idx' = [idx EXCEPT ![w] = 0]
  /\ pc' = [pc EXCEPT ![w] = "scan"]
  /\ UNCHANGED <<flushingLocal, flushIter, workUncounted, pending, done,
                 flushQ, flushDone, snap, ranInRound, exceptions, alive>>

(* One read of Worker::AnyFlushing: a raised flag makes it return true and *)
(* the while loop yields and calls it again from the first worker; past    *)
(* the last worker it returns false and the barrier is passed.            *)
AnyFlushing(w) ==
  /\ pc[w] = "scan"
  /\ \/ /\ flushing[idx[w]]
        /\ idx' = [idx EXCEPT ![w] = 0]
        /\ UNCHANGED pc
     \/ /\ ~flushing[idx[w]]
        /\ idx[w] < NumWorkers - 1
        /\ idx' = [idx EXCEPT ![w] = @ + 1]
        /\ UNCHANGED pc
     \/ /\ ~flushing[idx[w]]
        /\ idx[w] = NumWorkers - 1
        /\ pc' = [pc EXCEPT ![w] = "post"]
        /\ UNCHANGED idx
  /\ UNCHANGED <<flushingLocal, flushing, flushIter, workUncounted, pending,
                 done, flushQ, flushDone, snap, ranInRound, exceptions, alive>>

(* Worker::AnyFlushWorkDone: it copies every count_ into work_done_ but    *)
(* never assigns its result `ret`, which stays false.                      *)
AnyFlushWorkDone == FALSE

(* Mutant: the Flush handler tests the flag the wrong way round.          *)
FlushCompletesWhileFlushing(w) == flushing[w]

(* Server::Flush: if (!rctx.flush_->flushing_) task->SetModuleComplete()   *)
FlushCompletes(w) == ~flushing[w]

(* EndFlush after the barrier: with flush work queued, either reset        *)
(* flush_iter_ (work was done) or poll the flush queue once.              *)
EndFlushPost(w) ==
  /\ pc[w] = "post"
  /\ pc' = [pc EXCEPT ![w] = "top"]
  /\ \/ /\ flushQ[w] = {}
        /\ UNCHANGED <<workUncounted, flushIter, flushQ, flushDone>>
     \/ /\ flushQ[w] # {}
        /\ workUncounted' = [x \in Workers |-> FALSE]
        /\ LET fin == IF ~AnyFlushWorkDone /\ FlushCompletes(w)
                      THEN flushQ[w] ELSE {}
           IN /\ flushQ' = [flushQ EXCEPT ![w] = @ \ fin]
              /\ flushDone' = flushDone \cup fin
        /\ flushIter' = IF AnyFlushWorkDone
                        THEN [flushIter EXCEPT ![w] = 0] ELSE flushIter
  /\ UNCHANGED <<flushingLocal, flushing, idx, pending, done, snap, ranInRound, exceptions, alive>>

(* Admin StopRuntime: FinalizeRuntime makes orch->IsAlive() false.        *)
StopRuntime ==
  /\ alive
  /\ alive' = FALSE
  /\ UNCHANGED <<pc, flushingLocal, flushing, flushIter, workUncounted, idx,
                 pending, done, flushQ, flushDone, snap, ranInRound, exceptions>>

(* Worker::Loop finds IsAlive() false at the top of an iteration: one     *)
(* final Run(true) pass, without BeginFlush or EndFlush, and the thread   *)
(* returns.  Its flush_.flushing_ flag stays as it is.                     *)
WorkerExit(w) ==
  /\ pc[w] = "top"
  /\ ~alive
  /\ \E fin \in SUBSET pending[w] :
       /\ pending' = [pending EXCEPT ![w] = @ \ fin]
       /\ done' = done \cup fin
  /\ workUncounted' = [workUncounted EXCEPT ![w] = @ \/ pending[w] # {}]
  /\ ranInRound' = [ranInRound EXCEPT ![w] = TRUE]
  /\ pc' = [pc EXCEPT ![w] = "exited"]
  /\ UNCHANGED <<flushingLocal, flushing, flushIter, idx, flushQ, flushDone,
                 snap, exceptions, alive>>

-----------------------------------------------------------------------------
WorkerStep(w) ==
  \/ LoopTop(w) \/ BeginFlush(w) \/ RaiseFlag(w) \/ RaiseDone(w)
  \/ RunPass(w) \/ RunPassThrows(w) \/ EndFlushClear(w) \/ AnyFlushing(w) \/ EndFlushPost(w)

Next ==
  \/ \E w \in Workers : WorkerStep(w)
  \/ \E t \in Tasks, w \in Workers : SubmitTask(t, w)
  \/ \E f \in FlushTasks, w \in Workers : SubmitFlush(f, w)

(* Each worker is a dedicated execution stream that never stops looping;  *)
(* clients are not obliged to submit anything.                            *)
Spec == Init /\ [][Next]_vars /\ \A w \in Workers : WF_vars(WorkerStep(w))

(* The runtime with a stop: admin StopRuntime may happen at any point and *)
(* each worker then leaves Loop at the top of its next iteration.         *)
NextWithStop ==
  \/ Next
  \/ StopRuntime
  \/ \E w \in Workers : WorkerExit(w)

SpecWithStop ==
  /\ Init /\ [][NextWithStop]_vars
  /\ \A w \in Workers : WF_vars(WorkerStep(w) \/ WorkerExit(w))

-----------------------------------------------------------------------------
TypeOK ==
  /\ pc \in [Workers -> {"top", "begin", "raise", "run", "clear", "scan", "post", "exited"}]
  /\ flushingLocal \in [Workers -> BOOLEAN]
  /\ flushing \in [Workers -> BOOLEAN]
  /\ flushIter \in [Workers -> 0 .. IterCap]
  /\ workUncounted \in [Workers -> BOOLEAN]
  /\ idx \in [Workers -> 0 .. NumWorkers]
  /\ pending \in [Workers -> SUBSET Tasks]
  /\ done \subseteq Tasks
  /\ flushQ \in [Workers -> SUBSET FlushTasks]
  /\ flushDone \subseteq FlushTasks
  /\ snap \in [FlushTasks -> SUBSET Tasks]
  /\ ranInRound \in [Workers -> BOOLEAN]
  /\ exceptions \in 0 .. MaxExceptions
  /\ alive \in BOOLEAN

(* Barrier safety (EndFlush's spin on AnyFlushing): AnyFlushing takes a  *)
(* lowered flag as proof that its worker has completed a Run(true) pass   *)
(* since the flag was last raised.  So a raised flag must stay up until   *)
(* its worker has done that pass, although BeginFlush on another worker   *)
(* may raise it while the worker is between its pass and EndFlush's       *)
(* flushing_ = false.                                                     *)
RaiseServed ==
  \A x \in Workers : flushing[x] \/ ranInRound[x]

(* A worker spinning in EndFlush eventually gets past the barrier.        *)
FlushRoundTerminates ==
  \A w \in Workers : pc[w] = "scan" ~> pc[w] = "post"

(* Every Flush task queued at a worker is eventually completed by the     *)
(* admin Flush handler.                                                   *)
FlushTaskCompletes ==
  \A w \in Workers, f \in FlushTasks : f \in flushQ[w] ~> f \in flushDone

(* Quiescence (spec 4.6): when a Flush task completes, every ordinary task *)
(* that was outstanding when it was submitted has completed.  EndFlush    *)
(* relies on AnyFlushWorkDone to start another round while work remains. *)
FlushDrains ==
  \A f \in flushDone : snap[f] \cap Outstanding = {}

(* Shutdown (spec 4.2): once the runtime is stopped, every worker thread  *)
(* leaves Loop, so that the orchestrator's join of the workers returns.   *)
WorkersExit ==
  ~alive ~> \A w \in Workers : pc[w] = "exited"

=============================================================================
