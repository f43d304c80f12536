---------------------------- MODULE WorkerSched -----------------------------
(***************************************************************************)
(* Task lifecycle in the worker pool of one node: ingestion of the ingress *)
(* lanes with the routing decision (Worker::IngestLane, Worker::Reroute),  *)
(* the private multi-queue classifier (PrivateTaskMultiQueue::push), the   *)
(* polling order of Worker::Run, Worker::PollPrivateQueue, Worker::RunTask, *)
(* Worker::ExecTask, Worker::ExecCoroutine with the stack pool, and         *)
(* Worker::EndTask with cross-worker unblocking (Worker::SignalUnblock,    *)
(* Worker::ProcessCompletions).  Source:                                  *)
(* src/include/chimaera/work_orchestrator/worker.h.                       *)
(*                                                                         *)
(* The flush protocol is modelled in FlushBarrier; here every Run is       *)
(* Run(false) and no task is a Flush task.                                 *)
(*                                                                         *)
(* RunTask is one step.  The task body runs on the worker's own thread;    *)
(* what other threads can observe of it (a child emplaced in a lane, the  *)
(* task's blocked flag read by nobody but its owner) is only acted on      *)
(* after the step, because a child's SignalUnblock lands in the owner's    *)
(* completion queue, which only the owner drains.                          *)
(***************************************************************************)
EXTENDS Naturals, Sequences, FiniteSets

CONSTANTS
  Workers,       \* the workers of orch->workers_
  Lanes,         \* ingress lanes
  ProcLanes,     \* [Workers -> SUBSET Lanes]: process-queue lanes the orchestrator gives each worker
  InterLanes,    \* [Workers -> SUBSET Lanes]: other lanes the orchestrator gives each worker
  LateAssign,    \* lanes reach the workers through PollQueues after start-up
  Tasks,         \* every task that can exist in a behaviour
  Pools,         \* container pools; AdminPool is constructed from the start
  AdminPool,
  NullPool,      \* PoolId::GetNull()
  TaskPool,      \* [Tasks -> Pools \cup {NullPool}]: task->pool_
  Creates,       \* [Tasks -> Pools \cup {NoPool}]: pool an admin kCreateContainer task builds
  NoPool,
  LongRunning,   \* tasks flagged long-running
  LowLatency,    \* tasks with prio_ = kLowLatency
  Child,         \* [Tasks -> Tasks \cup {NoTask}]: subtask the body spawns and waits for
  NoTask,
  Resolution,    \* [Tasks -> ResolutionKinds]: what ResolveDomainQuery returns
  HomeLane,      \* [Tasks -> Lanes]: ingress lane a submission picks
  RouteStable,   \* Container::Route returns the same lane on every call
  Stacks,        \* stack addresses that can ever be handed out
  InitStacks,    \* [Workers -> SUBSET Stacks]: stacks_ filled by the constructor
  NoStack,
  QueueCap,      \* capacity of a private sub-queue
  RoundCap,      \* bound of the construct/low-latency rounds of Run (8192)
  MaxReruns,     \* bound on how often a task body gives the worker back unfinished
  MaxThrows      \* bound on the exceptions escaping RunTask in a behaviour

(* ResolveDomainQuery outcomes: one target on this node with kLocal|kId,   *)
(* one target on this node by hash, one target on another node, several.  *)
ResolutionKinds == {"localId", "localHash", "otherNode", "many"}

Roots == {t \in Tasks : \A p \in Tasks : Child[p] # t}
Parent(t) == IF \E p \in Tasks : Child[p] = t
             THEN CHOOSE p \in Tasks : Child[p] = t ELSE NoTask

QueueIds == {"construct", "flush", "longrun", "new", "lowlat", "highlat"}

ASSUME /\ \A w \in Workers : ProcLanes[w] \cup InterLanes[w] \subseteq Lanes
       /\ Resolution \in [Tasks -> ResolutionKinds]
       /\ HomeLane \in [Tasks -> Lanes]
       /\ AdminPool \in Pools /\ NullPool \notin Pools
       /\ QueueCap \in Nat \ {0} /\ RoundCap \in Nat \ {0}
       /\ LateAssign \in BOOLEAN

VARIABLES
  lane,          \* ingress lane contents
  queue,         \* active_: [Workers -> [QueueIds -> Seq(Tasks)]]
  compl,         \* tasks handed to a worker by signal_unblock, not yet re-pushed
  phase,         \* the part of Worker::Run a worker is in
  left,          \* entries PollPrivateQueue still has to pop (its snapshot)
  todo,          \* lanes IngestProcLanes / IngestInterLanes still has to drain
  diff,          \* the construct/low-latency round polled some entry
  round,         \* construct/low-latency rounds done in this Run
  submitted,     \* tasks emplaced in an ingress lane so far
  started, blocked, modComplete, remote,  \* task flag bits
  ended,         \* tasks whose EndTask ran (complete, or deleted if fire-and-forget)
  endCount,      \* history: how often EndTask ran for each task
  owner,         \* rctx_.worker_id_
  stack,         \* rctx_.stack_ptr_
  freeStacks,    \* stacks_ of each worker
  reruns,        \* times a body gave the worker back unfinished
  constructed,   \* pools whose container exists on this node
  remoteOut,     \* tasks handed to the remote queue, reply pending
  throws,        \* exceptions caught by Loop so far
  completing,    \* [Workers -> Tasks \cup {NoTask}]: task whose EndTask has
                 \* signalled its waiter but not yet run SetComplete
  complete,      \* tasks whose complete flag is set (IsComplete)
  pollQ,         \* poll_queues_: lanes handed over by PollQueues, not yet applied
  workProc,      \* work_proc_queue_ of each worker
  workInter      \* work_inter_queue_ of each worker

vars == <<lane, queue, compl, phase, left, todo, diff, round, submitted,
          started, blocked, modComplete, remote, ended, endCount, owner,
          stack, freeStacks, reruns, constructed, remoteOut, throws,
          completing, complete, pollQ, workProc, workInter>>

-----------------------------------------------------------------------------
(* PrivateTaskMultiQueue::push: the sub-queue of a task, first rule wins.  *)
Classify(t) ==
  CASE TaskPool[t] = AdminPool /\ Creates[t] # NoPool -> "construct"
    [] FALSE                                            -> "flush"
    [] t \in LongRunning                                -> "longrun"
    [] t \in Roots                                      -> "new"
    [] t \in LowLatency                                 -> "lowlat"
    [] OTHER                                            -> "highlat"

(* Lanes Container::Route may map the task to on a given call.             *)
RouteLanes(t) == IF RouteStable THEN {HomeLane[t]} ELSE Lanes

(* Worker::Reroute for a task that arrived on lane l: the set of outcomes  *)
(* over the lanes Route can return.                                        *)
Reroute(t, l) ==
  IF Resolution[t] = "localId"
  THEN {IF r = l THEN "thisWorker" ELSE "localWorker" : r \in RouteLanes(t)}
  ELSE {"remoteWorker"}

PushTo(q, w, t) == [q EXCEPT ![w][Classify(t)] = Append(@, t)]

(* Lanes a submission emplaces the task in: ScheduleTaskRuntime asks the  *)
(* container's Route for a kLocal|kId query, otherwise hashes the query.   *)
SubmitLanes(t) == IF Resolution[t] = "localId" THEN RouteLanes(t) ELSE {HomeLane[t]}

PollPhases == {"pollNew", "pollConstruct", "pollLowLat", "pollHighLat", "pollLongRun"}

QueueOf == [pollNew |-> "new", pollConstruct |-> "construct",
            pollLowLat |-> "lowlat", pollHighLat |-> "highlat",
            pollLongRun |-> "longrun"]

CurQ(w) == QueueOf[phase[w]]

Positions(s, t) == {i \in DOMAIN s : s[i] = t}

(* Slots a task occupies in ingress lanes, private queues and completion   *)
(* queues.                                                                 *)
Slots(t) ==
  UNION {{<<"lane", l, i>> : i \in Positions(lane[l], t)} : l \in Lanes}
  \cup UNION {{<<"queue", wq, i>> : i \in Positions(queue[wq[1]][wq[2]], t)}
                : wq \in Workers \X QueueIds}
  \cup UNION {{<<"compl", w, i>> : i \in Positions(compl[w], t)} : w \in Workers}

InUse == {stack[t] : t \in Tasks} \cup UNION {freeStacks[w] : w \in Workers}

Init ==
  /\ lane = [l \in Lanes |-> <<>>]
  /\ queue = [w \in Workers |-> [q \in QueueIds |-> <<>>]]
  /\ compl = [w \in Workers |-> <<>>]
  /\ phase = [w \in Workers |-> "ingestProc"]
  /\ left = [w \in Workers |-> 0]
  /\ pollQ = [w \in Workers |-> {}]
  /\ workProc = [w \in Workers |-> IF LateAssign THEN {} ELSE ProcLanes[w]]
  /\ workInter = [w \in Workers |-> IF LateAssign THEN {} ELSE InterLanes[w]]
  /\ todo = workProc
  /\ diff = [w \in Workers |-> FALSE]
  /\ round = [w \in Workers |-> 0]
  /\ submitted = {}
  /\ started = {} /\ blocked = {} /\ modComplete = {} /\ remote = {}
  /\ ended = {}
  /\ endCount = [t \in Tasks |-> 0]
  /\ owner = [t \in Tasks |-> CHOOSE w \in Workers : TRUE]
  /\ stack = [t \in Tasks |-> NoStack]
  /\ freeStacks = InitStacks
  /\ reruns = [t \in Tasks |-> 0]
  /\ constructed = {AdminPool}
  /\ remoteOut = {}
  /\ throws = 0
  /\ completing = [w \in Workers |-> NoTask]
  /\ complete = {}

-----------------------------------------------------------------------------
(* Lanes whose WorkEntry names the process queue (process_queue_id_).     *)
ProcQueueLanes == UNION {ProcLanes[w] : w \in Workers}

(* Worker::PollQueues, called by the work orchestrator's thread: it        *)
(* emplaces the worker's WorkEntry vector in poll_queues_.  The            *)
(* orchestrator (outside src/) hands each worker its lanes once.           *)
PollQueues(w) ==
  /\ pollQ[w] \cup workProc[w] \cup workInter[w] = {}
  /\ ProcLanes[w] \cup InterLanes[w] # {}
  /\ pollQ' = [pollQ EXCEPT ![w] = ProcLanes[w] \cup InterLanes[w]]
  /\ UNCHANGED <<lane, queue, compl, phase, left, todo, diff, round, submitted,
                 started, blocked, modComplete, remote, ended, endCount, owner,
                 stack, freeStacks, reruns, constructed, remoteOut, throws,
                 completing, complete, workProc, workInter>>

(* Worker::_PollQueues, at the top of Run when poll_queues_ is not empty: *)
(* every entry handed over is appended to work_proc_queue_ if its queue   *)
(* is the process queue, to work_inter_queue_ otherwise.                  *)
ApplyPollQueues(w) ==
  /\ workProc' = [workProc EXCEPT ![w] = @ \cup (pollQ[w] \cap ProcQueueLanes)]
  /\ workInter' = [workInter EXCEPT ![w] = @ \cup (pollQ[w] \ ProcQueueLanes)]
  /\ pollQ' = [pollQ EXCEPT ![w] = {}]

(* A client emplaces a root task.  A kLocal|kId submission consults the    *)
(* container, so it is only made once the pool is constructed (a client's  *)
(* Create waits for the construction task).                                *)
SubmitRoot(t) ==
  /\ t \in Roots \ submitted
  /\ Resolution[t] = "localId" => TaskPool[t] \in constructed
  /\ \E l \in SubmitLanes(t) : lane' = [lane EXCEPT ![l] = Append(@, t)]
  /\ submitted' = submitted \cup {t}
  /\ UNCHANGED <<queue, compl, phase, left, todo, diff, round, started, blocked,
                 modComplete, remote, ended, endCount, owner, stack, freeStacks,
                 reruns, constructed, remoteOut, throws, completing, complete, pollQ, workProc, workInter>>

(* Worker::IngestLane, one task: Reroute, SetRemote, then drop it from the *)
(* lane (kLocalWorker) or push it to the classifier and pop it.            *)
IngestOne(w) ==
  /\ phase[w] \in {"ingestProc", "ingestInter"}
  /\ \E l \in todo[w] :
       /\ lane[l] # <<>>
       /\ LET t == Head(lane[l]) IN
          \E mode \in Reroute(t, l) :
            \/ /\ mode = "localWorker"
               /\ lane' = [lane EXCEPT ![l] = Tail(@)]
               /\ UNCHANGED <<queue, remote>>
            \/ /\ mode # "localWorker"
               /\ Len(queue[w][Classify(t)]) < QueueCap
               /\ lane' = [lane EXCEPT ![l] = Tail(@)]
               /\ queue' = PushTo(queue, w, t)
               /\ remote' = IF mode = "remoteWorker" THEN remote \cup {t} ELSE remote
  /\ UNCHANGED <<compl, phase, left, todo, diff, round, submitted, started,
                 blocked, modComplete, ended, endCount, owner, stack, freeStacks,
                 reruns, constructed, remoteOut, throws, completing, complete, pollQ, workProc, workInter>>

(* IngestLane stops on a lane: peek finds it empty, or push fails.         *)
IngestLaneDone(w) ==
  /\ phase[w] \in {"ingestProc", "ingestInter"}
  /\ \E l \in todo[w] :
       /\ \/ /\ lane[l] = <<>>
             /\ UNCHANGED remote
          \/ /\ lane[l] # <<>>
             /\ LET t == Head(lane[l]) IN
                \E mode \in Reroute(t, l) \ {"localWorker"} :
                  /\ Len(queue[w][Classify(t)]) >= QueueCap
                  /\ remote' = IF mode = "remoteWorker" THEN remote \cup {t} ELSE remote
       /\ todo' = [todo EXCEPT ![w] = @ \ {l}]
  /\ UNCHANGED <<lane, queue, compl, phase, left, diff, round, submitted,
                 started, blocked, modComplete, ended, endCount, owner, stack,
                 freeStacks, reruns, constructed, remoteOut, throws, completing, complete, pollQ, workProc, workInter>>

(* All lanes of IngestProcLanes / IngestInterLanes drained: the next       *)
(* PollPrivateQueue takes its snapshot size.                               *)
IngestEnd(w) ==
  /\ phase[w] \in {"ingestProc", "ingestInter"}
  /\ todo[w] = {}
  /\ LET next == IF phase[w] = "ingestProc" THEN "pollNew" ELSE "pollConstruct"
         n == Len(queue[w][QueueOf[next]])
     IN /\ phase' = [phase EXCEPT ![w] = next]
        /\ left' = [left EXCEPT ![w] = n]
        /\ diff' = [diff EXCEPT ![w] = IF next = "pollConstruct" THEN n > 0 ELSE @]
  /\ UNCHANGED <<lane, queue, compl, todo, round, submitted, started, blocked,
                 modComplete, remote, ended, endCount, owner, stack, freeStacks,
                 reruns, constructed, remoteOut, throws, completing, complete, pollQ, workProc, workInter>>

-----------------------------------------------------------------------------
(* Worker::PollPrivateQueue pops the head entry and calls RunTask on it.   *)
Polling(w) == phase[w] \in PollPhases /\ left[w] > 0
Polled(w) == Head(queue[w][CurQ(w)])
Popped(w) == [queue EXCEPT ![w][CurQ(w)] = Tail(@)]
PushedBack(w) == [queue EXCEPT ![w][CurQ(w)] = Append(Tail(@), Head(@))]
(* Mutant: the loop over the snapshot counts two entries per pop.         *)
LeftDecTwice(w) == [left EXCEPT ![w] = @ - 2]

LeftDec(w) == [left EXCEPT ![w] = @ - 1]

(* Mutant: EndTask completes the task without signalling its waiter.     *)
EndTaskNoSignal(w, t) ==
  /\ UNCHANGED <<compl, completing>>
  /\ ended' = ended \cup {t}
  /\ endCount' = [endCount EXCEPT ![t] = @ + 1]
  /\ complete' = complete \cup {t}

(* Worker::SignalUnblock: the task goes into the completion queue of the  *)
(* worker recorded in its rctx_.worker_id_ (its owner).                    *)
SignalUnblock(t) == compl' = [compl EXCEPT ![owner[t]] = Append(@, t)]

(* Worker::EndTask: signal the waiting parent (pending_to_) through        *)
(* SignalUnblock into the completion queue of the worker recorded in its   *)
(* rctx_.worker_id_, and after that mark the task complete (SetComplete; *)
(* DelTask for a fire-and-forget task, which no modelled task is).  The   *)
(* parent's worker can act on the signal before SetComplete: the worker   *)
(* that runs EndTask takes the SetComplete as a step of its own,          *)
(* EndTaskComplete.  A task nobody waits for is marked complete at once.  *)
(* No task here was received from a remote node, so the                   *)
(* ShouldSignalRemoteComplete branch does not arise.                      *)
EndTask(w, t) ==
  /\ IF Parent(t) # NoTask THEN SignalUnblock(Parent(t)) ELSE UNCHANGED compl
  /\ ended' = ended \cup {t}
  /\ endCount' = [endCount EXCEPT ![t] = @ + 1]
  /\ IF Parent(t) # NoTask
     THEN completing' = [completing EXCEPT ![w] = t] /\ UNCHANGED complete
     ELSE complete' = complete \cup {t} /\ UNCHANGED completing

(* The task->SetComplete() that ends Worker::EndTask.                      *)
EndTaskComplete(w) ==
  /\ completing[w] # NoTask
  /\ complete' = complete \cup {completing[w]}
  /\ completing' = [completing EXCEPT ![w] = NoTask]
  /\ UNCHANGED <<lane, queue, compl, phase, left, todo, diff, round, submitted,
                 started, blocked, modComplete, remote, ended, endCount, owner,
                 stack, freeStacks, reruns, constructed, remoteOut, throws,
                 pollQ, workProc, workInter>>

(* RunTask when the container lookup fails: a null pool is force-completed *)
(* and dropped, without EndTask; any other pool is retried later.          *)
RunTaskNoContainer(w) ==
  /\ Polling(w)
  /\ LET t == Polled(w) IN
       /\ TaskPool[t] \notin constructed
       /\ \/ /\ TaskPool[t] = NullPool
             /\ modComplete' = modComplete \cup {t}
             /\ queue' = Popped(w)
          \/ /\ TaskPool[t] # NullPool
             /\ queue' = PushedBack(w)
             /\ UNCHANGED modComplete
  /\ left' = LeftDec(w)
  /\ UNCHANGED <<lane, compl, phase, todo, diff, round, submitted, started,
                 blocked, remote, ended, endCount, owner, stack, freeStacks,
                 reruns, constructed, remoteOut, throws, completing, complete, pollQ, workProc, workInter>>

(* Mutant: RunTask keeps the entry of a completed task in its queue.     *)
RunTaskCompleteKeep(w) ==
  /\ Polling(w)
  /\ LET t == Polled(w) IN
       /\ TaskPool[t] \in constructed
       /\ t \in modComplete
       /\ owner' = [owner EXCEPT ![t] = w]
       /\ queue' = PushedBack(w)
       /\ EndTask(w, t)
  /\ left' = LeftDec(w)
  /\ UNCHANGED <<lane, phase, todo, diff, round, submitted, started, blocked,
                 modComplete, remote, stack, freeStacks, reruns, constructed,
                 remoteOut, throws, pollQ, workProc, workInter>>

(* RunTask on a task already module-complete: ExecTask is skipped, the     *)
(* entry is erased and EndTask runs.                                       *)
RunTaskComplete(w) ==
  /\ Polling(w)
  /\ LET t == Polled(w) IN
       /\ TaskPool[t] \in constructed
       /\ t \in modComplete
       /\ owner' = [owner EXCEPT ![t] = w]
       /\ queue' = Popped(w)
       /\ EndTask(w, t)
  /\ left' = LeftDec(w)
  /\ UNCHANGED <<lane, phase, todo, diff, round, submitted, started, blocked,
                 modComplete, remote, stack, freeStacks, reruns, constructed,
                 remoteOut, throws, pollQ, workProc, workInter>>

(* ExecTask returns at once when the task's ShouldRun is false (a          *)
(* long-running task whose period has not elapsed); RunTask pushes it back. *)
RunTaskNotDue(w) ==
  /\ Polling(w)
  /\ LET t == Polled(w) IN
       /\ TaskPool[t] \in constructed
       /\ t \notin modComplete
       /\ t \in LongRunning
       /\ owner' = [owner EXCEPT ![t] = w]
       /\ queue' = PushedBack(w)
  /\ left' = LeftDec(w)
  /\ UNCHANGED <<lane, compl, phase, todo, diff, round, submitted, started,
                 blocked, modComplete, remote, ended, endCount, stack,
                 freeStacks, reruns, constructed, remoteOut, throws, completing, complete, pollQ, workProc, workInter>>

(* Mutant: RunTask pushes back a task it has just blocked on the remote   *)
(* queue (the IsBlocked test after ExecTask is dropped).                  *)
RunTaskRemotePushBack(w) ==
  /\ Polling(w)
  /\ LET t == Polled(w) IN
       /\ TaskPool[t] \in constructed
       /\ t \notin modComplete
       /\ t \in remote
       /\ owner' = [owner EXCEPT ![t] = w]
       /\ blocked' = blocked \cup {t}
       /\ remoteOut' = remoteOut \cup {t}
       /\ queue' = PushedBack(w)
  /\ left' = LeftDec(w)
  /\ UNCHANGED <<lane, compl, phase, todo, diff, round, submitted, started,
                 modComplete, remote, ended, endCount, stack, freeStacks,
                 reruns, constructed, throws, completing, complete, pollQ, workProc, workInter>>

(* ExecTask on a task marked remote: SetBlocked, block the entry, and hand *)
(* a proxy to the remote queue; RunTask does not push it back.             *)
RunTaskRemote(w) ==
  /\ Polling(w)
  /\ LET t == Polled(w) IN
       /\ TaskPool[t] \in constructed
       /\ t \notin modComplete
       /\ t \in remote
       /\ owner' = [owner EXCEPT ![t] = w]
       /\ blocked' = blocked \cup {t}
       /\ remoteOut' = remoteOut \cup {t}
       /\ queue' = Popped(w)
  /\ left' = LeftDec(w)
  /\ UNCHANGED <<lane, compl, phase, todo, diff, round, submitted, started,
                 modComplete, remote, ended, endCount, stack, freeStacks,
                 reruns, constructed, throws, completing, complete, pollQ, workProc, workInter>>

(* The remote branch of ExecTask throws after SetBlocked and block(entry), *)
(* when AsyncClientPushSubmitBase cannot allocate the proxy task: the      *)
(* popped entry is never pushed back, and Loop's catch starts the next     *)
(* iteration with a new Run, skipping ProcessCompletions.                  *)
RunTaskRemoteThrows(w) ==
  /\ Polling(w)
  /\ throws < MaxThrows
  /\ LET t == Polled(w) IN
       /\ TaskPool[t] \in constructed
       /\ t \notin modComplete
       /\ t \in remote
       /\ owner' = [owner EXCEPT ![t] = w]
       /\ blocked' = blocked \cup {t}
       /\ queue' = Popped(w)
  /\ throws' = throws + 1
  /\ phase' = [phase EXCEPT ![w] = "ingestProc"]
  /\ ApplyPollQueues(w)
  /\ todo' = [todo EXCEPT ![w] = workProc'[w]]
  /\ left' = [left EXCEPT ![w] = 0]
  /\ diff' = [diff EXCEPT ![w] = FALSE]
  /\ round' = [round EXCEPT ![w] = 0]
  /\ UNCHANGED <<lane, compl, submitted, started, modComplete, remote, ended,
                 endCount, stack, freeStacks, reruns, constructed, remoteOut,
                 completing, complete>>

(* Worker::AllocateStack: pop a pooled stack, else malloc a new one.       *)
AllocStacks(w) == IF freeStacks[w] # {} THEN freeStacks[w] ELSE Stacks \ InUse

(* Mutant: AllocateStack reads the head of stacks_ without popping it.    *)
PopStackPeek(w, s) == freeStacks

(* The pop of stacks_ in AllocateStack.                                   *)
PopStack(w, s) == [freeStacks EXCEPT ![w] = @ \ {s}]

(* Worker::FreeStack: stacks_ takes the stack back; when the ring is full  *)
(* it is resized first, so the emplace always succeeds.                    *)
FreeStack(fs, w, s) == [fs EXCEPT ![w] = @ \cup {s}]

(* ExecTask running the body through ExecCoroutine.  A task not yet        *)
(* started gets a stack and is marked started; a started one resumes on    *)
(* its saved stack.  The jump returns when the body                        *)
(*   Finish: sets module-complete and returns (CoroutineEntry unsets       *)
(*           started, the stack is freed, RunTask runs EndTask; an admin   *)
(*           kCreateContainer task has built its pool);                    *)
(*   Return: returns without completing (started unset, stack freed,       *)
(*           pushed back, re-entered from the start next time);            *)
(*   Yield:  yields mid-body (stays started on its stack, pushed back);    *)
(*   Wait:   spawns its subtask, emplacing it like ScheduleTaskRuntime,    *)
(*           and waits for it: blocked, the entry is not pushed back.     *)
RunTaskBody(w) ==
  /\ Polling(w)
  /\ LET t == Polled(w)
         fresh == t \notin started
     IN
     /\ TaskPool[t] \in constructed
     /\ t \notin modComplete
     /\ t \notin remote
     /\ owner' = [owner EXCEPT ![t] = w]
     /\ \E s \in IF fresh THEN AllocStacks(w) ELSE {stack[t]} :
        LET kept == IF fresh THEN PopStack(w, s) ELSE freeStacks
            freed == FreeStack(kept, w, s)
        IN
        \/ /\ modComplete' = modComplete \cup {t}
           /\ started' = started \ {t}
           /\ stack' = [stack EXCEPT ![t] = NoStack]
           /\ freeStacks' = freed
           /\ constructed' = constructed \cup ({Creates[t]} \ {NoPool})
           /\ queue' = Popped(w)
           /\ EndTask(w, t)
           /\ UNCHANGED <<lane, submitted, blocked, reruns>>
        \/ /\ reruns[t] < MaxReruns
           /\ started' = started \ {t}
           /\ stack' = [stack EXCEPT ![t] = NoStack]
           /\ freeStacks' = freed
           /\ queue' = PushedBack(w)
           /\ reruns' = [reruns EXCEPT ![t] = @ + 1]
           /\ UNCHANGED <<lane, submitted, blocked, modComplete, constructed,
                          compl, ended, endCount, completing, complete, pollQ, workProc, workInter>>
        \/ /\ reruns[t] < MaxReruns
           /\ started' = started \cup {t}
           /\ stack' = [stack EXCEPT ![t] = s]
           /\ freeStacks' = kept
           /\ queue' = PushedBack(w)
           /\ reruns' = [reruns EXCEPT ![t] = @ + 1]
           /\ UNCHANGED <<lane, submitted, blocked, modComplete, constructed,
                          compl, ended, endCount, completing, complete, pollQ, workProc, workInter>>
        \/ /\ Child[t] # NoTask
           /\ Child[t] \notin submitted
           /\ \E l \in SubmitLanes(Child[t]) :
                lane' = [lane EXCEPT ![l] = Append(@, Child[t])]
           /\ submitted' = submitted \cup {Child[t]}
           /\ blocked' = blocked \cup {t}
           /\ started' = started \cup {t}
           /\ stack' = [stack EXCEPT ![t] = s]
           /\ freeStacks' = kept
           /\ queue' = Popped(w)
           /\ UNCHANGED <<modComplete, constructed, compl, ended, endCount, reruns,
                          completing, complete, pollQ, workProc, workInter>>
  /\ left' = LeftDec(w)
  /\ UNCHANGED <<phase, todo, diff, round, remote, remoteOut, throws, pollQ,
                 workProc, workInter>>

(* Mutant: the unblocked tasks are taken off the completion queue but not *)
(* pushed to any sub-queue.                                               *)
ProcessCompletionsDrop(w) ==
  /\ compl' = [compl EXCEPT ![w] = <<>>]
  /\ blocked' = blocked \ {compl[w][i] : i \in DOMAIN compl[w]}
  /\ UNCHANGED queue

(* Mutant: the unblock pass rescans the worker's blocked entries instead  *)
(* of taking those signalled through signal_unblock.                      *)
ProcessCompletionsRescan(w) ==
  LET c == compl[w]
      back == {c[i] : i \in DOMAIN c} \cup {t \in blocked : owner[t] = w}
  IN /\ compl' = [compl EXCEPT ![w] = <<>>]
     /\ blocked' = blocked \ back
     /\ LET q1 == [q \in QueueIds |->
                     queue[w][q] \o SelectSeq(c, LAMBDA t : Classify(t) = q)]
        IN queue' = [queue EXCEPT ![w] = q1]

(* Worker::ProcessCompletions: while (active_.unblock()) re-pushes every   *)
(* task signalled to this worker, no longer blocked, into its sub-queue.   *)
ProcessCompletions(w) ==
  LET c == compl[w]
      back == {c[i] : i \in DOMAIN c}
  IN /\ compl' = [compl EXCEPT ![w] = <<>>]
     /\ blocked' = blocked \ back
     /\ LET q1 == [q \in QueueIds |->
                     queue[w][q] \o SelectSeq(c, LAMBDA t : Classify(t) = q)]
        IN queue' = [queue EXCEPT ![w] = q1]

(* PollPrivateQueue has popped its snapshot: ProcessCompletions, then Run  *)
(* moves on: new-work -> rounds of {IngestInterLanes, construct, low-lat}  *)
(* while a round polled something and fewer than RoundCap rounds ran ->    *)
(* high-latency -> long-running -> the next Loop iteration.               *)
PollEnd(w) ==
  /\ phase[w] \in PollPhases
  /\ left[w] = 0
  /\ ProcessCompletions(w)
  /\ LET ph == phase[w]
         again == diff[w] /\ round[w] + 1 < RoundCap
         next == CASE ph = "pollNew"       -> "ingestInter"
                   [] ph = "pollConstruct" -> "pollLowLat"
                   [] ph = "pollLowLat"    -> IF again THEN "ingestInter" ELSE "pollHighLat"
                   [] ph = "pollHighLat"   -> "pollLongRun"
                   [] ph = "pollLongRun"   -> "ingestProc"
         n == IF next \in PollPhases THEN Len(queue'[w][QueueOf[next]]) ELSE 0
     IN /\ phase' = [phase EXCEPT ![w] = next]
        /\ left' = [left EXCEPT ![w] = n]
        /\ IF next = "ingestProc" THEN ApplyPollQueues(w)
           ELSE UNCHANGED <<pollQ, workProc, workInter>>
        /\ todo' = [todo EXCEPT ![w] = CASE next = "ingestInter" -> workInter[w]
                                         [] next = "ingestProc"  -> workProc'[w]
                                         [] OTHER                -> @]
        /\ diff' = [diff EXCEPT ![w] = CASE next = "ingestInter" -> FALSE
                                         [] next = "pollLowLat"  -> @ \/ n > 0
                                         [] OTHER                -> @]
        /\ round' = [round EXCEPT ![w] = CASE ph = "pollLowLat" /\ again -> @ + 1
                                           [] next = "ingestProc"        -> 0
                                           [] OTHER                      -> @]
  /\ UNCHANGED <<lane, submitted, started, modComplete, remote, ended,
                 endCount, owner, stack, freeStacks, reruns, constructed,
                 remoteOut, throws, completing, complete>>

(* The remote queue answers a proxied task: the task is module-complete   *)
(* and SignalUnblock hands it back to the worker that blocked it.         *)
RemoteReply(t) ==
  /\ t \in remoteOut
  /\ remoteOut' = remoteOut \ {t}
  /\ modComplete' = modComplete \cup {t}
  /\ SignalUnblock(t)
  /\ UNCHANGED <<lane, queue, phase, left, todo, diff, round, submitted,
                 started, blocked, remote, ended, endCount, owner, stack,
                 freeStacks, reruns, constructed, throws, completing, complete, pollQ, workProc, workInter>>

-----------------------------------------------------------------------------
WorkerStep(w) ==
  \/ /\ completing[w] = NoTask
     /\ \/ IngestOne(w) \/ IngestLaneDone(w) \/ IngestEnd(w)
        \/ RunTaskNoContainer(w) \/ RunTaskComplete(w) \/ RunTaskNotDue(w)
        \/ RunTaskRemote(w) \/ RunTaskBody(w) \/ PollEnd(w)
  \/ EndTaskComplete(w)

Next ==
  \/ \E w \in Workers : WorkerStep(w)
  \/ \E t \in Tasks : SubmitRoot(t)
  \/ \E t \in Tasks : RemoteReply(t)
  \/ \E w \in Workers : PollQueues(w)

(* Workers are dedicated threads polling continuously; the remote queue   *)
(* eventually answers every proxied task.  The orchestrator eventually    *)
(* hands every worker its lanes.  Clients need not submit.                *)
Spec ==
  /\ Init /\ [][Next]_vars
  /\ \A w \in Workers : WF_vars(WorkerStep(w))
  /\ \A t \in Tasks : WF_vars(RemoteReply(t))
  /\ \A w \in Workers : WF_vars(PollQueues(w))

(* The fault model: up to MaxThrows allocation failures in the remote     *)
(* branch of ExecTask, each caught by Loop.                               *)
NextWithThrows ==
  \/ Next
  \/ \E w \in Workers : completing[w] = NoTask /\ RunTaskRemoteThrows(w)

SpecWithThrows ==
  /\ Init /\ [][NextWithThrows]_vars
  /\ \A w \in Workers : WF_vars(WorkerStep(w))
  /\ \A t \in Tasks : WF_vars(RemoteReply(t))
  /\ \A w \in Workers : WF_vars(PollQueues(w))

-----------------------------------------------------------------------------
(* Refinement mapping to TaskLifecycle: the life stage of each task as    *)
(* its flags and the worker state show it.  A null-pool task set          *)
(* module-complete without EndTask is dropped; a blocked task is waiting  *)
(* for its subtask, or for the remote queue when it is marked remote.     *)
LifeStage(t) ==
  CASE t \notin submitted                         -> "none"
    [] t \in ended                                -> "done"
    [] t \in modComplete /\ TaskPool[t] = NullPool -> "dropped"
    [] t \in blocked /\ t \in remote              -> "remote"
    [] t \in blocked                              -> "waiting"
    [] OTHER                                      -> "pending"

Lifecycle == INSTANCE TaskLifecycle
               WITH status <- [t \in Tasks |-> LifeStage(t)],
                    Droppable <- {t \in Tasks : TaskPool[t] = NullPool}

-----------------------------------------------------------------------------
TypeOK ==
  /\ lane \in [Lanes -> Seq(Tasks)]
  /\ queue \in [Workers -> [QueueIds -> Seq(Tasks)]]
  /\ compl \in [Workers -> Seq(Tasks)]
  /\ phase \in [Workers -> PollPhases \cup {"ingestProc", "ingestInter"}]
  /\ left \in [Workers -> Nat]
  /\ todo \in [Workers -> SUBSET Lanes]
  /\ diff \in [Workers -> BOOLEAN]
  /\ round \in [Workers -> 0 .. RoundCap]
  /\ {submitted, started, blocked, modComplete, remote, ended, remoteOut}
       \subseteq SUBSET Tasks
  /\ endCount \in [Tasks -> Nat]
  /\ owner \in [Tasks -> Workers]
  /\ stack \in [Tasks -> Stacks \cup {NoStack}]
  /\ freeStacks \in [Workers -> SUBSET Stacks]
  /\ reruns \in [Tasks -> 0 .. MaxReruns]
  /\ constructed \subseteq Pools
  /\ throws \in 0 .. MaxThrows
  /\ completing \in [Workers -> Tasks \cup {NoTask}]
  /\ complete \subseteq Tasks
  /\ {pollQ, workProc, workInter} \subseteq [Workers -> SUBSET Lanes]

(* Single-owner discipline (spec 3): a task sits in at most one slot of   *)
(* all ingress lanes, private sub-queues and completion queues, and a      *)
(* task parked as blocked is in no lane or private queue until its unblock *)
(* signal is processed.                                                    *)
SingleOwner ==
  \A t \in Tasks :
    /\ Cardinality(Slots(t)) <= 1
    /\ t \in blocked => \A sl \in Slots(t) : sl[1] = "compl"

(* Stack pool (ExecCoroutine, AllocateStack, FreeStack): exactly the       *)
(* started tasks hold a stack, no stack is held by two tasks, and a held   *)
(* stack is in no worker's pool.                                           *)
StackExclusive ==
  /\ \A t \in Tasks : (stack[t] # NoStack) <=> (t \in started)
  /\ \A t, u \in Tasks : t # u /\ stack[t] # NoStack => stack[t] # stack[u]
  /\ \A t \in Tasks : stack[t] \notin UNION {freeStacks[w] : w \in Workers}
  /\ \A w, v \in Workers : w # v => freeStacks[w] \cap freeStacks[v] = {}

(* At-most-once completion (spec 8): EndTask runs at most once per task.  *)
EndTaskAtMostOnce ==
  \A t \in Tasks : endCount[t] <= 1

(* No task is lost: a submitted task that has not ended is in a lane or a *)
(* queue (a completion queue included), or it is blocked on something     *)
(* that will signal it: its proxy is at the remote queue, or its subtask  *)
(* has been submitted and has not ended.                                  *)
NoTaskLost ==
  \A t \in submitted \ ended :
    \/ Slots(t) # {}
    \/ t \in blocked /\ (t \in remoteOut \/ Child[t] \in submitted \ ended)

(* Every submitted task eventually reaches EndTask once its pool exists   *)
(* (until then RunTask keeps retrying it): across subtask waits, remote   *)
(* round trips and the bounded rounds of Run.                             *)
EveryTaskEnds ==
  \A t \in Tasks : (t \in submitted /\ TaskPool[t] \in constructed) ~> t \in ended

(* The scheduler implements the task life cycle of TaskLifecycle: a       *)
(* waiting task is only re-pushed after its subtask's EndTask, a task     *)
(* never reaches EndTask while its subtask is in flight, and only a       *)
(* null-pool task is dropped.                                             *)
ImplementsLifecycle == Lifecycle!Spec

(* Spec 4.5 and spec 8: a task waiting on its subtask is woken (taken off *)
(* blocked by ProcessCompletions on its own worker) only once that subtask *)
(* is complete, so that the waiter's Wait finds IsComplete set.  EndTask   *)
(* signals the waiter before SetComplete, on another worker's thread.      *)
WokenAfterChildComplete ==
  [][\A t \in Tasks :
       (t \in blocked /\ t \notin blocked' /\ t \notin remote)
         => Child[t] \in complete']_vars

=============================================================================
