--------------------------- MODULE WorkOrchPolicy ---------------------------
(***************************************************************************)
(* Replacing the work-orchestrator scheduler: the admin handler            *)
(* Server::SetWorkOrchQueuePolicy on queue_sched_ and                      *)
(* Server::SetWorkOrchProcPolicy, the same code on proc_sched_, in         *)
(* src/tasks/chimaera_admin/src/chimaera_admin.cc, and                      *)
(* how the worker running the old long-running scheduler task reacts to   *)
(* the module-complete flag the handler sets on it from another thread    *)
(* (Worker::RunTask, Worker::ExecCoroutine in worker.h).                   *)
(*                                                                         *)
(* A handler run is atomic with respect to other tasks of its own worker. *)
(* Handlers on different workers overlap: the test of queue_sched_ and the *)
(* write of the new scheduler are separate steps, the unsynchronised      *)
(* accesses of a data race taken in every order the hardware allows.      *)
(***************************************************************************)
EXTENDS Naturals, FiniteSets

CONSTANTS
  Workers,
  Requests,      \* SetWorkOrchQueuePolicy / SetWorkOrchProcPolicy tasks
  ReqPolicy,     \* [Requests -> Policies]: the handler a request calls
  ReqWorker,     \* [Requests -> Workers]: worker whose admin lane runs the request
  NewSched,      \* [Requests -> Scheds]: the ScheduleTask a request creates
  SchedWorker,   \* worker running the scheduler tasks
  NoSched,       \* queue_sched_ == nullptr
  SchedYields    \* the scheduler body may suspend mid-run, keeping its stack

Scheds == {NewSched[r] : r \in Requests}

(* The scheduler slots of the admin container: queue_sched_, proc_sched_. *)
Policies == {"queue", "proc"}

(* The slot the handler that creates scheduler s writes.                  *)
SchedPolicy(s) == ReqPolicy[CHOOSE r \in Requests : NewSched[r] = s]

ASSUME /\ ReqWorker \in [Requests -> Workers] /\ SchedWorker \in Workers
       /\ \A r1, r2 \in Requests : r1 # r2 => NewSched[r1] # NewSched[r2]
       /\ NoSched \notin Scheds /\ SchedYields \in BOOLEAN
       /\ ReqPolicy \in [Requests -> Policies]

VARIABLES
  req,           \* [Requests -> {"idle", "queued", "read", "done"}]
  sched,         \* [Policies -> Scheds \cup {NoSched}]: queue_sched_, proc_sched_
  created,       \* scheduler tasks emplaced so far
  modComplete,   \* scheduler tasks with the module-complete flag
  ended,         \* scheduler tasks that went through EndTask (IsComplete)
  started        \* scheduler tasks suspended mid-body on their stack

vars == <<req, sched, created, modComplete, ended, started>>

(* A worker is inside a handler run between its test and its write.       *)
Busy(w) == \E r \in Requests : req[r] = "read" /\ ReqWorker[r] = w

Init ==
  /\ req = [r \in Requests |-> "idle"]
  /\ sched = [p \in Policies |-> NoSched]
  /\ created = {} /\ modComplete = {} /\ ended = {} /\ started = {}

Submit(r) ==
  /\ req[r] = "idle"
  /\ req' = [req EXCEPT ![r] = "queued"]
  /\ UNCHANGED <<sched, created, modComplete, ended, started>>

(* Mutant: the handler replaces a scheduler that has not completed yet.   *)
CanReplaceEarly(s) == TRUE

(* queue_sched_ && !queue_sched_->IsComplete() fails.                     *)
CanReplace(s) == s = NoSched \/ s \in ended

(* Mutant: the `if (queue_sched_)` null test is dropped.                  *)
HandlerCheckMarkNull(r, p) ==
  /\ req[r] = "queued"
  /\ ~Busy(ReqWorker[r])
  /\ modComplete' = modComplete \cup {sched[p]}
  /\ req' = IF CanReplace(sched[p]) THEN [req EXCEPT ![r] = "read"] ELSE req
  /\ UNCHANGED <<sched, created, ended, started>>

(* The first part of the handler: set the running scheduler               *)
(* module-complete, and unless it has completed, return without           *)
(* completing the request (RunTask pushes it back for a retry).  p is the *)
(* slot of the handler: "queue" for queue_sched_, "proc" for proc_sched_.  *)
HandlerCheck(r, p) ==
  /\ req[r] = "queued"
  /\ ~Busy(ReqWorker[r])
  /\ modComplete' = IF sched[p] # NoSched THEN modComplete \cup {sched[p]}
                    ELSE modComplete
  /\ req' = IF CanReplace(sched[p]) THEN [req EXCEPT ![r] = "read"] ELSE req
  /\ UNCHANGED <<sched, created, ended, started>>

(* The rest of the handler: NewTask<ScheduleTask>, queue_sched_ = it, the *)
(* emplace in the admin queue, and the request's SetModuleComplete.        *)
HandlerCreate(r, p) ==
  /\ req[r] = "read"
  /\ created' = created \cup {NewSched[r]}
  /\ sched' = [sched EXCEPT ![p] = NewSched[r]]
  /\ req' = [req EXCEPT ![r] = "done"]
  /\ UNCHANGED <<modComplete, ended, started>>

(* Server::SetWorkOrchQueuePolicy, its two parts.                         *)
QueuePolicyCheck(r) == ReqPolicy[r] = "queue" /\ HandlerCheck(r, "queue")
QueuePolicyCreate(r) == ReqPolicy[r] = "queue" /\ HandlerCreate(r, "queue")

(* Server::SetWorkOrchProcPolicy, its two parts.                          *)
ProcPolicyCheck(r) == ReqPolicy[r] = "proc" /\ HandlerCheck(r, "proc")
ProcPolicyCreate(r) == ReqPolicy[r] = "proc" /\ HandlerCreate(r, "proc")

(* Mutant: RunTask runs the body even when the task is module-complete.   *)
SchedRunIgnoreComplete(s) ==
  /\ s \in created \ ended
  /\ ~Busy(SchedWorker)
  /\ \E keep \in IF SchedYields THEN BOOLEAN ELSE {FALSE} :
       started' = IF keep THEN started \cup {s} ELSE started \ {s}
  /\ UNCHANGED <<req, sched, created, modComplete, ended>>

(* RunTask on a scheduler task: module-complete (set by the handler) skips *)
(* ExecTask and runs EndTask; otherwise ExecCoroutine runs the body, which *)
(* returns (started unset, stack freed) or, if it can, suspends.          *)
SchedRun(s) ==
  /\ s \in created \ ended
  /\ ~Busy(SchedWorker)
  /\ \/ /\ s \in modComplete
        /\ ended' = ended \cup {s}
        /\ UNCHANGED started
     \/ /\ s \notin modComplete
        /\ \E keep \in IF SchedYields THEN BOOLEAN ELSE {FALSE} :
             started' = IF keep THEN started \cup {s} ELSE started \ {s}
        /\ UNCHANGED ended
  /\ UNCHANGED <<req, sched, created, modComplete>>

Next ==
  \/ \E r \in Requests : \/ Submit(r)
                         \/ QueuePolicyCheck(r) \/ QueuePolicyCreate(r)
                         \/ ProcPolicyCheck(r) \/ ProcPolicyCreate(r)
  \/ \E s \in Scheds : SchedRun(s)

(* Workers poll continuously, each task of their queues in turn.          *)
Spec ==
  /\ Init /\ [][Next]_vars
  /\ \A r \in Requests : /\ WF_vars(QueuePolicyCheck(r))
                        /\ WF_vars(QueuePolicyCreate(r))
                        /\ WF_vars(ProcPolicyCheck(r))
                        /\ WF_vars(ProcPolicyCreate(r))
  /\ \A s \in Scheds : WF_vars(SchedRun(s))

-----------------------------------------------------------------------------
TypeOK ==
  /\ req \in [Requests -> {"idle", "queued", "read", "done"}]
  /\ sched \in [Policies -> Scheds \cup {NoSched}]
  /\ {created, modComplete, ended, started} \subseteq SUBSET Scheds

(* One scheduler per slot at a time: a handler only emplaces a new        *)
(* scheduler task once the previous one of its slot has gone through      *)
(* EndTask, so every live scheduler task is the one queue_sched_ or       *)
(* proc_sched_ points to.                                                 *)
OneScheduler ==
  \A s \in created \ ended : s = sched[SchedPolicy(s)]

(* Every policy request is eventually completed: the old scheduler does  *)
(* reach EndTask after the handler marks it, so the retries end.          *)
RequestsComplete ==
  \A r \in Requests : req[r] = "queued" ~> req[r] = "done"

=============================================================================
