# TLA+ models of the Chimaera worker runtime

These modules model the task-scheduling core of the runtime in
`src/include/chimaera/work_orchestrator/worker.h`. They also cover the parts of
the admin container, the client and the `small_message` container that the
scheduling depends on. Every action is written from the C++ source.
`PROJECT.json` maps each definition to the lines it translates.

## The system

A node runs a fixed set of **workers**. Each worker is a dedicated thread that
runs `Worker::Loop`. Its parts and how they interact:

| part | code | role |
|---|---|---|
| ingress lanes | `work_proc_queue_`, `work_inter_queue_` | Clients and tasks emplace tasks here (`Client::ScheduleTaskRuntime`). |
| routing | `IngestLane`, `Reroute` | For each lane head: run it here, drop it as "local worker", or mark it remote. |
| classifier | `PrivateTaskMultiQueue::push` | Sorts the task into construct / flush / long-running / new / low-latency / high-latency. |
| polling | `Run`, `PollPrivateQueue` | New once, then up to 8192 rounds of {inter lanes, construct, low-lat} while they find work, then high-lat, then long-running. Each poll drains a snapshot of the queue size. |
| execution | `RunTask`, `ExecTask`, `ExecCoroutine`, `CoroutineEntry` | Container lookup, the `ShouldRun` check, the remote proxy, and the coroutine body on a pooled stack. |
| completion | `EndTask`, `SignalUnblock`, `ProcessCompletions` | A completing task signals its waiter into the completion queue of the waiter's worker. Only that worker re-pushes it. |
| stack pool | `AllocateStack`, `FreeStack` | Per-worker `stacks_`, with a `malloc` fallback. |
| flush barrier | `BeginFlush`, `EndFlush`, `AnyFlushing`, `AnyFlushWorkDone`, admin `Flush` | A worker holding a Flush task raises every worker's `flushing_` flag. Each worker lowers its own flag after a `Run(true)` pass and spins until all flags are down. The Flush task completes once its worker's flag is down. |

Only the completion queue and the flush flags cross threads. `SignalUnblock`
is called by other workers and by the remote queue. The flags are read and
written by every worker without synchronisation beyond word atomicity.

## Modules

### `FlushBarrier` (with `MCFlushBarrier`)

This module models `Loop` and its flush branch, for `NumWorkers` workers.

- Each step that another worker can observe is its own action:
  - `LoopTop` reads `flushing_` and the size of the flush queue.
  - `BeginFlush` takes the flush-iteration test.
  - `RaiseFlag` is one iteration of the loop that raises all flags.
  - `RaiseDone` is `++flush_iter_`.
  - `EndFlushClear` lowers the worker's own flag.
  - `AnyFlushing` reads one flag of the scan. A raised flag restarts the scan from worker 0.
  - `EndFlushPost` is the code after the spin.
- `Run(flushing)` is one step, `RunPass`, because it touches no flag. Any
  subset of the worker's ordinary tasks completes. With `flushing` set, the
  others make `count_` differ from `work_done_`; the model keeps only that
  difference, `workUncounted`.
- `RunPassThrows` is an exception caught by Loop's `try`. It skips `EndFlush`.
  Its count is bounded by `MaxExceptions`.
- `AnyFlushWorkDone` is `FALSE`, as the code computes it (see the findings).
- `FlushCompletes` is the admin `Server::Flush`.
- Shutdown is a separate next-state relation, `NextWithStop` with
  `SpecWithStop`, used only by the run that asks what a stop does
  (flush_stop). `StopRuntime` is admin `Server::StopRuntime` turning
  `IsAlive` false. `LoopTop` is only enabled while alive. `WorkerExit` is a
  worker at the top of `Loop` seeing it false: the final `Run(true)` (any
  subset of its tasks completes) and the exit. A worker inside the
  `EndFlush` spin never tests `IsAlive` again.
- History variables:
  - `snap`: the tasks outstanding when each Flush task was submitted.
  - `ranInRound`: whether the worker has done a full `Run(true)` pass since its flag was last raised.

### `WorkerSched` (with `MCWorkerSched`)

This module models the task life cycle across workers. It covers `Run(false)`
and does not model flushing.

- `phase` follows `Run`: `ingestProc`, `pollNew`, then rounds of
  {`ingestInter`, `pollConstruct`, `pollLowLat`} up to `RoundCap`, then
  `pollHighLat` and `pollLongRun`.
- Ingestion:
  - `IngestOne` handles one task at a lane head. It calls `Reroute`, marks the
    task remote if needed, and then either pops it as kLocalWorker or pushes it
    to the classifier.
  - `IngestLaneDone` ends a lane. This happens when the lane is empty or the push fails.
  - `IngestEnd` takes the snapshot size for the next `PollPrivateQueue`.
- `RunTask` is split by its outcome:
  - `RunTaskNoContainer`: a null pool is force-completed; a missing container is retried.
  - `RunTaskComplete`: the task is already module-complete.
  - `RunTaskNotDue`: `ShouldRun` is false.
  - `RunTaskRemote`: the task is blocked and proxied to the remote queue.
  - `RunTaskBody`: the coroutine runs, and one of these follows:
    - finish: `EndTask`; an admin construction task makes its pool exist;
    - return unfinished: the stack is freed;
    - yield: the task keeps its stack;
    - wait on its subtask: the subtask is emplaced like `ScheduleTaskRuntime` and the task blocks.
- `EndTask(w, t)` signals the parent into the completion queue of the
  parent's owner (`SignalUnblock`). `EndTaskComplete(w)` is the `SetComplete`
  that follows it in the code. `SetComplete` is a separate step, because the
  parent's worker can act on the signal in between. Until that step, the
  worker takes no other step: `completing[w]` names the task. `complete` is
  the set of tasks with the complete flag. A task without a waiter is marked
  complete inside `EndTask`. `PollEnd` runs `ProcessCompletions` and moves to
  the next phase.
- `RunTaskRemoteThrows` is the remote branch of `ExecTask` with an
  `hshm::Error` from `AsyncClientPushSubmitBase`, after `SetBlocked` and
  `active_.block`. The exception unwinds to `Loop`'s catch, which restarts
  `Run` from the top. It is bounded by `MaxThrows`. It is the fault model of
  this module: it belongs to `NextWithThrows` and `SpecWithThrows`, not to
  `Next`, so that only the run asking what the fault does includes it.
- Lane assignment: `PollQueues(w)` is the orchestrator's call that emplaces
  the worker's lanes into `poll_queues_` (`pollQ`). `ApplyPollQueues(w)` is
  `_PollQueues` at the top of `Run`: each lane goes to `work_proc_queue_`
  (`workProc`) if it belongs to the process queue, and to
  `work_inter_queue_` (`workInter`) otherwise. It is part of the step that
  starts a `Run` (the end of `PollEnd`, or the restart after a throw).
  With `LateAssign = FALSE` the lanes are in the work queues from the start;
  with `LateAssign = TRUE` (life run) they arrive later, and tasks can be
  emplaced into a lane that no worker polls yet.
- `RemoteReply` is the remote queue answering. It is modelled from the spec
  because the remote queue is not under `src/`.
- RunTask is one step of the owning worker. This is sound for what other
  threads can see, for two reasons. A signal to the task's owner is buffered
  in the owner's completion queue, which only the owner drains. A child is
  emplaced in a lane inside the step.
- Each task is a model value. The constants describe the task's flags and its
  routing:
  - `TaskPool`, `Creates`, `Child`, `Resolution`, `HomeLane`: the pool, the pool it constructs, its subtask, how its query resolves, and its submission lane;
  - `LongRunning`, `LowLatency`: the long-running and low-latency flags;
  - `RouteStable`: whether `Container::Route` returns the same lane on every call. `small_message` increments a counter on every call, so it does not.

### `TaskLifecycle` (abstract) and the refinement

`TaskLifecycle` states what the runtime promises of each task, with no
workers or queues. A task is `none`, `pending`, `waiting` (for its subtask),
`remote`, `done` or `dropped`. A waiting task is woken only after its
subtask is done; a task ends only when its subtask is not in flight; only a
null-pool task may be dropped. `WorkerSched` defines `LifeStage(t)` from its
own state: `ended` is done; module-complete with a null pool is dropped;
blocked and remote is remote; blocked otherwise is waiting; any other
submitted task is pending. `Lifecycle == INSTANCE TaskLifecycle WITH status
<- ...` and the property `ImplementsLifecycle == Lifecycle!Spec` check that
every step of `WorkerSched` is a step of the abstract life cycle or leaves it
unchanged.

### `WorkOrchPolicy` (with `MCWorkOrchPolicy`)

This module models the admin handlers `SetWorkOrchQueuePolicy` and
`SetWorkOrchProcPolicy`. They are the same code on two slots of the admin
container, `queue_sched_` and `proc_sched_`: the variable `sched` maps
`"queue"` and `"proc"` to them. `HandlerCheck(r, p)` and
`HandlerCreate(r, p)` are the shared parts. `QueuePolicyCheck`/`Create` and
`ProcPolicyCheck`/`Create` are the two handlers, one per slot. It also models
how `RunTask` treats the long-running `ScheduleTask` that the handler marks
module-complete from another thread.

- `HandlerCheck` marks the slot's scheduler module-complete. If that task has not
  completed, it returns and the request is retried. Otherwise it goes on to
  `HandlerCreate`, which emplaces a new `ScheduleTask`, sets the slot
  and completes the request.
- One handler run is atomic with respect to its own worker (`Busy`). Runs on
  different workers interleave between the test and the write: this is the
  unsynchronised access to `queue_sched_`.
- `SchedRun` is `RunTask` on a scheduler task:
  - module-complete: `EndTask`;
  - otherwise the body returns, freeing its stack, or suspends if
    `SchedYields`.

## Runs

| run | cfg | expect | what it shows |
|---|---|---|---|
| flush_single | `FlushBarrier_single.cfg` | pass | 2 workers, Flush tasks routed to worker 0, 2 ordinary and 2 Flush tasks, one exception. **TypeOK**. **FlushRoundTerminates**: every spin ends. **FlushTaskCompletes**: every Flush task completes. |
| flush_drain | `FlushBarrier_drain.cfg` | violation | **FlushDrains**: a Flush task completes while a task outstanding at its submission is still pending. |
| flush_two | `FlushBarrier_two.cfg` | violation | **FlushRoundTerminates**: with Flush tasks at both workers, both spin forever. |
| sched_life | `WorkerSched_life.cfg` | pass | Stable Route, plus **ImplementsLifecycle**. An admin task constructs pool PP. `p` waits on its low-latency child `k` on the other worker. `r` goes through the remote queue and may arrive before PP exists. Lanes are handed over late through `PollQueues`, so tasks can wait in a lane no worker polls yet. Checks **SingleOwner**, **StackExclusive**, **EndTaskAtMostOnce**, **NoTaskLost** and **EveryTaskEnds** (every task whose pool exists eventually ends). |
| sched_safety | `WorkerSched_safety.cfg` | pass | As life, plus: Route may change lanes between calls; a null-pool off-node task `n`; `r` long-running; one-slot sub-queues, so a push can fail. Checks the safety properties. |
| sched_lost | `WorkerSched_lost.cfg` | violation | **NoTaskLost**: with an unstable Route, the kLocalWorker branch of `IngestLane` drops the task. |
| sched_nullpool | `WorkerSched_nullpool.cfg` | violation | **EveryTaskEnds**: `p` waits forever on a null-pool child, which is completed without `EndTask`. |
| flush_erase | `FlushBarrier_erase.cfg` | violation | **RaiseServed**: with Flush tasks at both workers, worker 1 raises worker 0's flag after worker 0's `Run(true)` pass, and worker 0's `EndFlush` lowers it again before any pass has served it. |
| flush_stop | `FlushBarrier_stop.cfg` | violation | Under `SpecWithStop`, **WorkersExit**: after `IsAlive` turns false, one worker exits with its flag raised. The other spins in `EndFlush` forever. |
| sched_throw | `WorkerSched_throw.cfg` | violation | Under `SpecWithThrows`, **NoTaskLost**: a throw from the proxy allocation leaves `r` blocked, in no queue and with no reply coming. |
| sched_wake | `WorkerSched_wake.cfg` | violation | **WokenAfterChildComplete** (action property): `k`'s worker signals `p` and, before its `SetComplete`, `p`'s worker drains the signal and unblocks `p`. |
| policy_serial | `WorkOrchPolicy_serial.cfg` | pass | 2 queue-policy requests and 1 process-policy request in one admin lane, with a scheduler that may suspend. **OneScheduler**: every live scheduler task is the one its slot (`queue_sched_` or `proc_sched_`) points to. **RequestsComplete**: every request completes. |

Each property of a passing run has a mutant in `PROJECT.json`. A mutant is a
plausible bug in the code that makes TLC report that property violated.

## Findings

1. `AnyFlushWorkDone` (worker.h:142-150) never assigns `ret`, so it always
   returns false. `flush_iter_` is never reset, and a Flush task completes
   after one round even if work remains (flush_drain). Spec §9 already flags
   this function as unclear.
2. Two workers holding Flush tasks can deadlock (flush_two). One worker is
   spinning in `EndFlush` when the other's `BeginFlush` raises its flag
   again. The spinning worker never lowers the flag.
3. `IngestLane` pops a kLocalWorker task and enqueues it nowhere
   (worker.h:262-263, sched_lost). Spec §4.3 requires a hand-off to the
   owning worker. This is reachable because `small_message::Route` is
   stateful.
4. A null-pool task is completed without `EndTask` (worker.h:367-371,
   sched_nullpool). A parent waiting on it is never signalled.

5. A worker can outlive shutdown (flush_stop). `Loop` tests `IsAlive` only at
   its top, and the `EndFlush` spin (worker.h:118) never tests it. A worker
   that exits with its flag raised leaves the spinner stuck.
6. An exception from `AsyncClientPushSubmitBase` (worker.h:447-449) loses the
   task (sched_throw). It comes after the task has been set blocked and taken
   off the active queue. Spec §7 says a task's failure is encoded in that
   task's state.
7. `EndTask` signals a subtask's waiter (worker.h:527-528) before it calls
   `SetComplete` (line 541) on the same task, and both happen on the
   subtask's thread (sched_wake). Spec §8 says `EndTask` runs exactly one of
   signal-unblock or mark-complete, never two. Spec §3 says the completed
   task is left for the waiter to collect. The woken parent can run before
   its subtask is complete. What follows depends on `Task::Wait`, which is
   outside `src/`. If `Wait` blocks again, no second signal ever comes. If
   the parent trusts the wake-up and frees the subtask (`DelTask` after
   `Wait`, as `small_message`'s client does), `SetComplete` writes freed
   memory.
8. A raise of a worker's flush flag can be erased unserved (flush_erase).
   `EndFlush` lowers the worker's own flag with a blind
   `flushing_ = false` (worker.h:117). If another worker's `BeginFlush`
   raised it after this worker's `Run(true)` pass, the raise is lost.
   Every `AnyFlushing` scan then reads the lowered flag as a finished
   flushing pass, so the barrier passes without this worker having
   flushed since the raise. With Flush tasks routed to one worker only,
   as in flush_single, the raise happens once before any scan and this
   cannot occur.

Two hazards of the policy swap are outside what the runs check, because
each depends on code outside `src/`:

- `queue_sched_` is read and written by the policy handler without
  synchronisation (chimaera_admin.cc:199-209). With one request on each of
  two workers, TLC finds **OneScheduler** violated: both handlers create a
  scheduler and the first is orphaned. Which worker runs an admin task is
  decided by the admin container's `Route`.
- `RunTask` ends a task marked module-complete by another thread without
  resuming it (worker.h:397-405). A suspended scheduler would keep its stack.
  This depends on whether the `ScheduleTask` body suspends.

## Bounds and why they are enough

- **2 workers.** Every cross-worker effect needs two: flags raised by another
  worker, a child on another worker, a signal into another worker's queue.
  More workers only lengthen the flag scan.
- **FlushBarrier** uses 2 ordinary and 2 Flush tasks. `IterCap = 2` is
  enough because `flush_iter_` is only compared with 0. `MaxExceptions = 1`.
- **WorkerSched** uses 4 tasks in the life run, which cover every classifier
  queue except flush. The safety run has 5.
  - `QueueCap = 2` in the life run and 1 in the safety run. With 1, a push fails.
  - `RoundCap = 2` stands for 8192: two rounds are enough for a round that
    finds work to be followed by another.
  - `MaxReruns = 1` bounds how often a body gives the worker back unfinished.
  - `LateAssign` is TRUE only in the life run: the late hand-over adds
    interleavings (a task in an unpolled lane, a worker mid-round while its
    entry waits in `poll_queues_`), and the safety run with it would exceed
    its time budget.
  - There are 4 stack addresses, one pooled per worker. The malloc fallback
    is therefore reached.

- **WorkOrchPolicy** uses 3 requests. Two are for the queue slot, so a
  request is retried while the scheduler created by an earlier one is still
  live. The third is for the process slot, so both slots and both handlers
  are exercised. It uses 2 workers, so
  handlers could overlap if admin
  tasks were routed to both.
- `MaxThrows = 1` in the fault run: a single throw already loses the task.
  The other runs use `Spec`, where the bound plays no part.

## Fairness

Each worker is a dedicated thread polling in a loop (`Loop`,
`EnableContinuousPolling`), so each gets weak fairness on its steps. The
remote queue gets weak fairness on replying to a proxied task. The
orchestrator gets weak fairness on `PollQueues`: the runtime hands every
worker its lanes at start-up. Clients get
none: they need not submit. In `WorkOrchPolicy` the handler's two parts and
`RunTask` on each scheduler are weakly fair for the same reason.

## Not modelled yet (plan for later sittings)

1. The admin `CreateTaskState` window. `UpdateDomains` runs before the
   container is registered, which lets `Reroute` dereference a null container.
2. Lane relinquishing and migration. `PollQueues`/`_PollQueues` are
   modelled, but `_RelinquishQueues` (worker.h:639-640) and `MigrateLane`
   have empty bodies, and nothing under `src/` calls them or `PollQueues`.
   A relinquish request would never be consumed; this is listed as a
   hazard. Each worker is therefore handed its lanes once.
3. An abstract specification of a flush as "complete only when quiescent",
   with `FlushBarrier` checked against it through a refinement mapping. It is
   expected to fail because of finding 1.
4. The classifier checked against the precedence list of spec §4.1 over all
   flag combinations.
5. Fire-and-forget tasks and the `ShouldSignalRemoteComplete` branch of
   `EndTask`.
6. The `cur_time_` refresh every 10000 iterations. The due-time predicate
   `ShouldRun` is outside `src/`.
7. `active_graphs_` (worker.h:436-443, 473-479). It is monitoring
   bookkeeping that the scheduler never reads. A root with a single task
   ends at -1 and is never erased. A unit test reaches this directly.
8. The `CreateTaskState` lock held across its broadcast `Wait`
   (chimaera_admin.cc:66, 128). Whether that deadlocks depends on the
   CoMutex's re-entrancy, which is decided outside `src/`.
9. `cur_task_` after a body finishes (worker.h:434). It still names the
   finished task, and `AllocateBufferSafe` yields whatever the current task
   is. No caller of `AllocateBufferSafe` is under `src/`.
10. Also not modelled: client initialisation, the configuration text and the
   stat tools. These are I/O without concurrent state.
