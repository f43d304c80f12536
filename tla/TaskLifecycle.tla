--------------------------- MODULE TaskLifecycle ----------------------------
(***************************************************************************)
(* What the runtime promises about the life of a task (spec 3, 4.4, 4.5), *)
(* without workers, lanes or queues.  A root task is submitted by a       *)
(* client; a task may hand its work to the remote queue, or spawn its     *)
(* subtask and wait for it; a waiting task is only woken once the subtask *)
(* is done, a remote one once its reply arrives; a task ends at most once *)
(* and never while its subtask is still in flight; a task of an invalid   *)
(* pool may be dropped instead.                                            *)
(***************************************************************************)
CONSTANTS
  Tasks,
  Child,      \* [Tasks -> Tasks \cup {NoTask}]: the subtask a task may wait for
  NoTask,
  Droppable   \* tasks that can never run (their pool id is null)

VARIABLE status

States == {"none", "pending", "waiting", "remote", "done", "dropped"}

Roots == {t \in Tasks : \A p \in Tasks : Child[p] # t}

InFlight(t) == t # NoTask /\ status[t] \in {"pending", "waiting", "remote"}

Init == status = [t \in Tasks |-> "none"]

Submit(t) ==
  /\ t \in Roots /\ status[t] = "none"
  /\ status' = [status EXCEPT ![t] = "pending"]

(* The task spawns its subtask and waits for it, in one step.             *)
Wait(t) ==
  /\ status[t] = "pending"
  /\ Child[t] # NoTask /\ status[Child[t]] = "none"
  /\ status' = [status EXCEPT ![t] = "waiting", ![Child[t]] = "pending"]

Proxy(t) ==
  /\ status[t] = "pending"
  /\ status' = [status EXCEPT ![t] = "remote"]

Wakeable(t) ==
  \/ status[t] = "remote"
  \/ status[t] = "waiting" /\ status[Child[t]] = "done"

(* Any number of blocked tasks may be woken together.                     *)
Wake(S) ==
  /\ S # {} /\ \A t \in S : Wakeable(t)
  /\ status' = [t \in Tasks |-> IF t \in S THEN "pending" ELSE status[t]]

End(t) ==
  /\ status[t] = "pending"
  /\ ~InFlight(Child[t])
  /\ status' = [status EXCEPT ![t] = "done"]

Drop(t) ==
  /\ t \in Droppable /\ status[t] = "pending"
  /\ status' = [status EXCEPT ![t] = "dropped"]

Next ==
  \/ \E t \in Tasks : Submit(t) \/ Wait(t) \/ Proxy(t) \/ End(t) \/ Drop(t)
  \/ \E S \in SUBSET Tasks : Wake(S)

Spec == Init /\ [][Next]_status

=============================================================================
