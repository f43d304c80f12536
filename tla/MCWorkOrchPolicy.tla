-------------------------- MODULE MCWorkOrchPolicy --------------------------
EXTENDS WorkOrchPolicy

(* Three policy requests and the scheduler task each one creates.         *)
MCNewSched == [r \in Requests |-> CASE r = "r1" -> "s1"
                                    [] r = "r2" -> "s2"
                                    [] r = "r3" -> "s3"]

(* r1 and r2 set the queue policy, r3 the process policy.                *)
MCPolicies == [r \in Requests |-> IF r = "r3" THEN "proc" ELSE "queue"]

(* All requests in the admin lane of worker w1.                           *)
MCOneLane == [r \in Requests |-> "w1"]

(* r2 routed to the admin lane of worker w2.                              *)
MCTwoLanes == [r \in Requests |-> IF r = "r2" THEN "w2" ELSE "w1"]

=============================================================================
