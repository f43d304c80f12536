--------------------------- MODULE MCFlushBarrier ---------------------------
(* Model-checking instance of FlushBarrier. *)
EXTENDS FlushBarrier

CONSTANTS t1, t2, f1, f2

MCTasks == {t1, t2}
MCFlushTasks == {f1, f2}
MCFlushTask1 == {f1}

=============================================================================
