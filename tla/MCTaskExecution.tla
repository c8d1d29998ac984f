--------------------------- MODULE MCTaskExecution ---------------------------
(* Instances of TaskExecution for TLC: two executions of one task. *)
EXTENDS TaskExecution, TLC

CONSTANTS x1, x2

Symmetry == Permutations(Execs)
=============================================================================
