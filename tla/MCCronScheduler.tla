--------------------------- MODULE MCCronScheduler ---------------------------
(* Instances of CronScheduler for TLC: one or two requests, two executors. *)
EXTENDS CronScheduler, TLC

CONSTANTS r1, r2, e1, e2

Symmetry == Permutations(Requests) \cup Permutations(Executors)
=============================================================================
