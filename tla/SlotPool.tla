------------------------------- MODULE SlotPool -------------------------------
(***************************************************************************)
(* What a connection promises: a pool of max_parallelism slots.  Tasks     *)
(* wait, are granted free slots and give them back.                        *)
(***************************************************************************)
EXTENDS Integers

CONSTANTS Conns, Capacity

VARIABLES held, waiting

poolVars == <<held, waiting>>

Init ==
    /\ held = [k \in Conns |-> 0]
    /\ waiting = [k \in Conns |-> 0]

Arrive(k) ==
    /\ waiting'[k] > waiting[k]
    /\ waiting' = [waiting EXCEPT ![k] = waiting'[k]]
    /\ UNCHANGED held

\* Only tasks that wait are granted slots, and only slots that are free.
Grant(k) ==
    \E n \in 1..waiting[k] :
        /\ held[k] + n <= Capacity[k]
        /\ held' = [held EXCEPT ![k] = @ + n]
        /\ waiting' = [waiting EXCEPT ![k] = @ - n]

Release(k) ==
    /\ held[k] > 0
    /\ held' = [held EXCEPT ![k] = @ - 1]
    /\ UNCHANGED waiting

Next == \E k \in Conns : Arrive(k) \/ Grant(k) \/ Release(k)

Spec == Init /\ [][Next]_poolVars
=============================================================================
