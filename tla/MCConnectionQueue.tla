-------------------------- MODULE MCConnectionQueue --------------------------
(* Instances of ConnectionQueue for TLC: one or two connections, up to four tasks. *)
EXTENDS ConnectionQueue, TLC

CONSTANTS c1, c2, t1, t2, t3, t4, k1, k2

SameConn == [t \in Tasks |-> k1]
ConnMost == [t \in Tasks |-> IF t = t4 THEN k2 ELSE k1]
LimitOne == [k \in Conns |-> 1]
LimitTwo == [k \in Conns |-> 2]
NoLimits == {}
LowerToOne == {1}
Zero == {0}

Symmetry == Permutations(Tasks) \cup Permutations(Callers)
=============================================================================
