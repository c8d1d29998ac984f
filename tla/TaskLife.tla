------------------------------ MODULE TaskLife ------------------------------
(***************************************************************************)
(* What the states of a task promise: the task has one lease, which it     *)
(* takes when it is queued and keeps until its run has ended.  Whoever has *)
(* the lease is the only one to say how the run goes; a user may cancel    *)
(* what is not under way.                                                  *)
(***************************************************************************)

VARIABLES status, phase

lifeVars == <<status, phase>>

Final == {"success", "fail", "cancelled", "error", "timeout"}
UnderWay == {"queued_for_connection", "queued_in_redis", "running"}

Init == status = "scheduled" /\ phase = "free"

Moves(from, to) == phase = from /\ phase' = to

\* The task takes its lease, is sent to a worker and begins; the state that
\* says so may not be stored.
Enqueue == Moves("free", "waiting") /\ status' = "queued_for_connection"
Send == Moves("waiting", "sent") /\ status' = "queued_in_redis"
Begin == Moves("sent", "executing") /\ status' \in {status, "running"}
Report == Moves("executing", "executing") /\ status' = "running"

\* The run ends, and then gives the lease back.
Conclude == Moves("executing", "closing") /\ status' \in Final
Release == Moves("closing", "free") /\ UNCHANGED status

\* The run is gone, or has failed to say how it ended, or nobody knows that it has said
\* so: the lease has no owner, and nobody takes it back.
Lose ==
    /\ \E from \in {"sent", "executing", "closing"} : Moves(from, "abandoned")
    /\ status' = status \/ (phase = "executing" /\ status' \in Final)

Cancel == status \notin UnderWay /\ status' = "cancelled" /\ UNCHANGED phase

Next ==
    \/ Enqueue \/ Send \/ Begin \/ Report \/ Conclude \/ Release
    \/ Lose \/ Cancel

Spec == Init /\ [][Next]_lifeVars
=============================================================================
