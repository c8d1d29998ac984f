---------------------------- MODULE CronScheduler ----------------------------
(***************************************************************************)
(* The cron of one project: requests that start and stop it, and the       *)
(* executors Celery runs for it.  All of them share folder_metadata of the *)
(* project document (cron_status and latest_heartbeat), which each reads   *)
(* in one request and writes back in a later one.                          *)
(***************************************************************************)
EXTENDS Integers, FiniteSets

CONSTANTS
    Requests,      \* requests to /cron/manage that may overlap
    Executors,     \* executors that may be alive at the same time
    Patient,       \* the user waits: one request at a time, no start while STOP is shown
    Faults,        \* the kinds of failure that may happen
    MaxFaults,     \* bound: failures in a behaviour
    MaxRequests    \* bound: accepted requests in a behaviour

FaultKinds == {"executor_lost", "start_error", "publish_failed", "heartbeat_failed",
               "reply_lost", "late_write", "work_timeout", "slow_heartbeat"}

ASSUME CronAssumption ==
    /\ IsFiniteSet(Executors)
    /\ Patient \in BOOLEAN
    /\ Faults \subseteq FaultKinds
    /\ MaxFaults \in Nat /\ MaxRequests \in Nat

VARIABLES
    status,     \* folder_metadata.cron_status
    fresh,      \* latest_heartbeat is at most three intervals old
    req,        \* where each request is
    messages,   \* run_cron messages Celery has not delivered
    pc,         \* where each executor is
    seen,       \* cron_status in the copy of folder_metadata an executor holds
    late,       \* values of cron_status in requests given up by their executor, still on their way
    awaiting,   \* executors whose work loop awaits run_multiple_tasks
    calls,      \* run_multiple_tasks calls of each executor that the API still executes
    used        \* how much of each bound is used

project == <<status, fresh>>
executor == <<pc, seen, awaiting, calls>>
vars == <<project, req, messages, executor, late, used>>

CronStatus == {"NONE", "STARTED", "RUNNING", "STOP", "STOPPED", "ERROR"}

\* The stop event is not set, and no answer on its way will set it.
Looping(e) == pc[e] \in {"loop", "beat"} \/ (pc[e] = "written" /\ seen[e] # "STOP")
Alive(e) == pc[e] # "off"

\* A failure of the given kind happens, within the bound on failures.
Fault(kind) ==
    /\ kind \in Faults
    /\ used.faults < MaxFaults
    /\ used' = [used EXCEPT !.faults = @ + 1]

Init ==
    /\ status = "NONE"
    /\ fresh = FALSE
    /\ req = [r \in Requests |-> "idle"]
    /\ messages = 0
    /\ pc = [e \in Executors |-> "off"]
    /\ seen = [e \in Executors |-> "NONE"]
    /\ late = {}
    /\ awaiting = {}
    /\ calls = [e \in Executors |-> 0]
    /\ used = [faults |-> 0, requests |-> 0]

-----------------------------------------------------------------------------
(* CronManager: a check, then a write, then the message                    *)

\* Mutant: the age of the heartbeat is not looked at.
CronExistsByStatus == status \in {"STARTED", "RUNNING"}

\* Mutant: only a cron that runs already is seen.
CronExistsOnceRunning == status = "RUNNING" /\ fresh

\* _cron_exists: the status says it runs and the heartbeat is not stale.
CronExists == status \in {"STARTED", "RUNNING"} /\ fresh

Request(r, step) ==
    /\ req[r] = "idle"
    /\ used.requests < MaxRequests
    /\ used' = [used EXCEPT !.requests = @ + 1]
    /\ Patient => \A q \in Requests : req[q] = "idle"
    /\ req' = [req EXCEPT ![r] = step]

\* A start that is not refused with 409; nothing holds the result of the check.
StartChecks(r) ==
    /\ ~CronExists
    /\ Patient => status # "STOP"
    /\ Request(r, "start")
    /\ UNCHANGED <<project, messages, executor, late>>

StartWrites(r) ==
    /\ req[r] = "start"
    /\ status' = "STARTED"
    /\ fresh' = TRUE
    /\ req' = [req EXCEPT ![r] = "send"]
    /\ UNCHANGED <<messages, executor, late, used>>

StartSends(r) ==
    /\ req[r] = "send"
    /\ messages' = messages + 1
    /\ req' = [req EXCEPT ![r] = "idle"]
    /\ UNCHANGED <<project, executor, late, used>>

\* run_cron raises in the broker: the status stays STARTED.
StartSendFails(r) ==
    /\ req[r] = "send"
    /\ Fault("publish_failed")
    /\ req' = [req EXCEPT ![r] = "idle"]
    /\ UNCHANGED <<project, messages, executor, late>>

\* A stop that is not refused with 404.
StopChecks(r) ==
    /\ CronExists
    /\ Request(r, "stop")
    /\ UNCHANGED <<project, messages, executor, late>>

StopWrites(r) ==
    /\ req[r] = "stop"
    /\ status' = "STOP"
    /\ fresh' = TRUE
    /\ req' = [req EXCEPT ![r] = "idle"]
    /\ UNCHANGED <<messages, executor, late, used>>

-----------------------------------------------------------------------------
(* CronExecutor.run                                                        *)

\* Celery delivers a run_cron message; run() reads the project.
Deliver(e) ==
    /\ messages > 0
    /\ pc[e] = "off" /\ calls[e] = 0
    /\ messages' = messages - 1
    /\ seen' = [seen EXCEPT ![e] = status]
    /\ pc' = [pc EXCEPT ![e] = "starting"]
    /\ UNCHANGED <<project, req, awaiting, calls, late, used>>

\* What an executor stores next: STOPPED to acknowledge a stop, RUNNING to begin, and
\* otherwise the value of its copy.
Stores(e) ==
    CASE seen[e] = "STOP" -> {"STOPPED"}
      [] seen[e] # "STOP" /\ pc[e] = "beat" -> {seen[e]}
      [] OTHER -> IF seen[e] \in {"STOPPED", "ERROR"} THEN {} ELSE {"RUNNING"}

\* run() acts on the copy: it leaves, acknowledges a stop, or writes RUNNING over
\* whatever was stored since.
Run(e) ==
    /\ pc[e] = "starting"
    /\ \/ /\ Stores(e) = {}
          /\ pc' = [pc EXCEPT ![e] = "off"]
          /\ UNCHANGED project
       \/ /\ status' \in Stores(e) /\ fresh' = TRUE
          /\ pc' = [pc EXCEPT ![e] = IF seen[e] = "STOP" THEN "off" ELSE "loop"]
    /\ UNCHANGED <<req, messages, seen, late, awaiting, calls, used>>

\* A request of run() fails, perhaps after it was carried out: run_cron stores ERROR,
\* which may fail too, and re-raises.
RunRaises(e) ==
    /\ pc[e] = "starting"
    /\ Fault("start_error")
    /\ \/ UNCHANGED project
       \/ status' \in Stores(e) \cup {"ERROR"} /\ fresh' = TRUE
    /\ pc' = [pc EXCEPT ![e] = "off"]
    /\ UNCHANGED <<req, messages, seen, late, awaiting, calls>>

\* The heartbeat loop reads the project; a final status ends it.
HeartbeatReads(e) ==
    /\ pc[e] = "loop"
    /\ seen' = [seen EXCEPT ![e] = status]
    /\ pc' = [pc EXCEPT ![e] = IF status \in {"STOPPED", "ERROR"} THEN "halted" ELSE "beat"]
    /\ UNCHANGED <<project, req, messages, late, awaiting, calls, used>>

\* The API stores the whole copy, with STOPPED where the copy said STOP.
HeartbeatWrites(e) ==
    /\ pc[e] = "beat"
    /\ status' \in Stores(e) /\ fresh' = TRUE
    /\ pc' = [pc EXCEPT ![e] = "written"]
    /\ UNCHANGED <<req, messages, seen, late, awaiting, calls, used>>

\* Mutant: the executor acknowledges the stop and keeps looping.
HeartbeatKeepsLooping(e) ==
    /\ pc[e] = "written"
    /\ pc' = [pc EXCEPT ![e] = "loop"]
    /\ UNCHANGED <<project, req, messages, seen, late, awaiting, calls, used>>

\* The answer arrives: only now does the loop go on, or set the stop event.
HeartbeatAnswered(e) ==
    /\ pc[e] = "written"
    /\ pc' = [pc EXCEPT ![e] = IF seen[e] = "STOP" THEN "halted" ELSE "loop"]
    /\ UNCHANGED <<project, req, messages, seen, late, awaiting, calls, used>>

\* The write fails, or its answer is lost: the error is logged and the loop goes on,
\* whether or not STOPPED was stored.
HeartbeatFails(e) ==
    /\ \/ pc[e] = "beat" /\ Fault("heartbeat_failed")
       \/ pc[e] = "written" /\ Fault("reply_lost")
    /\ pc' = [pc EXCEPT ![e] = "loop"]
    /\ UNCHANGED <<project, req, messages, seen, late, awaiting, calls>>

\* An attempt to write is given up and will be carried out later; the client tries again.
WriteGivenUp(e) ==
    /\ pc[e] \in {"starting", "beat"}
    /\ Fault("late_write")
    /\ late' = late \cup Stores(e)
    /\ UNCHANGED <<project, req, messages, executor>>

\* The API carries out a write that was given up, with the heartbeat of its time.
LateWrite ==
    /\ \E s \in late : status' = s /\ late' = late \ {s}
    /\ fresh' \in BOOLEAN
    /\ UNCHANGED <<req, messages, executor, used>>

\* The work loop asks the API to run the tasks that are due.
WorkCalls(e) ==
    /\ pc[e] \in {"loop", "beat", "written"}
    /\ e \notin awaiting
    /\ calls' = [calls EXCEPT ![e] = @ + 1]
    /\ awaiting' = awaiting \cup {e}
    /\ UNCHANGED <<project, req, messages, pc, seen, late, used>>

WorkReturns(e) ==
    /\ e \in awaiting
    /\ calls' = [calls EXCEPT ![e] = @ - 1]
    /\ awaiting' = awaiting \ {e}
    /\ UNCHANGED <<project, req, messages, pc, seen, late, used>>

\* The client gives up after its timeout; the API goes on with the call.
WorkTimesOut(e) ==
    /\ e \in awaiting
    /\ Fault("work_timeout")
    /\ awaiting' = awaiting \ {e}
    /\ UNCHANGED <<project, req, messages, pc, seen, calls, late>>

\* Mutant: calls that were never made end.
AnyCallEnds(e) ==
    /\ calls' = [calls EXCEPT ![e] = @ - 1]
    /\ UNCHANGED <<project, req, messages, pc, seen, awaiting, late, used>>

\* A call nobody waits for ends.
OrphanedCallEnds(e) ==
    /\ calls[e] > IF e \in awaiting THEN 1 ELSE 0
    /\ calls' = [calls EXCEPT ![e] = @ - 1]
    /\ UNCHANGED <<project, req, messages, pc, seen, awaiting, late, used>>

\* gather returns when the work loop has seen the stop event, between two calls.
Exit(e) ==
    /\ pc[e] = "halted" /\ e \notin awaiting
    /\ pc' = [pc EXCEPT ![e] = "off"]
    /\ UNCHANGED <<project, req, messages, seen, awaiting, calls, late, used>>

\* The worker process is killed; the message was acknowledged when it was delivered.
ExecutorLost(e) ==
    /\ Alive(e)
    /\ Fault("executor_lost")
    /\ pc' = [pc EXCEPT ![e] = "off"]
    /\ awaiting' = awaiting \ {e}
    /\ UNCHANGED <<project, req, messages, seen, calls, late>>

\* Three intervals pass without a write: expected when no executor is there or on its way,
\* a failure of the deployment when one is.
GoStale ==
    /\ fresh
    /\ fresh' = FALSE
    /\ IF /\ \A e \in Executors : pc[e] \in {"off", "halted"}
          /\ messages = 0
          /\ \A r \in Requests : req[r] # "send"
         THEN UNCHANGED used ELSE Fault("slow_heartbeat")
    /\ UNCHANGED <<status, req, messages, executor, late>>

-----------------------------------------------------------------------------
RequestStep(r) ==
    \/ StartChecks(r) \/ StartWrites(r) \/ StartSends(r) \/ StartSendFails(r)
    \/ StopChecks(r) \/ StopWrites(r)

ExecutorStep(e) ==
    \/ Run(e) \/ HeartbeatReads(e) \/ HeartbeatWrites(e) \/ HeartbeatAnswered(e)
    \/ WorkCalls(e) \/ WorkReturns(e) \/ OrphanedCallEnds(e) \/ Exit(e)

ExecutorFault(e) ==
    \/ RunRaises(e) \/ HeartbeatFails(e) \/ WriteGivenUp(e) \/ WorkTimesOut(e)
    \/ ExecutorLost(e)

Next ==
    \/ \E r \in Requests : RequestStep(r)
    \/ \E e \in Executors : Deliver(e) \/ ExecutorStep(e) \/ ExecutorFault(e)
    \/ LateWrite \/ GoStale

Spec == Init /\ [][Next]_vars

\* Celery delivers, an executor's coroutines go on, the API answers, time passes and a
\* request that was accepted is carried out.  No request is ever assumed to arrive.
Fairness ==
    /\ WF_vars(\E e \in Executors : Deliver(e))
    /\ \A e \in Executors :
          /\ WF_vars(Run(e)) /\ WF_vars(HeartbeatReads(e)) /\ WF_vars(HeartbeatWrites(e))
          /\ WF_vars(HeartbeatAnswered(e))
          /\ WF_vars(WorkReturns(e)) /\ WF_vars(OrphanedCallEnds(e)) /\ WF_vars(Exit(e))
    /\ WF_vars(GoStale)
    /\ \A r \in Requests :
          WF_vars(StartWrites(r)) /\ WF_vars(StartSends(r)) /\ WF_vars(StopWrites(r))

FairSpec == Spec /\ Fairness

-----------------------------------------------------------------------------
TypeOK ==
    /\ status \in CronStatus
    /\ fresh \in BOOLEAN
    /\ req \in [Requests -> {"idle", "start", "send", "stop"}]
    /\ messages \in Nat
    /\ pc \in [Executors -> {"off", "starting", "loop", "beat", "written", "halted"}]
    /\ seen \in [Executors -> CronStatus]
    /\ late \subseteq CronStatus
    /\ awaiting \subseteq Executors
    /\ calls \in [Executors -> Nat]
    /\ used \in [faults : 0..MaxFaults, requests : 0..MaxRequests]

\* A project has one scheduler: at most one executor loops, and another can only be there
\* to finish the call it is in, or to wait for the answer that sets its stop event.
OneExecutor == \A e, d \in Executors : Looping(e) /\ Looping(d) => e = d

\* STOPPED is final for the executor: when the project shows it, no executor will read the
\* project again, whatever it is told later.
StoppedMeansHalted ==
    status = "STOPPED" => \A e \in Executors : ~Looping(e)

\* What the tests and the docs read into STOPPED: nothing the cron began is going on.
StoppedMeansQuiet == status = "STOPPED" => \A e \in Executors : calls[e] = 0

\* A stop that was stored is carried out.
StopIsObeyed == status = "STOP" ~> status = "STOPPED"

\* A project that claims a running cron has an executor that loops, or the claim expires
\* and a start is accepted again: no interleaving of requests, executors and failures
\* leaves a project that runs nothing and refuses to be started.
ClaimHoldsOrExpires == CronExists ~> (\E e \in Executors : Looping(e)) \/ ~CronExists

\* The documented recovery: a cron whose heartbeat is stale is started again.
StaleCronIsRestarted ==
    status \in {"STARTED", "RUNNING"} /\ ~fresh ~> (\E e \in Executors : Looping(e))
=============================================================================
