------------------------- MODULE CronSchedulerProofs -------------------------
(***************************************************************************)
(* Theorems about CronScheduler, for every number of requests, executors   *)
(* and failures.                                                           *)
(***************************************************************************)
EXTENDS CronScheduler, TLAPS

\* No write of an executor is stored without its executor knowing of it in time.
WritesAnswered == Faults \cap {"slow_heartbeat", "reply_lost", "late_write"} = {}

\* The cron has a ticket when a start is under way, its message waits or an executor has it.
\* An executor that has stored STOPPED has none any more, although it waits for its answer.
Active(e) == pc[e] = "starting" \/ Looping(e)
NobodyActive == \A e \in Executors : ~Active(e)
NobodySends == \A r \in Requests : req[r] # "send"

\* One ticket at a time, and none while the status lets a new start through.
TicketInv ==
    /\ \A e, d \in Executors : Active(e) /\ Active(d) => e = d
    /\ messages \in {0, 1}
    /\ messages = 1 => NobodyActive
    /\ \A r \in Requests : req[r] \in {"start", "send"} => messages = 0 /\ NobodyActive
    /\ \A r, q \in Requests : req[r] # "idle" /\ req[q] # "idle" => r = q
    /\ status \in {"NONE", "STOPPED", "ERROR"} => messages = 0 /\ NobodyActive /\ NobodySends
    /\ ~fresh => messages = 0 /\ NobodyActive /\ NobodySends
    /\ \A e \in Executors :
          pc[e] \in {"beat", "written"} => seen[e] \in {"STARTED", "RUNNING", "STOP"}
    /\ late = {}

-----------------------------------------------------------------------------
(* Type correctness                                                        *)

UsedType == [faults : 0..MaxFaults, requests : 0..MaxRequests]

\* Calls that are awaited exist, so that a reply never takes the count below zero.
AwaitedExist == \A e \in awaiting : calls[e] > 0

(* A fault keeps the type of the counters.                                   *)
LEMMA FaultUsed ==
  ASSUME NEW kind, TypeOK, Fault(kind)
  PROVE  used' \in UsedType
  BY CronAssumption DEF Fault, TypeOK, UsedType

(* Requests of users keep the types.                                         *)
LEMMA RequestTypes ==
  ASSUME TypeOK, NEW r \in Requests, NEW step \in {"start", "stop"}, Request(r, step)
  PROVE  used' \in UsedType /\ req' \in [Requests -> {"idle", "start", "send", "stop"}]
<1>1. used.requests < MaxRequests /\ used' = [used EXCEPT !.requests = @ + 1]
  BY DEF Request
<1>2. used \in UsedType
  BY DEF TypeOK, UsedType
<1>3. used' \in UsedType
  BY ONLY <1>1, <1>2, CronAssumption DEF UsedType
<1>. QED BY <1>3 DEF Request, TypeOK

(* What an executor stores is a status.                                      *)
LEMMA StoredTypes ==
  ASSUME TypeOK, NEW e \in Executors
  PROVE  Stores(e) \subseteq CronStatus
  BY DEF Stores, TypeOK, CronStatus

(* So does every step.                                                       *)
LEMMA StepTypes ==
  ASSUME TypeOK, AwaitedExist, Next
  PROVE  TypeOK' /\ AwaitedExist'
<1> USE CronAssumption
<1>1. ASSUME NEW r \in Requests, RequestStep(r) PROVE TypeOK' /\ AwaitedExist'
  <2>1. CASE StartChecks(r)
    BY <2>1, RequestTypes DEF StartChecks, TypeOK, AwaitedExist, project, executor, UsedType
  <2>2. CASE StopChecks(r)
    BY <2>2, RequestTypes DEF StopChecks, TypeOK, AwaitedExist, project, executor, UsedType
  <2>3. CASE StartWrites(r) \/ StopWrites(r)
    BY <2>3 DEF StartWrites, StopWrites, TypeOK, AwaitedExist, executor, CronStatus
  <2>4. CASE StartSends(r)
    BY <2>4 DEF StartSends, TypeOK, AwaitedExist, project, executor
  <2>5. CASE StartSendFails(r)
    BY <2>5, FaultUsed DEF StartSendFails, TypeOK, AwaitedExist, project, executor, UsedType
  <2>. QED BY <1>1, <2>1, <2>2, <2>3, <2>4, <2>5 DEF RequestStep
<1>2. ASSUME NEW e \in Executors, Deliver(e) PROVE TypeOK' /\ AwaitedExist'
  BY <1>2 DEF Deliver, TypeOK, AwaitedExist, project
<1>3. ASSUME NEW e \in Executors, ExecutorStep(e) PROVE TypeOK' /\ AwaitedExist'
  <2>1. CASE Run(e)
    BY <2>1, StoredTypes DEF Run, TypeOK, AwaitedExist, project
  <2>2. CASE HeartbeatReads(e)
    BY <2>2 DEF HeartbeatReads, TypeOK, AwaitedExist, project
  <2>3. CASE HeartbeatWrites(e)
    BY <2>3, StoredTypes DEF HeartbeatWrites, TypeOK, AwaitedExist
  <2>4. CASE WorkCalls(e)
    BY <2>4 DEF WorkCalls, TypeOK, AwaitedExist, project
  <2>5. CASE WorkReturns(e)
    BY <2>5 DEF WorkReturns, TypeOK, AwaitedExist, project
  <2>6. CASE OrphanedCallEnds(e)
    BY <2>6 DEF OrphanedCallEnds, TypeOK, AwaitedExist, project
  <2>7. CASE Exit(e)
    BY <2>7 DEF Exit, TypeOK, AwaitedExist, project
  <2>8. CASE HeartbeatAnswered(e)
    BY <2>8 DEF HeartbeatAnswered, TypeOK, AwaitedExist, project
  <2>. QED BY <1>3, <2>1, <2>2, <2>3, <2>4, <2>5, <2>6, <2>7, <2>8 DEF ExecutorStep
<1>4. ASSUME NEW e \in Executors, ExecutorFault(e) PROVE TypeOK' /\ AwaitedExist'
  <2>1. CASE RunRaises(e)
    <3>1. status' \in CronStatus /\ fresh' \in BOOLEAN
      BY <2>1, StoredTypes DEF RunRaises, TypeOK, project, CronStatus
    <3>. QED BY <2>1, <3>1, FaultUsed DEF RunRaises, TypeOK, AwaitedExist, UsedType
  <2>2. CASE HeartbeatFails(e)
    BY <2>2, FaultUsed DEF HeartbeatFails, TypeOK, AwaitedExist, project, UsedType
  <2>3. CASE WorkTimesOut(e)
    BY <2>3, FaultUsed DEF WorkTimesOut, TypeOK, AwaitedExist, project, UsedType
  <2>4. CASE ExecutorLost(e)
    BY <2>4, FaultUsed DEF ExecutorLost, TypeOK, AwaitedExist, project, UsedType
  <2>5. CASE WriteGivenUp(e)
    BY <2>5, FaultUsed, StoredTypes DEF WriteGivenUp, TypeOK, AwaitedExist, project, executor, UsedType
  <2>. QED BY <1>4, <2>1, <2>2, <2>3, <2>4, <2>5 DEF ExecutorFault
<1>5. CASE GoStale
  <2>1. used' \in UsedType
    BY <1>5, FaultUsed DEF GoStale, TypeOK, UsedType
  <2>. QED BY <1>5, <2>1 DEF GoStale, TypeOK, AwaitedExist, executor, UsedType
<1>6. CASE LateWrite
  BY <1>6 DEF LateWrite, TypeOK, AwaitedExist, executor
<1>. QED BY <1>1, <1>2, <1>3, <1>4, <1>5, <1>6 DEF Next

\* Every variable keeps its type; no reply is taken for a call that was never made.
THEOREM CronTypeCorrect == Spec => [](TypeOK /\ AwaitedExist)
<1>1. Init => TypeOK /\ AwaitedExist
  <2> SUFFICES ASSUME Init PROVE TypeOK /\ AwaitedExist
    OBVIOUS
  <2>1. used \in UsedType
    BY CronAssumption DEF Init, UsedType
  <2>. QED BY <2>1 DEF Init, TypeOK, AwaitedExist, CronStatus, UsedType
<1>2. TypeOK /\ AwaitedExist /\ [Next]_vars => TypeOK' /\ AwaitedExist'
  <2>1. TypeOK /\ AwaitedExist /\ UNCHANGED vars => TypeOK' /\ AwaitedExist'
    BY DEF vars, project, executor, TypeOK, AwaitedExist
  <2>. QED BY <2>1, StepTypes
<1>. QED BY <1>1, <1>2, PTL DEF Spec

-----------------------------------------------------------------------------
(* One executor, when the user waits and heartbeats arrive in time         *)

\* A user who waits cannot open a second request, and a start needs a free ticket.
LEMMA RequestKeepsTicket ==
  ASSUME Patient = TRUE, TypeOK, TicketInv, NEW r \in Requests, RequestStep(r)
  PROVE  TicketInv'
<1> USE DEF TicketInv, NobodyActive, NobodySends, Active, Looping
<1>1. CASE StartChecks(r)
  BY <1>1 DEF StartChecks, Request, CronExists, TypeOK, CronStatus, project, executor
<1>2. CASE StopChecks(r)
  BY <1>2 DEF StopChecks, Request, TypeOK, project, executor
<1>3. CASE StartWrites(r)
  BY <1>3 DEF StartWrites, TypeOK, executor
<1>4. CASE StopWrites(r)
  BY <1>4 DEF StopWrites, TypeOK, executor
<1>5. CASE StartSends(r)
  BY <1>5 DEF StartSends, TypeOK, project, executor
<1>6. CASE StartSendFails(r)
  BY <1>6 DEF StartSendFails, TypeOK, project, executor
<1>. QED BY <1>1, <1>2, <1>3, <1>4, <1>5, <1>6 DEF RequestStep

\* An executor takes over the ticket of its message and gives it up when it leaves.
LEMMA ExecutorKeepsTicket ==
  ASSUME WritesAnswered, TypeOK, TicketInv, NEW e \in Executors,
         Deliver(e) \/ ExecutorStep(e) \/ ExecutorFault(e)
  PROVE  TicketInv'
<1> USE DEF TicketInv, NobodyActive, NobodySends, Active, Looping
<1>1. CASE Deliver(e)
  BY <1>1 DEF Deliver, TypeOK, project
<1>2. CASE Run(e)
  BY <1>2 DEF Run, Stores, TypeOK, project
<1>3. CASE HeartbeatReads(e)
  BY <1>3 DEF HeartbeatReads, TypeOK, CronStatus, project
<1>4. CASE HeartbeatWrites(e)
  BY <1>4 DEF HeartbeatWrites, Stores, TypeOK
<1>5. CASE WorkCalls(e) \/ WorkReturns(e) \/ OrphanedCallEnds(e) \/ WorkTimesOut(e)
  BY <1>5 DEF WorkCalls, WorkReturns, OrphanedCallEnds, WorkTimesOut, project
<1>6. CASE Exit(e)
  BY <1>6 DEF Exit, TypeOK, project
<1>7. CASE RunRaises(e)
  BY <1>7 DEF RunRaises, Stores, TypeOK, project
<1>8. CASE HeartbeatFails(e)
  <2>1. pc[e] = "beat"
    BY <1>8 DEF HeartbeatFails, Fault, WritesAnswered
  <2>. QED BY <1>8, <2>1 DEF HeartbeatFails, TypeOK, project
<1>9. CASE ExecutorLost(e)
  BY <1>9 DEF ExecutorLost, TypeOK, project
<1>10. CASE HeartbeatAnswered(e)
  BY <1>10 DEF HeartbeatAnswered, TypeOK, project
<1>11. CASE WriteGivenUp(e)
  BY <1>11 DEF WriteGivenUp, Fault, WritesAnswered
<1>. QED BY <1>1, <1>2, <1>3, <1>4, <1>5, <1>6, <1>7, <1>8, <1>9, <1>10, <1>11
         DEF ExecutorStep, ExecutorFault

\* A heartbeat only goes stale when nobody has the ticket.
LEMMA StaleKeepsTicket ==
  ASSUME WritesAnswered, TypeOK, TicketInv, GoStale
  PROVE  TicketInv'
<1>1. /\ \A e \in Executors : pc[e] \in {"off", "halted"}
      /\ messages = 0
      /\ NobodySends
  BY DEF GoStale, Fault, NobodySends, WritesAnswered
<1>. QED BY <1>1 DEF GoStale, executor, TicketInv, NobodyActive, NobodySends, Active, Looping

\* Nothing is on its way.
LEMMA NoLateWrite ==
  ASSUME TicketInv PROVE ~LateWrite
  BY DEF TicketInv, LateWrite

(* With patient requests and timely heartbeats the invariant always holds.   *)
LEMMA TicketHolds ==
  ASSUME Patient = TRUE, WritesAnswered
  PROVE  Spec => []TicketInv
<1>1. Init => TicketInv
  BY DEF Init, TicketInv, NobodyActive, NobodySends, Active, Looping
<1>2. TypeOK /\ TicketInv /\ [Next]_vars => TicketInv'
  <2>1. TicketInv /\ UNCHANGED vars => TicketInv'
    BY DEF vars, project, executor, TicketInv, NobodyActive, NobodySends, Active, Looping
  <2>2. TypeOK /\ TicketInv /\ Next => TicketInv'
    BY RequestKeepsTicket, ExecutorKeepsTicket, StaleKeepsTicket, NoLateWrite DEF Next
  <2>. QED BY <2>1, <2>2
<1>. QED BY <1>1, <1>2, CronTypeCorrect, PTL DEF Spec

\* With a user who waits for STOPPED, heartbeats that arrive in time and writes that are
\* answered when they are stored, a project never has two executors, however executors die,
\* starts and messages fail and writes are refused.  A lost answer is enough to have two.
THEOREM OneExecutorHolds ==
  ASSUME Patient = TRUE, WritesAnswered
  PROVE  Spec => []OneExecutor
<1>1. TicketInv => OneExecutor
  BY DEF TicketInv, OneExecutor, Active
<1>. QED BY <1>1, TicketHolds, PTL

\* Under the same assumptions a project that shows STOPPED has no executor that loops.
THEOREM StoppedMeansHaltedHolds ==
  ASSUME Patient = TRUE, WritesAnswered
  PROVE  Spec => []StoppedMeansHalted
<1>1. TicketInv => StoppedMeansHalted
  BY DEF TicketInv, StoppedMeansHalted, NobodyActive, Active
<1>. QED BY <1>1, TicketHolds, PTL
=============================================================================
