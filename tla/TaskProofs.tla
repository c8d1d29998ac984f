----------------------------- MODULE TaskProofs -----------------------------
(* Theorems about the life of a task: how it is executed (TaskExecution), its *)
(* actions (ActionRuns) and its place among those that wait (TaskOrder), for *)
(* any number of executions, requests, processes, failures and retries.      *)
EXTENDS TaskExecution, ActionRuns, TaskOrder, FiniteSetTheorems, TLAPS

-----------------------------------------------------------------------------
(* The executions of a task (TaskExecution)                                  *)

\* Nothing removes the task's entry but the finish_task of its run, in time.
OnlyRunsDequeue == MaxResets = 0 /\ "late_finish" \notin Faults

\* A step that is none of the two that remove an entry from under a run.
Undisturbed == ~ResetDequeues /\ ~Fault("late_finish")

\* The entry is the right to execute: it is there from before dispatch until the run has
\* written its final state; an operator's thread is at work for its poll loop only.
RunInv ==
    /\ OneExecution /\ RunHoldsItsSlot
    /\ state = "queued_for_connection" => entry /\ NobodyLive
    /\ \A x \in Execs : thread[x] = "runs" => pc[x] \in {"polling", "checking", "looking"}
    /\ late \subseteq {"running"} /\ ~resetting

\* What the scheduler has started is covered by the retries counted so far.
RetryInv ==
    /\ attempts <= retry + 1
    /\ attempts <= RunsAllowed
    /\ state \in {"scheduled", "success"} => attempts = 0
    /\ state \in Retryable => attempts <= retry
    /\ "cron" \in pending => attempts <= retry /\ attempts < RunsAllowed
    /\ \A x \in Execs : Live(x) /\ pc[x] # "finishing" => snapRetry[x] = retry

-----------------------------------------------------------------------------
(* Type correctness                                                        *)

UsedType == [faults : Nat, runs : Nat, cancels : Nat, resets : Nat]
PcType == {"none", "sent", "loading", "polling", "checking", "looking",
           "ending", "finishing", "posting"}
ThreadType == {"none", "runs", "left"}

(* Counting one up keeps the type of the counters.                           *)
LEMMA UsedGrows ==
  ASSUME TypeOK, NEW f \in {"faults", "runs", "cancels", "resets"},
         used' = [used EXCEPT ![f] = @ + 1]
  PROVE  used' \in UsedType
<1>1. used \in UsedType
  BY DEF TypeOK, UsedType
<1>2. CASE f = "faults"
  BY ONLY <1>1, <1>2, used' = [used EXCEPT ![f] = @ + 1] DEF UsedType
<1>3. CASE f = "runs"
  BY ONLY <1>1, <1>3, used' = [used EXCEPT ![f] = @ + 1] DEF UsedType
<1>4. CASE f = "cancels"
  BY ONLY <1>1, <1>4, used' = [used EXCEPT ![f] = @ + 1] DEF UsedType
<1>5. CASE f = "resets"
  BY ONLY <1>1, <1>5, used' = [used EXCEPT ![f] = @ + 1] DEF UsedType
<1>. QED BY <1>2, <1>3, <1>4, <1>5

(* So does a fault.                                                          *)
LEMMA FaultUsed ==
  ASSUME TypeOK, NEW kind, Fault(kind)
  PROVE  used' \in UsedType
  BY UsedGrows DEF Fault

(* An execution that goes to another step keeps the types of the steps.      *)
LEMMA GotoTypes ==
  ASSUME TypeOK, NEW x \in Execs, NEW from \in PcType, NEW to \in PcType, Goto(x, from, to)
  PROVE  pc' \in [Execs -> PcType]
  BY DEF Goto, TypeOK, PcType

(* An update that says running keeps the types of what it writes.            *)
LEMMA SaysRunningTypes ==
  ASSUME TypeOK, NEW failed, SaysRunning(failed)
  PROVE  /\ state' \in {state, "running"} /\ late' \subseteq {"running", "finish"}
         /\ used' \in UsedType
<1>1. CASE state' = "running" /\ UNCHANGED <<late, used>>
  BY <1>1 DEF TypeOK, UsedType
<1>2. CASE Fault(failed) /\ UNCHANGED <<state, late>>
  BY <1>2, FaultUsed DEF TypeOK
<1>3. CASE Fault("late_running") /\ late' = late \cup {"running"} /\ UNCHANGED state
  BY <1>3, FaultUsed DEF TypeOK
<1>. QED BY <1>1, <1>2, <1>3 DEF SaysRunning

(* Requests of users and of the cron keep the types.                         *)
LEMMA RequestTypes ==
  ASSUME TypeOK, NEW who \in {"cron", "user"},
         TimePasses \/ CronQuery \/ UserRun \/ UserCancel \/ ResetDequeues \/ ResetWrites
            \/ Submit(who) \/ Refused(who)
  PROVE  TypeOK'
<1> USE DEF doc, run, States, Active, Terminal, Retryable
<1>1. CASE TimePasses
  <2>1. due' \in BOOLEAN /\ retryDue' \in BOOLEAN
    BY <1>1, Zenon DEF TimePasses, TypeOK
  <2>. QED BY <1>1, <2>1 DEF TimePasses, TypeOK
<1>2. CASE CronQuery
  BY <1>2 DEF CronQuery, TypeOK
<1>3. CASE UserRun
  <2>1. used' \in UsedType
    BY <1>3, UsedGrows DEF UserRun
  <2>. QED BY <1>3, <2>1 DEF UserRun, TypeOK, UsedType
<1>4. CASE UserCancel
  <2>1. used' \in UsedType
    BY <1>4, UsedGrows DEF UserCancel
  <2>. QED BY <1>4, <2>1 DEF UserCancel, TypeOK, UsedType
<1>5. CASE ResetDequeues
  <2>1. used' \in UsedType
    BY <1>5, UsedGrows DEF ResetDequeues
  <2>. QED BY <1>5, <2>1 DEF ResetDequeues, TypeOK, UsedType
<1>6. CASE ResetWrites
  BY <1>6 DEF ResetWrites, TypeOK
<1>7. CASE Submit(who)
  <2>1. entry' \in BOOLEAN
    BY <1>7, Zenon DEF Submit, TypeOK
  <2>. QED BY <1>7, <2>1 DEF Submit, TypeOK
<1>8. CASE Refused(who)
  <2>1. used' \in UsedType
    BY <1>8, FaultUsed DEF Refused
  <2>. QED BY <1>8, <2>1 DEF Refused, TypeOK, UsedType
<1>. QED BY <1>1, <1>2, <1>3, <1>4, <1>5, <1>6, <1>7, <1>8

(* So do the steps of a worker.                                              *)
LEMMA WorkerTypes ==
  ASSUME TypeOK, NEW x \in Execs,
         Dispatch(x) \/ Worker(x) \/ StillRunning(x) \/ PollEnds(x)
  PROVE  TypeOK'
<1> USE ConstantsAssumption DEF doc, States, Active, Terminal, Retryable
<1>0. \A kind : Fault(kind) => used' \in UsedType
  BY FaultUsed
<1>00. \A s \in Terminal : [outcome EXCEPT ![x] = s] \in [Execs -> Terminal]
  BY DEF TypeOK
<1>000. LeaveThread(x) => thread' \in [Execs -> ThreadType]
  BY DEF LeaveThread, TypeOK, ThreadType
<1>1. CASE Dispatch(x)
  BY <1>1 DEF Dispatch, TypeOK, PcType
<1>2. CASE Begin(x)
  <2>1. pc' \in [Execs -> PcType]
    BY <1>2, GotoTypes DEF Begin, PcType
  <2>2. /\ state' \in {state, "running"} /\ late' \subseteq {"running", "finish"}
        /\ used' \in UsedType
    BY <1>2, SaysRunningTypes DEF Begin
  <2>. QED BY <1>2, <2>1, <2>2 DEF Begin, TypeOK, UsedType, PcType
<1>3. CASE Load(x)
  <2>1. pc' \in [Execs -> PcType]
    BY <1>3, GotoTypes DEF Load, PcType
  <2>2. outcome' \in [Execs -> Terminal] /\ thread' \in [Execs -> ThreadType]
    BY <1>3, <1>00 DEF Load, TypeOK, ThreadType
  <2>. QED BY <1>3, <2>1, <2>2 DEF Load, TypeOK, PcType, ThreadType
<1>4. CASE Heartbeat(x)
  <2>1. pc' \in [Execs -> PcType]
    BY <1>4, GotoTypes DEF Heartbeat, PcType
  <2>2. /\ state' \in {state, "running"} /\ late' \subseteq {"running", "finish"}
        /\ used' \in UsedType
    BY <1>4, SaysRunningTypes DEF Heartbeat
  <2>. QED BY <1>4, <2>1, <2>2 DEF Heartbeat, TypeOK, UsedType, PcType
<1>5. CASE CheckCancellation(x)
  <2>1. pc' \in [Execs -> PcType]
    BY <1>5, GotoTypes DEF CheckCancellation, PcType
  <2>2. outcome' \in [Execs -> Terminal] /\ thread' \in [Execs -> ThreadType]
    BY <1>5, <1>00, <1>000 DEF CheckCancellation, TypeOK, ThreadType
  <2>. QED BY <1>0, <1>5, <2>1, <2>2 DEF CheckCancellation, TypeOK, UsedType, PcType, ThreadType
<1>6. CASE FinalUpdate(x)
  <2>1. pc' \in [Execs -> PcType]
    BY <1>6, GotoTypes DEF FinalUpdate, PcType
  <2>2. RetryAfter(x) \in Nat /\ outcome[x] \in States
    BY DEF RetryAfter, TypeOK
  <2>3. /\ due' \in BOOLEAN /\ retryDue' \in BOOLEAN /\ state' \in States /\ retry' \in Nat
        /\ attempts' \in Nat
    <3>1. CASE StoresFinal(x)
      <4>1. due' \in BOOLEAN /\ retryDue' \in BOOLEAN
        BY <3>1, Zenon DEF StoresFinal, TypeOK
      <4>2. state' \in States /\ retry' \in Nat /\ attempts' \in Nat
        BY <2>2, <3>1, SMT DEF StoresFinal, TypeOK
      <4>. QED BY <4>1, <4>2
    <3>2. CASE UNCHANGED <<state, retry, due, retryDue, attempts>>
      BY <3>2 DEF TypeOK
    <3>. QED BY <1>6, <3>1, <3>2 DEF FinalUpdate
  <2>. QED BY <1>0, <1>6, <2>1, <2>3 DEF FinalUpdate, TypeOK, UsedType, PcType
<1>7. CASE FinishTask(x)
  <2>1. pc' \in [Execs -> PcType]
    BY <1>7, GotoTypes DEF FinishTask, PcType
  <2>2. entry' \in BOOLEAN /\ late' \subseteq {"running", "finish"}
    BY <1>7 DEF FinishTask, TypeOK
  <2>3. used' \in UsedType
    BY <1>0, <1>7 DEF FinishTask, TypeOK, UsedType
  <2>. QED BY <1>7, <2>1, <2>2, <2>3 DEF FinishTask, TypeOK, UsedType, PcType
<1>8. CASE PostActions(x)
  BY <1>8 DEF PostActions, Leaves, TypeOK
<1>9. CASE StillRunning(x)
  <2>1. pc' \in [Execs -> PcType]
    BY <1>9, GotoTypes DEF StillRunning, PcType
  <2>. QED BY <1>9, <2>1 DEF StillRunning, TypeOK, PcType
<1>10. CASE OperatorEnds(x)
  <2>1. pc' \in [Execs -> PcType]
    BY <1>10, GotoTypes DEF OperatorEnds, PcType
  <2>2. outcome' \in [Execs -> Terminal]
    BY <1>10, <1>00 DEF OperatorEnds
  <2>. QED BY <1>10, <2>1, <2>2 DEF OperatorEnds, TypeOK, PcType
<1>11. CASE PollTimesOut(x)
  <2>1. pc' \in [Execs -> PcType]
    BY <1>11, GotoTypes DEF PollTimesOut, PcType
  <2>2. outcome' \in [Execs -> Terminal] /\ thread' \in [Execs -> ThreadType]
    BY <1>11, <1>00, <1>000 DEF PollTimesOut
  <2>. QED BY <1>11, <2>1, <2>2 DEF PollTimesOut, TypeOK, PcType, ThreadType
<1>. QED BY <1>1, <1>2, <1>3, <1>4, <1>5, <1>6, <1>7, <1>8, <1>9, <1>10, <1>11
         DEF Worker, PollEnds

(* So do the threads of operators, losses, late requests and the cleanup loop. *)
LEMMA RestTypes ==
  ASSUME TypeOK,
         \/ \E x \in Execs : OperatorReturns(x) \/ ReportRaises(x) \/ Lost(x)
         \/ LateRequest \/ CleanupTurn
  PROVE  TypeOK'
<1> USE DEF doc, run, States, Active, Terminal, Retryable
<1>0. \A kind : Fault(kind) => used' \in UsedType
  BY FaultUsed
<1>1. ASSUME NEW x \in Execs, Lost(x) PROVE TypeOK'
  <2>1. used' \in UsedType
    BY <1>0, <1>1 DEF Lost
  <2>. QED BY <1>1, <2>1 DEF Lost, Leaves, TypeOK, UsedType
<1>2. ASSUME NEW x \in Execs, OperatorReturns(x) PROVE TypeOK'
  BY <1>2 DEF OperatorReturns, TypeOK
<1>3. ASSUME NEW x \in Execs, ReportRaises(x) PROVE TypeOK'
  BY <1>0, <1>3 DEF ReportRaises, Leaves, TypeOK, UsedType
<1>4. CASE LateRequest
  BY <1>4 DEF LateRequest, TypeOK
<1>5. CASE CleanupTurn
  BY <1>5 DEF CleanupTurn, vars, TypeOK
<1>. QED BY <1>1, <1>2, <1>3, <1>4, <1>5

\* Every variable keeps its type, with any failures and any requests.
THEOREM TaskTypeCorrect == Spec => []TypeOK
<1>1. Init => TypeOK
  <2> SUFFICES ASSUME Init PROVE TypeOK
    OBVIOUS
  <2>1. cancel \in BOOLEAN /\ due \in BOOLEAN /\ retryDue \in BOOLEAN
        /\ entry \in BOOLEAN /\ resetting \in BOOLEAN
    BY Zenon DEF Init
  <2>2. used \in UsedType
    BY DEF Init, UsedType
  <2>. QED BY <2>1, <2>2 DEF Init, TypeOK, UsedType, States, Active, Terminal, Retryable
<1>2. TypeOK /\ [Next]_vars => TypeOK'
  <2>1. TypeOK /\ UNCHANGED vars => TypeOK'
    BY DEF vars, doc, run, TypeOK
  <2>2. TypeOK /\ Next => TypeOK'
    BY RequestTypes, WorkerTypes, RestTypes DEF Next
  <2>. QED BY <2>1, <2>2
<1>. QED BY <1>1, <1>2, PTL DEF Spec
-----------------------------------------------------------------------------
(* One execution, and the slot it holds                                    *)

\* Nothing is done from outside when only runs dequeue.
LEMMA RunsOnly ==
  ASSUME OnlyRunsDequeue, TypeOK
  PROVE  Undisturbed
  BY ConstantsAssumption DEF OnlyRunsDequeue, Undisturbed, ResetDequeues, Fault, TypeOK

\* With RunInv an execution in charge is one that has the task.
LEMMA ChargeIsLive ==
  ASSUME RunInv, NEW x \in Execs
  PROVE  InCharge(x) <=> Live(x)
  BY DEF RunInv, InCharge, Live

\* What is left to show of RunInv after a step: that at most one execution has the task, with
\* its entry, and that threads are at work in poll loops.
LEMMA RunInvShort ==
  RunInv <=> /\ \A x, y \in Execs : Live(x) /\ Live(y) => x = y
             /\ \A x \in Execs : Live(x) => entry
             /\ state = "queued_for_connection" => entry /\ NobodyLive
             /\ \A x \in Execs : thread[x] = "runs" => pc[x] \in {"polling", "checking", "looking"}
             /\ late \subseteq {"running"} /\ ~resetting
  BY DEF RunInv, OneExecution, RunHoldsItsSlot, InCharge, Live

LEMMA RunInvNext ==
  RunInv' <=> /\ \A x, y \in Execs : Live(x)' /\ Live(y)' => x = y
              /\ \A x \in Execs : Live(x)' => entry'
              /\ state' = "queued_for_connection" => entry' /\ NobodyLive'
              /\ \A x \in Execs : thread'[x] = "runs" => pc'[x] \in {"polling", "checking", "looking"}
              /\ late' \subseteq {"running"} /\ ~resetting'
  BY DEF RunInv, OneExecution, RunHoldsItsSlot, InCharge, Live

\* A request finds the entry and is filtered out, or enters a task nobody runs.
LEMMA RequestKeepsRunInv ==
  ASSUME Undisturbed, TypeOK, RunInv, NEW who \in {"cron", "user"},
         TimePasses \/ CronQuery \/ UserRun \/ UserCancel \/ ResetDequeues \/ ResetWrites
            \/ Submit(who) \/ Refused(who)
  PROVE  RunInv'
<1> USE RunInvShort, RunInvNext DEF NobodyLive, Live, doc, run
<1>1. CASE TimePasses \/ CronQuery \/ UserRun \/ Refused(who)
  BY <1>1 DEF TimePasses, CronQuery, UserRun, Refused
<1>2. CASE UserCancel
  BY <1>2 DEF UserCancel, Active
<1>3. CASE ResetDequeues \/ ResetWrites
  BY <1>3 DEF Undisturbed, ResetWrites
<1>4. CASE Submit(who)
  BY <1>4 DEF Submit
<1>. QED BY <1>1, <1>2, <1>3, <1>4

\* A run starts from an entry nobody uses, and gives it up after its final state.
LEMMA WorkerKeepsRunInv ==
  ASSUME Undisturbed, TypeOK, RunInv, NEW x \in Execs,
         Dispatch(x) \/ Worker(x) \/ StillRunning(x) \/ PollEnds(x)
  PROVE  RunInv'
<1> USE RunInvShort, RunInvNext DEF NobodyLive, Live, doc, run
<1>1. CASE Dispatch(x)
  BY <1>1 DEF Dispatch, TypeOK
<1>2. CASE Begin(x)
  <2>1. state' \in {state, "running"} /\ late' \subseteq late \cup {"running"}
    BY <1>2 DEF Begin, SaysRunning
  <2>. QED BY <1>2, <2>1 DEF Begin, Goto, TypeOK
<1>3. CASE Load(x)
  BY <1>3 DEF Load, Goto, TypeOK
<1>4. CASE Heartbeat(x)
  <2>1. state' \in {state, "running"} /\ late' \subseteq late \cup {"running"}
    BY <1>4 DEF Heartbeat, SaysRunning
  <2>. QED BY <1>4, <2>1 DEF Heartbeat, Goto, TypeOK
<1>5. CASE CheckCancellation(x)
  BY <1>5 DEF CheckCancellation, LeaveThread, Goto, TypeOK
<1>6. CASE StillRunning(x) \/ OperatorEnds(x)
  BY <1>6 DEF StillRunning, OperatorEnds, Goto, TypeOK
<1>7. CASE PollTimesOut(x)
  BY <1>7 DEF PollTimesOut, LeaveThread, Goto, TypeOK
<1>8. CASE FinalUpdate(x)
  <2>1. outcome[x] # "queued_for_connection"
    BY DEF TypeOK, Terminal, Retryable
  <2>2. state' \in {state, outcome[x]} /\ UNCHANGED <<entry, thread, late, resetting>>
    BY <1>8 DEF FinalUpdate, StoresFinal
  <2>3. pc[x] = "ending" /\ \E to \in {"finishing", "posting"} : pc' = [pc EXCEPT ![x] = to]
    BY <1>8 DEF FinalUpdate, Goto
  <2>. QED BY <2>1, <2>2, <2>3 DEF TypeOK
<1>9. CASE FinishTask(x)
  <2>1. late' = late
    BY <1>9 DEF FinishTask, Undisturbed
  <2>. QED BY <1>9, <2>1 DEF FinishTask, Goto, TypeOK
<1>10. CASE PostActions(x)
  BY <1>10 DEF PostActions, Leaves, TypeOK
<1>. QED BY <1>1, <1>2, <1>3, <1>4, <1>5, <1>6, <1>7, <1>8, <1>9, <1>10 DEF Worker, PollEnds

\* A late request says running of a task that may be over: nobody is disturbed by it.
LEMMA RestKeepsRunInv ==
  ASSUME TypeOK, RunInv,
         \/ \E x \in Execs : OperatorReturns(x) \/ ReportRaises(x) \/ Lost(x)
         \/ LateRequest \/ CleanupTurn
  PROVE  RunInv'
<1> USE RunInvShort, RunInvNext DEF NobodyLive, Live, doc, run
<1>1. ASSUME NEW x \in Execs, Lost(x) PROVE RunInv'
  BY <1>1 DEF Lost, Leaves, TypeOK
<1>2. ASSUME NEW x \in Execs, OperatorReturns(x) PROVE RunInv'
  BY <1>2 DEF OperatorReturns, TypeOK
<1>3. ASSUME NEW x \in Execs, ReportRaises(x) PROVE RunInv'
  BY <1>3 DEF ReportRaises, Leaves, TypeOK
<1>4. CASE LateRequest
  BY <1>4 DEF LateRequest
<1>5. CASE CleanupTurn
  BY <1>5 DEF CleanupTurn, vars
<1>. QED BY <1>1, <1>2, <1>3, <1>4, <1>5

\* Every step that is neither a reset nor a late finish_task keeps RunInv.
LEMMA RunInvStep ==
  ASSUME TypeOK, RunInv, Next, Undisturbed PROVE RunInv'
  BY RequestKeepsRunInv, WorkerKeepsRunInv, RestKeepsRunInv DEF Next

\* When only runs dequeue, the entry is the right to execute, in every run.
LEMMA RunInvHolds ==
  ASSUME OnlyRunsDequeue PROVE Spec => []RunInv
<1>1. Init => RunInv
  BY DEF Init, RunInv, OneExecution, RunHoldsItsSlot, NobodyLive, InCharge, Live
<1>2. TypeOK /\ RunInv /\ [Next]_vars => RunInv'
  <2>1. RunInv /\ UNCHANGED vars => RunInv'
    BY DEF vars, doc, run, RunInv, OneExecution, RunHoldsItsSlot, NobodyLive, InCharge, Live
  <2>2. TypeOK /\ RunInv /\ Next => RunInv'
    BY RunInvStep, RunsOnly
  <2>. QED BY <2>1, <2>2
<1>. QED BY <1>1, <1>2, TaskTypeCorrect, PTL DEF Spec

\* Without resets, and with no finish_task that arrives twice, no two workers ever have the
\* task at once, nor two operators that were not given up, whatever fails, is lost or late,
\* run, cancelled or refused.
THEOREM OneExecutionHolds ==
  ASSUME OnlyRunsDequeue PROVE Spec => []OneExecution
<1>1. RunInv => OneExecution
  BY DEF RunInv
<1>. QED BY <1>1, RunInvHolds, PTL

\* Under the same assumptions a run, with an operator that was not given up, has its slot
\* from dispatch until finish_task.
THEOREM RunHoldsItsSlotHolds ==
  ASSUME OnlyRunsDequeue PROVE Spec => []RunHoldsItsSlot
<1>1. RunInv => RunHoldsItsSlot
  BY DEF RunInv
<1>. QED BY <1>1, RunInvHolds, PTL
-----------------------------------------------------------------------------
(* Retries are bounded                                                     *)

\* What a caller read may be old when it submits, but retry_number only grows
\* meanwhile unless a success takes the count of attempts back with it.
LEMMA RequestKeepsRetryInv ==
  ASSUME Undisturbed, TypeOK, RunInv, RetryInv, NEW who \in {"cron", "user"},
         TimePasses \/ CronQuery \/ UserRun \/ UserCancel \/ ResetDequeues \/ ResetWrites
            \/ Submit(who) \/ Refused(who)
  PROVE  RetryInv'
<1> USE ConstantsAssumption DEF RetryInv, RunsAllowed, Retryable, TypeOK, doc, run
<1>1. CASE TimePasses \/ UserRun \/ Refused(who)
  BY <1>1 DEF TimePasses, UserRun, Refused, Live
<1>2. CASE CronQuery
  BY <1>2 DEF CronQuery, Ready, RetryReady, Live
<1>3. CASE UserCancel
  BY <1>3 DEF UserCancel, Live
<1>4. CASE ResetDequeues \/ ResetWrites
  BY <1>4 DEF Undisturbed, ResetWrites, RunInv
<1>5. CASE Submit(who)
  BY <1>5 DEF Submit, Live
<1>. QED BY <1>1, <1>2, <1>3, <1>4, <1>5

\* The final update counts from the copy the run was sent, which is still right:
\* no other run can have moved retry_number since.
LEMMA WorkerKeepsRetryInv ==
  ASSUME TypeOK, RunInv, RetryInv, NEW x \in Execs,
         Dispatch(x) \/ Worker(x) \/ StillRunning(x) \/ PollEnds(x)
  PROVE  RetryInv'
<1> USE ConstantsAssumption DEF RetryInv, RunsAllowed, Retryable, TypeOK, doc, run, Live
<1>1. CASE Dispatch(x)
  BY <1>1 DEF Dispatch
<1>2. CASE Begin(x) \/ Load(x) \/ Heartbeat(x)
  <2>1. state' \in {state, "running"}
    BY <1>2 DEF Begin, Load, Heartbeat, SaysRunning
  <2>. QED BY <1>2, <2>1 DEF Begin, Load, Heartbeat, Goto
<1>3. CASE CheckCancellation(x) \/ StillRunning(x) \/ OperatorEnds(x) \/ PollTimesOut(x)
  BY <1>3 DEF CheckCancellation, StillRunning, OperatorEnds, PollTimesOut, Goto
<1>4. CASE FinalUpdate(x)
  <2>1. /\ pc[x] = "ending" /\ snapRetry[x] = retry
        /\ \A y \in Execs : Live(y) => y = x
    BY <1>4, RunInvShort DEF FinalUpdate, Goto
  <2>2. \A y \in Execs : ~(Live(y)' /\ pc'[y] # "finishing")
    BY <1>4, <2>1 DEF FinalUpdate, Goto
  <2>3. UNCHANGED pending
    BY <1>4 DEF FinalUpdate
  <2>4. CASE UNCHANGED <<state, retry, attempts>>
    BY <2>2, <2>3, <2>4
  <2>5. CASE StoresFinal(x)
    <3>0. /\ state' = outcome[x] /\ retry' = RetryAfter(x)
          /\ \/ outcome[x] = "success" /\ attempts' = 0
             \/ outcome[x] # "success" /\ UNCHANGED attempts
      BY <2>5 DEF StoresFinal
    <3>1. CASE outcome[x] = "success"
      BY <2>1, <2>2, <2>3, <3>0, <3>1 DEF RetryAfter
    <3>2. CASE outcome[x] \in Retryable
      BY <2>1, <2>2, <2>3, <3>0, <3>2 DEF RetryAfter
    <3>3. CASE outcome[x] \in {"fail", "cancelled"}
      BY <2>1, <2>2, <2>3, <3>0, <3>3 DEF RetryAfter
    <3>. QED BY <3>1, <3>2, <3>3 DEF Terminal
  <2>. QED BY <1>4, <2>4, <2>5 DEF FinalUpdate
<1>5. CASE FinishTask(x) \/ PostActions(x)
  BY <1>5 DEF FinishTask, PostActions, Leaves, Goto
<1>. QED BY <1>1, <1>2, <1>3, <1>4, <1>5 DEF Worker, PollEnds

(* Losses, late requests and threads keep the count of retries.              *)
LEMMA RestKeepsRetryInv ==
  ASSUME TypeOK, RetryInv,
         \/ \E x \in Execs : OperatorReturns(x) \/ ReportRaises(x) \/ Lost(x)
         \/ LateRequest \/ CleanupTurn
  PROVE  RetryInv'
<1> USE DEF RetryInv, RunsAllowed, Retryable, TypeOK, doc, run, Live
<1>1. ASSUME NEW x \in Execs, OperatorReturns(x) \/ ReportRaises(x) \/ Lost(x) PROVE RetryInv'
  BY <1>1 DEF OperatorReturns, ReportRaises, Leaves, Lost
<1>2. CASE LateRequest
  BY <1>2 DEF LateRequest
<1>3. CASE CleanupTurn
  BY <1>3 DEF CleanupTurn, vars
<1>. QED BY <1>1, <1>2, <1>3

\* Without resets, and with no finish_task that arrives twice, the scheduler starts the task
\* at most total_retries times, or once, between two successes, although its decision is old
\* when it is carried out and users run and cancel the task meanwhile.
THEOREM AttemptsBoundedHolds ==
  ASSUME OnlyRunsDequeue PROVE Spec => []AttemptsBounded
<1>1. Init => RetryInv
  BY ConstantsAssumption DEF Init, RetryInv, RunsAllowed, Retryable, Live
<1>2. TypeOK /\ RunInv /\ RetryInv /\ [Next]_vars => RetryInv'
  <2>1. RetryInv /\ UNCHANGED vars => RetryInv'
    BY DEF vars, doc, run, RetryInv, Live
  <2>2. TypeOK /\ RunInv /\ RetryInv /\ Next => RetryInv'
    BY RunsOnly, RequestKeepsRetryInv, WorkerKeepsRetryInv, RestKeepsRetryInv DEF Next
  <2>. QED BY <2>1, <2>2
<1>3. RetryInv => AttemptsBounded
  BY DEF RetryInv, AttemptsBounded
<1>. QED BY <1>1, <1>2, <1>3, TaskTypeCorrect, RunInvHolds, PTL DEF Spec

-----------------------------------------------------------------------------
(* The life of the task (TaskLife)                                          *)

Executing == {"loading", "polling", "checking", "looking", "ending"}

\* A step that is disturbed by nothing late.
InTime == Undisturbed /\ ~Fault("late_running")

\* What the lease adds to RunInv: a task that is under way has its entry, the state is that
\* of the run that has it, and a run that has ended is final.
LifeInv ==
    /\ state \in Active => entry
    /\ \A x \in Execs : pc[x] = "sent" => state = "queued_in_redis"
    /\ \A x \in Execs : pc[x] \in Executing => state \in {"queued_in_redis", "running"}
    /\ \A x \in Execs : pc[x] = "finishing" => state \notin Active
    /\ late = {}

\* An update that says running, in time.
LEMMA SaysRunningInTime ==
  ASSUME InTime, late = {}, NEW failed, SaysRunning(failed)
  PROVE  state' \in {state, "running"} /\ late' = {}
  BY DEF SaysRunning, InTime

\* Every step in time keeps it.
LEMMA LifeInvKept ==
  ASSUME InTime, TypeOK, RunInv, LifeInv, Next
  PROVE  LifeInv'
<1> USE DEF LifeInv, Executing, doc, run
<1>1. CASE TimePasses \/ CronQuery \/ UserRun
  BY <1>1 DEF TimePasses, CronQuery, UserRun
<1>2. CASE UserCancel
  BY <1>2 DEF UserCancel, Active, Terminal
<1>3. CASE ResetDequeues \/ ResetWrites
  BY <1>3 DEF InTime, Undisturbed, ResetWrites, RunInv
<1>4. ASSUME NEW who \in {"cron", "user"}, Submit(who) \/ Refused(who)
      PROVE  LifeInv'
  BY <1>4, RunInvShort DEF Submit, Refused, Live
<1>5. ASSUME NEW x \in Execs, Dispatch(x) PROVE LifeInv'
  <2>1. /\ entry' /\ late' = {} /\ state' = "queued_in_redis"
        /\ \A y \in Execs : pc[y] \in {"none", "posting"} /\ pc'[y] \in {"none", "posting", "sent"}
    BY <1>5 DEF Dispatch, TypeOK, RunInv, NobodyLive, Live
  <2>. QED BY <2>1
<1>6. ASSUME NEW x \in Execs, Begin(x) \/ Heartbeat(x) PROVE LifeInv'
  <2>1. Live(x) /\ entry /\ pc[x] \in {"sent", "polling"}
    BY <1>6, RunInvShort DEF Begin, Heartbeat, Goto, Live, TypeOK
  <2>2. \A y \in Execs : pc'[y] \in {"none", "posting"} \cup Executing
    BY <1>6, <2>1, RunInvShort DEF Begin, Heartbeat, Goto, Live, TypeOK
  <2>3. state' \in {state, "running"} /\ late' = {}
    BY <1>6, SaysRunningInTime DEF Begin, Heartbeat
  <2>4. state \in {"queued_in_redis", "running"}
    BY <2>1
  <2>. QED BY <1>6, <2>1, <2>2, <2>3, <2>4 DEF Begin, Heartbeat
<1>7. ASSUME NEW x \in Execs, Load(x) \/ CheckCancellation(x) \/ StillRunning(x) \/ PollEnds(x)
                                \/ PostActions(x) \/ ReportRaises(x) \/ Lost(x)
      PROVE  LifeInv'
  BY <1>7 DEF Load, CheckCancellation, StillRunning, PollEnds, OperatorEnds, PollTimesOut,
              PostActions, ReportRaises, Lost, Leaves, Goto, TypeOK
<1>8. ASSUME NEW x \in Execs, FinalUpdate(x) PROVE LifeInv'
  <2>1. Live(x) /\ outcome[x] \in Terminal /\ pc[x] = "ending"
    BY <1>8 DEF FinalUpdate, Goto, Live, TypeOK
  <2>2. outcome[x] \notin Active
    BY <2>1 DEF Terminal, Retryable, Active
  <2>3. \A y \in Execs : pc'[y] \in {"none", "posting", "finishing"}
    BY <1>8, <2>1, RunInvShort DEF FinalUpdate, Goto, Live, TypeOK
  <2>4. state' \in {state, outcome[x]} /\ UNCHANGED <<entry, late>>
    BY <1>8 DEF FinalUpdate, StoresFinal
  <2>5. (\E y \in Execs : pc'[y] = "finishing") => state' = outcome[x]
    BY <1>8, <2>1, RunInvShort DEF FinalUpdate, StoresFinal, Goto, Live, TypeOK
  <2>6. pc'[x] \notin {"sent"} \cup Executing
    BY <2>3, <2>1
  <2>. QED BY <2>2, <2>3, <2>4, <2>5
<1>9. ASSUME NEW x \in Execs, FinishTask(x) PROVE LifeInv'
  <2>1. late' = {}
    BY <1>9 DEF FinishTask, InTime, Undisturbed
  <2>. QED BY <1>9, <2>1 DEF FinishTask, Goto, TypeOK
<1>10. CASE LateRequest
  BY <1>10 DEF LateRequest
<1>11. ASSUME NEW x \in Execs, OperatorReturns(x) PROVE LifeInv'
  BY <1>11 DEF OperatorReturns
<1>12. CASE CleanupTurn
  BY <1>12 DEF CleanupTurn, vars
<1>. QED BY <1>1, <1>2, <1>3, <1>4, <1>5, <1>6, <1>7, <1>8, <1>9, <1>10, <1>11, <1>12
         DEF Next, Worker

\* Nothing removes the entry but its run, and nothing says running too late.
NothingLate == OnlyRunsDequeue /\ "late_running" \notin Faults

\* Then every step is in time,
LEMMA StepsInTime ==
  ASSUME NothingLate, TypeOK PROVE InTime
  BY RunsOnly DEF NothingLate, InTime, Fault

\* and LifeInv holds in every run.
LEMMA LifeInvHolds ==
  ASSUME NothingLate PROVE Spec => [](TypeOK /\ RunInv /\ LifeInv)
<1>0. OnlyRunsDequeue
  BY DEF NothingLate
<1>1. Init => LifeInv
  BY DEF Init, LifeInv, Executing, Active
<1>2. TypeOK /\ RunInv /\ LifeInv /\ [Next]_vars => LifeInv'
  <2>1. LifeInv /\ UNCHANGED vars => LifeInv'
    BY DEF vars, doc, run, LifeInv
  <2>. QED BY <2>1, LifeInvKept, StepsInTime
<1>3. Spec => []RunInv
  BY <1>0, RunInvHolds
<1>. QED BY <1>1, <1>2, <1>3, TaskTypeCorrect, PTL DEF Spec

\* The phase of a lease e, a document's state s and executions at p.
PhaseOf(e, s, p) ==
    CASE ~e -> "free"
      [] e /\ s = "queued_for_connection" -> "waiting"
      [] OTHER -> IF \E x \in Execs : p[x] = "sent" THEN "sent"
                  ELSE IF \E x \in Execs : p[x] = "finishing" THEN "closing"
                  ELSE IF \E x \in Execs : p[x] \notin {"none", "posting"} THEN "executing"
                  ELSE "abandoned"

\* The phase of the task, now and after a step.
LEMMA PhaseIsOf == Phase = PhaseOf(entry, state, pc)
  BY DEF Phase, PhaseOf, Live

LEMMA PhaseNextIsOf == Phase' = PhaseOf(entry', state', pc')
  BY DEF Phase, PhaseOf, Live

\* A lease that is free, that waits, or that has no owner.
LEMMA PhaseAlone ==
  ASSUME NEW e \in BOOLEAN, NEW s, NEW p
  PROVE  /\ ~e => PhaseOf(e, s, p) = "free"
         /\ e /\ s = "queued_for_connection" => PhaseOf(e, s, p) = "waiting"
         /\ e /\ s # "queued_for_connection" /\ (\A x \in Execs : p[x] \in {"none", "posting"}) =>
              PhaseOf(e, s, p) = "abandoned"
  BY DEF PhaseOf

\* A lease whose owner is x.
LEMMA PhaseOwned ==
  ASSUME NEW s, s # "queued_for_connection", NEW p, NEW x \in Execs, p[x] \notin {"none", "posting"},
         \A y \in Execs \ {x} : p[y] \in {"none", "posting"}
  PROVE  PhaseOf(TRUE, s, p) = IF p[x] = "sent" THEN "sent"
                               ELSE IF p[x] = "finishing" THEN "closing" ELSE "executing"
<1>1. \A y \in Execs : p[y] \notin {"none", "posting"} => y = x
  OBVIOUS
<1>2. (\E y \in Execs : p[y] = "sent") <=> p[x] = "sent"
  BY <1>1
<1>3. (\E y \in Execs : p[y] = "finishing") <=> p[x] = "finishing"
  BY <1>1
<1>. QED BY <1>2, <1>3 DEF PhaseOf

\* A document that changes its state neither to nor from the queue, of executions that keep
\* to their steps, is where it was.
LEMMA PhaseKept ==
  ASSUME NEW e, NEW s, NEW t, NEW p, s = "queued_for_connection" <=> t = "queued_for_connection"
  PROVE  PhaseOf(e, s, p) = PhaseOf(e, t, p)
  BY DEF PhaseOf

\* The executions that run and have a lease, before and after a step of one of them.
LEMMA OwnerFacts ==
  ASSUME TypeOK, RunInv, NEW x \in Execs, Live(x)
  PROVE  /\ entry = TRUE /\ state # "queued_for_connection"
         /\ pc[x] \notin {"none", "posting"}
         /\ \A y \in Execs \ {x} : pc[y] \in {"none", "posting"}
         /\ Phase = IF pc[x] = "sent" THEN "sent"
                    ELSE IF pc[x] = "finishing" THEN "closing" ELSE "executing"
<1>1. /\ entry = TRUE /\ state # "queued_for_connection"
      /\ pc[x] \notin {"none", "posting"}
      /\ \A y \in Execs \ {x} : pc[y] \in {"none", "posting"}
  BY RunInvShort DEF NobodyLive, Live, TypeOK
<1>2. PhaseOf(TRUE, state, pc) = IF pc[x] = "sent" THEN "sent"
                                 ELSE IF pc[x] = "finishing" THEN "closing" ELSE "executing"
  BY <1>1, PhaseOwned
<1>. QED BY <1>1, <1>2, PhaseIsOf

LifeStep == [Life!Next]_<<state, Phase>>

\* A step that leaves the entry, the state and the executions alone.
LEMMA LifeStutters ==
  ASSUME UNCHANGED <<entry, state, pc>>
  PROVE  LifeStep
<1>1. Phase' = Phase
  BY DEF Phase, Live
<1>. QED BY <1>1 DEF LifeStep

\* What the scheduler and the users do is a step of the life, or none.
LEMMA LifeOfRequests ==
  ASSUME InTime, TypeOK, RunInv, LifeInv, NEW who \in {"cron", "user"},
         TimePasses \/ CronQuery \/ UserRun \/ UserCancel \/ ResetDequeues \/ ResetWrites
            \/ Submit(who) \/ Refused(who)
  PROVE  LifeStep
<1>1. CASE TimePasses \/ CronQuery \/ UserRun \/ Refused(who)
  BY <1>1, LifeStutters DEF TimePasses, CronQuery, UserRun, Refused, doc, run
<1>2. CASE UserCancel
  <2>1. UNCHANGED <<entry, pc>> /\ state' = IF state \in Active THEN state ELSE "cancelled"
    BY <1>2 DEF UserCancel, run
  <2>2. CASE state \in Active
    BY <2>1, <2>2, LifeStutters
  <2>3. CASE state \notin Active
    <3>1. state # "queued_for_connection" /\ state' = "cancelled"
      BY <2>1, <2>3 DEF Active
    <3>2. Phase' = Phase
      BY <2>1, <3>1 DEF Phase, Live
    <3>3. Life!Cancel
      BY <2>3, <3>1, <3>2 DEF Life!Cancel, Life!UnderWay, Active
    <3>. QED BY <3>3 DEF LifeStep, Life!Next
  <2>. QED BY <2>2, <2>3
<1>3. CASE ResetDequeues \/ ResetWrites
  BY <1>3 DEF InTime, Undisturbed, ResetWrites, RunInv
<1>4. CASE Submit(who)
  <2>1. CASE entry
    BY <1>4, <2>1, LifeStutters DEF Submit, run
  <2>2. CASE ~entry
    <3>1. entry' = TRUE /\ state' = "queued_for_connection"
      BY <1>4, <2>2 DEF Submit
    <3>2. Phase = "free" /\ Phase' = "waiting"
      BY <2>2, <3>1 DEF Phase
    <3>3. Life!Enqueue
      BY <3>1, <3>2 DEF Life!Enqueue, Life!Moves
    <3>. QED BY <3>3 DEF LifeStep, Life!Next
  <2>. QED BY <2>1, <2>2
<1>. QED BY <1>1, <1>2, <1>3, <1>4

\* The owner x goes to another step and keeps the lease.
LEMMA OwnerGoes ==
  ASSUME TypeOK, RunInv, NEW x \in Execs, Live(x), NEW to \in PcType \ {"none", "posting"},
         pc' = [pc EXCEPT ![x] = to], entry' = entry, state' # "queued_for_connection"
  PROVE  Phase' = IF to = "sent" THEN "sent" ELSE IF to = "finishing" THEN "closing" ELSE "executing"
<1> DEFINE p == pc'
           s == state'
<1>1. entry' = TRUE /\ \A y \in Execs \ {x} : pc[y] \in {"none", "posting"}
  BY OwnerFacts
<1>2. p[x] = to /\ \A y \in Execs \ {x} : p[y] = pc[y]
  BY DEF TypeOK
<1>3. s # "queued_for_connection"
  OBVIOUS
<1>4. Phase' = PhaseOf(TRUE, s, p)
  BY <1>1, PhaseNextIsOf
<1>. HIDE DEF p, s
<1>5. PhaseOf(TRUE, s, p) = IF p[x] = "sent" THEN "sent"
                            ELSE IF p[x] = "finishing" THEN "closing" ELSE "executing"
  BY <1>1, <1>2, <1>3, PhaseOwned
<1>. QED BY <1>2, <1>4, <1>5

\* The owner x ends, is lost, or fails to give the lease back.
LEMMA OwnerLeaves ==
  ASSUME TypeOK, RunInv, NEW x \in Execs, Live(x), NEW to \in {"none", "posting"},
         pc' = [pc EXCEPT ![x] = to], state' # "queued_for_connection", entry' \in BOOLEAN
  PROVE  Phase' = IF entry' THEN "abandoned" ELSE "free"
<1> DEFINE p == pc'
           s == state'
           e == entry'
<1>1. \A y \in Execs \ {x} : pc[y] \in {"none", "posting"}
  BY OwnerFacts
<1>2. \A y \in Execs : p[y] \in {"none", "posting"}
  BY <1>1 DEF TypeOK
<1>3. e \in BOOLEAN /\ s # "queued_for_connection" /\ Phase' = PhaseOf(e, s, p)
  BY PhaseNextIsOf
<1>. HIDE DEF p, s, e
<1>4. PhaseOf(e, s, p) = IF e THEN "abandoned" ELSE "free"
  BY <1>2, <1>3, PhaseAlone
<1>. QED BY <1>3, <1>4 DEF e

\* An execution that has only its post-actions left goes.
LEMMA QuietEnds ==
  ASSUME TypeOK, NEW x \in Execs, pc[x] = "posting", pc' = [pc EXCEPT ![x] = "none"],
         UNCHANGED <<entry, state>>
  PROVE  LifeStep
<1>1. \A y \in Execs : /\ pc'[y] = "sent" <=> pc[y] = "sent"
                       /\ pc'[y] = "finishing" <=> pc[y] = "finishing"
                       /\ pc'[y] \in {"none", "posting"} <=> pc[y] \in {"none", "posting"}
  BY DEF TypeOK
<1>2. Phase' = Phase
  BY <1>1 DEF Phase, Live
<1>. QED BY <1>2 DEF LifeStep

\* So is what a worker does,
LEMMA LifeOfWorker ==
  ASSUME InTime, TypeOK, RunInv, LifeInv, NEW x \in Execs,
         Dispatch(x) \/ Worker(x) \/ StillRunning(x) \/ PollEnds(x)
  PROVE  LifeStep
<1> USE DEF doc, run, PcType
<1>1. CASE Dispatch(x)
  <2>1. /\ entry = TRUE /\ entry' = TRUE /\ state = "queued_for_connection"
        /\ state' = "queued_in_redis" /\ pc' = [pc EXCEPT ![x] = "sent"]
    BY <1>1 DEF Dispatch, TypeOK
  <2>2. pc'[x] = "sent"
    BY <2>1 DEF TypeOK
  <2>3. Phase = "waiting" /\ Phase' = "sent"
    BY <2>1, <2>2 DEF Phase
  <2>4. Life!Send
    BY <2>1, <2>3 DEF Life!Send, Life!Moves
  <2>. QED BY <2>4 DEF LifeStep, Life!Next
<1>2. CASE Begin(x)
  <2>1. /\ pc[x] = "sent" /\ pc' = [pc EXCEPT ![x] = "loading"] /\ entry' = entry
        /\ state' \in {state, "running"}
    BY <1>2, SaysRunningInTime DEF Begin, Goto, LifeInv
  <2>2. Live(x)
    BY <2>1 DEF Live
  <2>3. Phase = "sent" /\ state' # "queued_for_connection"
    BY <2>1, <2>2, OwnerFacts
  <2>4. Phase' = "executing"
    <3>1. "loading" \in PcType \ {"none", "posting"}
      OBVIOUS
    <3>2. pc' = [pc EXCEPT ![x] = "loading"] /\ entry' = entry /\ state' # "queued_for_connection"
      BY <2>1, <2>3
    <3>. HIDE DEF PcType
    <3>. QED BY <2>2, <3>1, <3>2, OwnerGoes
  <2>5. Life!Begin
    BY <2>1, <2>3, <2>4 DEF Life!Begin, Life!Moves
  <2>. QED BY <2>5 DEF LifeStep, Life!Next
<1>3. CASE Load(x) \/ CheckCancellation(x) \/ StillRunning(x) \/ PollEnds(x)
  <2>1. PICK to \in {"polling", "ending", "looking"} :
          /\ pc[x] \in {"loading", "checking", "looking"} /\ pc' = [pc EXCEPT ![x] = to]
          /\ entry' = entry /\ state' = state
    BY <1>3 DEF Load, CheckCancellation, StillRunning, PollEnds, OperatorEnds, PollTimesOut, Goto
  <2>2. Live(x)
    BY <2>1 DEF Live
  <2>3. Phase = "executing" /\ state' # "queued_for_connection"
    BY <2>1, <2>2, OwnerFacts
  <2>4. Phase' = "executing"
    BY <2>1, <2>2, <2>3, OwnerGoes
  <2>. QED BY <2>1, <2>3, <2>4 DEF LifeStep
<1>4. CASE Heartbeat(x)
  <2>1. /\ pc[x] = "polling" /\ pc' = [pc EXCEPT ![x] = "checking"] /\ entry' = entry
        /\ state' \in {state, "running"}
    BY <1>4, SaysRunningInTime DEF Heartbeat, Goto, LifeInv
  <2>2. Live(x)
    BY <2>1 DEF Live
  <2>3. Phase = "executing" /\ state' # "queued_for_connection"
    BY <2>1, <2>2, OwnerFacts
  <2>4. Phase' = "executing"
    <3>1. "checking" \in PcType \ {"none", "posting"}
      OBVIOUS
    <3>2. pc' = [pc EXCEPT ![x] = "checking"] /\ entry' = entry /\ state' # "queued_for_connection"
      BY <2>1, <2>3
    <3>. HIDE DEF PcType
    <3>. QED BY <2>2, <3>1, <3>2, OwnerGoes
  <2>5. CASE state' = "running"
    <3>1. Life!Report
      BY <2>3, <2>4, <2>5 DEF Life!Report, Life!Moves
    <3>. QED BY <3>1 DEF LifeStep, Life!Next
  <2>6. CASE state' = state
    BY <2>3, <2>4, <2>6 DEF LifeStep
  <2>. QED BY <2>1, <2>5, <2>6
<1>5. CASE FinalUpdate(x)
  <2>1. pc[x] = "ending" /\ entry' = entry
    BY <1>5 DEF FinalUpdate, Goto
  <2>2. Live(x)
    BY <2>1 DEF Live
  <2>3. Phase = "executing" /\ entry' = TRUE /\ state # "queued_for_connection"
    BY <2>1, <2>2, OwnerFacts
  <2>4. CASE pc' = [pc EXCEPT ![x] = "finishing"] /\ state' = outcome[x]
    <3>1. outcome[x] \in Terminal
      BY DEF TypeOK
    <3>2. state' \in Life!Final /\ state' # "queued_for_connection"
      BY <2>4, <3>1 DEF Life!Final, Terminal, Retryable
    <3>3. Phase' = "closing"
      <4>1. "finishing" \in PcType \ {"none", "posting"}
        OBVIOUS
      <4>. HIDE DEF PcType
      <4>. QED BY <2>1, <2>2, <2>4, <3>2, <4>1, OwnerGoes
    <3>4. Life!Conclude
      BY <2>3, <3>2, <3>3 DEF Life!Conclude, Life!Moves
    <3>. QED BY <3>4 DEF LifeStep, Life!Next
  <2>5. CASE pc' = [pc EXCEPT ![x] = "posting"] /\ state' \in {state, outcome[x]}
    <3>1. outcome[x] \in Life!Final /\ outcome[x] # "queued_for_connection"
      BY DEF TypeOK, Life!Final, Terminal, Retryable
    <3>2. Phase' = "abandoned"
      BY <2>2, <2>3, <2>5, <3>1, OwnerLeaves
    <3>3. Life!Lose
      BY <2>3, <2>5, <3>1, <3>2 DEF Life!Lose, Life!Moves
    <3>. QED BY <3>3 DEF LifeStep, Life!Next
  <2>. QED BY <1>5, <2>4, <2>5 DEF FinalUpdate, StoresFinal, Goto
<1>6. CASE FinishTask(x)
  <2>1. /\ pc[x] = "finishing" /\ pc' = [pc EXCEPT ![x] = "posting"] /\ state' = state
        /\ entry' = FALSE \/ entry' = entry
    BY <1>6 DEF FinishTask, Goto
  <2>2. Live(x)
    BY <2>1 DEF Live
  <2>3. Phase = "closing" /\ entry' \in BOOLEAN /\ state # "queued_for_connection"
    BY <2>1, <2>2, OwnerFacts
  <2>4. Phase' = IF entry' THEN "abandoned" ELSE "free"
    BY <2>1, <2>2, <2>3, OwnerLeaves
  <2>5. CASE entry' = FALSE
    <3>1. Life!Release
      BY <2>1, <2>3, <2>4, <2>5 DEF Life!Release, Life!Moves
    <3>. QED BY <3>1 DEF LifeStep, Life!Next
  <2>6. CASE entry' = TRUE
    <3>1. Life!Lose
      BY <2>1, <2>3, <2>4, <2>6 DEF Life!Lose, Life!Moves
    <3>. QED BY <3>1 DEF LifeStep, Life!Next
  <2>. QED BY <2>3, <2>5, <2>6
<1>7. CASE PostActions(x)
  <2>1. pc[x] = "posting" /\ pc' = [pc EXCEPT ![x] = "none"] /\ UNCHANGED <<entry, state>>
    BY <1>7 DEF PostActions, Leaves, doc
  <2>. QED BY <2>1, QuietEnds
<1>. QED BY <1>1, <1>2, <1>3, <1>4, <1>5, <1>6, <1>7 DEF Worker

\* and the loss of a worker, or a report that raises; the rest is not seen.
LEMMA LifeOfTheRest ==
  ASSUME TypeOK, RunInv, LifeInv,
         \/ \E x \in Execs : OperatorReturns(x) \/ ReportRaises(x) \/ Lost(x)
         \/ LateRequest \/ CleanupTurn
  PROVE  LifeStep
<1>1. ASSUME NEW x \in Execs, Lost(x) \/ ReportRaises(x) PROVE LifeStep
  <2>1. pc[x] # "none" /\ pc' = [pc EXCEPT ![x] = "none"] /\ UNCHANGED <<entry, state>>
    BY <1>1 DEF Lost, ReportRaises, Leaves, doc
  <2>2. CASE pc[x] = "posting"
    BY <2>1, <2>2, QuietEnds
  <2>3. CASE Live(x)
    <3>1. /\ entry' = TRUE /\ state # "queued_for_connection"
          /\ Phase \in {"sent", "executing", "closing"}
      BY <2>1, <2>3, OwnerFacts
    <3>2. Phase' = "abandoned"
      BY <2>1, <2>3, <3>1, OwnerLeaves
    <3>3. Life!Lose
      BY <2>1, <3>1, <3>2 DEF Life!Lose, Life!Moves
    <3>. QED BY <3>3 DEF LifeStep, Life!Next
  <2>. QED BY <2>1, <2>2, <2>3 DEF Live
<1>2. ASSUME NEW x \in Execs, OperatorReturns(x) PROVE LifeStep
  BY <1>2, LifeStutters DEF OperatorReturns, doc
<1>3. CASE LateRequest
  BY <1>3 DEF LateRequest, LifeInv
<1>4. CASE CleanupTurn
  BY <1>4, LifeStutters DEF CleanupTurn, vars, doc, run
<1>. QED BY <1>1, <1>2, <1>3, <1>4

\* Without resets and requests that arrive late, the state of a task and the lease on its
\* slot go through the life of TaskLife, however many executions, failures, lost replies,
\* runs and cancels there are.
THEOREM ImplementsTaskLifeHolds ==
  ASSUME NothingLate PROVE Spec => ImplementsTaskLife
<1>1. Init => Life!Init
  BY DEF Init, Life!Init, Phase
<1>2. TypeOK /\ RunInv /\ LifeInv /\ [Next]_vars => [Life!Next]_<<state, Phase>>
  <2>1. UNCHANGED vars => UNCHANGED <<entry, state, pc>>
    BY DEF vars, doc, run
  <2>2. TypeOK /\ RunInv /\ LifeInv /\ Next => LifeStep
    BY StepsInTime, LifeOfRequests, LifeOfWorker, LifeOfTheRest DEF Next
  <2>. QED BY <2>1, <2>2, LifeStutters DEF LifeStep
<1>. QED BY <1>1, <1>2, LifeInvHolds, PTL DEF Spec, ImplementsTaskLife, Life!Spec, Life!lifeVars

-----------------------------------------------------------------------------
(* Who abandons a task                                                      *)

\* Until the first failure or reset an entry is that of a task that waits, or of a run.
Undamaged == used.faults = 0 /\ used.resets = 0
Attended == entry => state = "queued_for_connection" \/ ~NobodyLive
CareInv == Undamaged => RunInv /\ LifeInv /\ Attended

\* A step that leaves no damage is in time, and starts where there was none.
LEMMA UndamagedSteps ==
  ASSUME TypeOK, Next, Undamaged'
  PROVE  Undamaged /\ InTime /\ \A kind : ~Fault(kind)
<1>1. \A kind : Fault(kind) => used'.faults = used.faults + 1
  BY DEF Fault, TypeOK
<1>2. \A kind : ~Fault(kind)
  BY <1>1 DEF Undamaged, TypeOK
<1>3. ResetDequeues => used'.resets = used.resets + 1
  BY DEF ResetDequeues, TypeOK
<1>4. ~ResetDequeues
  BY <1>3 DEF Undamaged, TypeOK
<1>5. UserRun \/ UserCancel => used'.faults = used.faults /\ used'.resets = used.resets
  BY DEF UserRun, UserCancel, TypeOK
<1>6. used' = used \/ UserRun \/ UserCancel
  BY <1>2, <1>4 DEF Next, TimePasses, CronQuery, CleanupTurn, vars, ResetWrites, Submit, Refused,
     Dispatch, Worker, Begin, Load, Heartbeat, SaysRunning, CheckCancellation, FinalUpdate,
     FinishTask, PostActions, StillRunning, PollEnds, OperatorEnds, PollTimesOut,
     OperatorReturns, ReportRaises, Lost, LateRequest
<1>. QED BY <1>2, <1>4, <1>5, <1>6 DEF Undamaged, InTime, Undisturbed

\* Such a step keeps the task attended: an execution leaves after its entry.
LEMMA AttendedKept ==
  ASSUME TypeOK, RunInv, LifeInv, Attended, Next, InTime, \A kind : ~Fault(kind)
  PROVE  Attended'
<1> USE DEF Attended, NobodyLive, doc, run
<1>1. CASE TimePasses \/ CronQuery \/ UserRun \/ CleanupTurn
  BY <1>1 DEF TimePasses, CronQuery, UserRun, CleanupTurn, vars, Live
<1>2. CASE UserCancel
  BY <1>2 DEF UserCancel, Active, Live
<1>3. CASE ResetDequeues \/ ResetWrites
  BY <1>3 DEF InTime, Undisturbed, ResetWrites, RunInv
<1>4. ASSUME NEW who \in {"cron", "user"}, Submit(who) \/ Refused(who)
      PROVE  Attended'
  BY <1>4 DEF Submit, Refused, Live
<1>5. ASSUME NEW x \in Execs, NEW to \in PcType \ {"none", "posting"},
             pc' = [pc EXCEPT ![x] = to]
      PROVE  Attended'
  <2>1. pc'[x] = to
    BY <1>5 DEF TypeOK
  <2>. QED BY <2>1 DEF Live
<1>6. ASSUME NEW x \in Execs,
             \/ Dispatch(x) \/ Begin(x) \/ Load(x) \/ Heartbeat(x) \/ CheckCancellation(x)
             \/ FinalUpdate(x) \/ StillRunning(x) \/ PollEnds(x)
      PROVE  Attended'
  <2>1. \E to \in PcType \ {"none", "posting"} : pc' = [pc EXCEPT ![x] = to]
    BY <1>6 DEF Dispatch, Begin, Load, Heartbeat, CheckCancellation, FinalUpdate, StillRunning,
                PollEnds, OperatorEnds, PollTimesOut, Goto, PcType
  <2>. QED BY <1>5, <2>1
<1>7. ASSUME NEW x \in Execs, FinishTask(x) PROVE Attended'
  BY <1>7 DEF FinishTask
<1>8. ASSUME NEW x \in Execs, PostActions(x) PROVE Attended'
  BY <1>8 DEF PostActions, Leaves, Live, TypeOK
<1>9. ASSUME NEW x \in Execs, OperatorReturns(x) \/ ReportRaises(x) \/ Lost(x)
      PROVE  Attended'
  BY <1>9 DEF OperatorReturns, ReportRaises, Lost, Live
<1>10. CASE LateRequest
  BY <1>10 DEF LateRequest, LifeInv
<1>. QED BY <1>1, <1>2, <1>3, <1>4, <1>6, <1>7, <1>8, <1>9, <1>10 DEF Next, Worker

\* Whatever the constants, a task is stranded (shown as queued or running with no entry and
\* no execution, or with an entry that nothing will dispatch or remove) by a failure or a
\* reset only: no interleaving of the scheduler, the users and the workers alone does it.
THEOREM AbandonedAfterFailureHolds == Spec => []AbandonedAfterFailure
<1>1. Init => CareInv
  BY DEF Init, CareInv, Attended, RunInv, LifeInv, Active, Executing, OneExecution,
         RunHoldsItsSlot, NobodyLive, InCharge, Live
<1>2. TypeOK /\ CareInv /\ [Next]_vars => CareInv'
  <2>1. CareInv /\ UNCHANGED vars => CareInv'
    BY DEF vars, doc, run, CareInv, Undamaged, Attended, RunInv, LifeInv, Active, Executing,
           OneExecution, RunHoldsItsSlot, NobodyLive, InCharge, Live
  <2>2. ASSUME TypeOK, CareInv, Next, Undamaged' PROVE RunInv' /\ LifeInv' /\ Attended'
    <3>1. RunInv /\ LifeInv /\ Attended /\ InTime /\ \A kind : ~Fault(kind)
      BY <2>2, UndamagedSteps DEF CareInv
    <3>2. RunInv' /\ LifeInv'
      BY <2>2, <3>1, RunInvStep, LifeInvKept DEF InTime
    <3>. QED BY <2>2, <3>1, <3>2, AttendedKept
  <2>. QED BY <2>1, <2>2 DEF CareInv
<1>3. TypeOK /\ CareInv => AbandonedAfterFailure
  <2>1. RunInv /\ LifeInv /\ Attended => ~Stranded
    BY DEF RunInv, LifeInv, Attended, Stranded
  <2>2. used.faults \in Nat /\ used.resets \in Nat /\ ~Undamaged =>
          used.faults > 0 \/ used.resets > 0
    BY DEF Undamaged
  <2>3. TypeOK => used.faults \in Nat /\ used.resets \in Nat
    BY DEF TypeOK
  <2>. QED BY <2>1, <2>2, <2>3 DEF CareInv, AbandonedAfterFailure
<1>. QED BY <1>1, <1>2, <1>3, TaskTypeCorrect, PTL DEF Spec

-----------------------------------------------------------------------------
(* The actions of a task (ActionRuns)                                        *)

ActionRecord == [state : ActionStates, result : BOOLEAN, copy : SUBSET Entry]

(* The pre-action has returned a truthy result.                              *)
Passed(r, i) == action[<<r, i>>].state = "done" /\ action[<<r, i>>].result

(* How far a request has come tells the states of its pre-actions.           *)
Stage(r) ==
  /\ request[r].step = "new" => \A i \in Actions : action[<<r, i>>].state = "none"
  /\ request[r].step = "waiting" =>
       /\ request[r].at \in Pre
       /\ \A i \in Pre : /\ i < request[r].at => Passed(r, i)
                         /\ i = request[r].at => action[<<r, i>>].state # "none"
                         /\ i > request[r].at => action[<<r, i>>].state = "none"
       /\ \A i \in Actions \ Pre : action[<<r, i>>].state = "none"
  /\ request[r].step = "admitted" => \A i \in Pre : Passed(r, i)

GateKept == \A r \in RunRequests : Stage(r)

(* A request that no other overlaps and that has sent no follow-up yet.      *)
Lone(r) ==
  /\ request[r].step \in {"waiting", "admitted"} /\ callErrors = 0
  /\ \A q \in RunRequests \ {r} : request[q].step = "new"
  /\ \A i \in Actions \ Pre : action[<<r, i>>].state = "none"

(* What it has run is in the document, and the list that an action is about  *)
(* to write back has all of it.                                              *)
RecordKept ==
  \A r \in RunRequests : Lone(r) =>
    \A i \in Pre :
      /\ action[<<r, i>>].state \in {"recorded", "done"} => EntryOf(<<r, i>>) \in actions_status
      /\ action[<<r, i>>].state = "read" => actions_status \subseteq action[<<r, i>>].copy

ActionRunsTypes ==
  /\ request \in [RunRequests -> [step : {"new", "waiting", "admitted", "refused"},
                                 at : 0..PreActions, seen : SUBSET Entry]]
  /\ action \in [RunRequests \X Actions -> ActionRecord]
  /\ actions_status \subseteq Entry
  /\ callErrors \in Nat /\ callErrors \in 0..MaxLosses

ActionRunsInv == ActionRunsTypes /\ GateKept /\ RecordKept

(* The pre-actions are the first actions of a request.                       *)
LEMMA PreAreActions ==
  /\ Pre \subseteq Actions /\ Pre \subseteq Nat \ {0}
  /\ \A i \in Pre : i + 1 \in Pre \/ i = PreActions
  /\ \A i \in Pre : i <= PreActions /\ i \in 0..PreActions
  /\ PreActions > 0 => 1 \in Pre
BY ActionRunsAssumption DEF Pre, Actions

(* A request whose record and actions stay as they are stays at its stage.   *)
LEMMA StageFrame ==
  ASSUME NEW q \in RunRequests, Stage(q), request'[q] = request[q],
         \A i \in Actions : action'[<<q, i>>] = action[<<q, i>>]
  PROVE  Stage(q)'
BY PreAreActions DEF Stage, Passed

(* What sending an action changes. *)
LEMMA SendsOne ==
  ASSUME ActionRunsTypes, NEW r \in RunRequests, NEW j \in Actions, Queues(<<r, j>>)
  PROVE  /\ action' \in [RunRequests \X Actions -> ActionRecord]
         /\ action'[<<r, j>>].state = "queued"
         /\ \A q \in RunRequests, i \in Actions :
              q # r \/ i # j => action'[<<q, i>>] = action[<<q, i>>]
<1>. DEFINE x == <<r, j>>
<1>1. x \in RunRequests \X Actions /\ action' = [action EXCEPT ![x].state = "queued"]
  BY DEF Queues
<1>. HIDE DEF x
<1>. DEFINE rec == [action[x] EXCEPT !.state = "queued"]
<1>2. action[x] \in ActionRecord
  BY <1>1 DEF ActionRunsTypes
<1>3. rec \in ActionRecord /\ rec.state = "queued"
  BY <1>2 DEF ActionRecord, ActionStates
<1>4. action' = [action EXCEPT ![x] = rec]
  BY <1>1 DEF ActionRunsTypes
<1>. HIDE DEF rec
<1>5. /\ action' \in [RunRequests \X Actions -> ActionRecord]
      /\ action'[x].state = "queued"
      /\ \A y \in RunRequests \X Actions : y # x => action'[y] = action[y]
  BY <1>1, <1>3, <1>4 DEF ActionRunsTypes
<1>. QED BY <1>5 DEF x

(* A request that is admitted or refused keeps the rest. *)
LEMMA RequestEnds ==
  ASSUME ActionRunsTypes, NEW r \in RunRequests, NEW s \in {"admitted", "refused"},
         request' = [request EXCEPT ![r].step = s]
  PROVE  /\ request' \in [RunRequests -> [step : {"new", "waiting", "admitted", "refused"},
                                         at : 0..PreActions, seen : SUBSET Entry]]
         /\ request'[r].step = s
         /\ \A q \in RunRequests : q # r => request'[q] = request[q]
BY DEF ActionRunsTypes

\* The first pre-action is sent, or none is asked for.
LEMMA RequestedKeeps ==
  ASSUME ActionRunsInv, NEW r \in RunRequests, RunRequested(r)
  PROVE  ActionRunsInv'
<1>. USE ActionRunsAssumption, PreAreActions
<1>1. UNCHANGED callErrors /\ request[r].step = "new"
  BY DEF RunRequested, CallWorks
<1>2. CASE PreActions = 0
  <2>1. Pre = {} /\ UNCHANGED <<action, actions_status>>
    BY <1>2 DEF Pre, RunRequested
  <2>2. /\ request' \in [RunRequests -> [step : {"new", "waiting", "admitted", "refused"},
                                         at : 0..PreActions, seen : SUBSET Entry]]
        /\ request'[r].step = "admitted"
        /\ \A q \in RunRequests : q # r => request'[q] = request[q]
    <3>1. request' = [request EXCEPT ![r].step = "admitted", ![r].seen = actions_status]
      BY <1>2 DEF RunRequested
    <3>2. request[r] \in [step : {"new", "waiting", "admitted", "refused"},
                          at : 0..PreActions, seen : SUBSET Entry]
      BY DEF ActionRunsInv, ActionRunsTypes
    <3>. DEFINE rec == [request[r] EXCEPT !.step = "admitted", !.seen = actions_status]
    <3>3. /\ rec \in [step : {"new", "waiting", "admitted", "refused"},
                       at : 0..PreActions, seen : SUBSET Entry]
          /\ rec.step = "admitted"
      BY <3>2 DEF ActionRunsInv, ActionRunsTypes
    <3>4. request' = [request EXCEPT ![r] = rec]
      BY <3>1 DEF ActionRunsInv, ActionRunsTypes
    <3>. HIDE DEF rec
    <3>. QED BY <3>3, <3>4 DEF ActionRunsInv, ActionRunsTypes
  <2>3. ActionRunsTypes'
    BY <1>1, <2>1, <2>2 DEF ActionRunsInv, ActionRunsTypes
  <2>4. GateKept' /\ RecordKept'
    BY <2>1, <2>2 DEF GateKept, Stage, RecordKept, ActionRunsInv
  <2>. QED BY <2>3, <2>4 DEF ActionRunsInv
<1>3. CASE PreActions # 0
  <2>1. 1 \in Pre /\ 1 \in Actions /\ Queues(<<r, 1>>) /\ actions_status' = {}
    BY <1>3 DEF RunRequested
  <2>2. /\ request' \in [RunRequests -> [step : {"new", "waiting", "admitted", "refused"},
                                         at : 0..PreActions, seen : SUBSET Entry]]
        /\ request'[r].step = "waiting" /\ request'[r].at = 1
        /\ \A q \in RunRequests : q # r => request'[q] = request[q]
    BY <1>3, <2>1 DEF RunRequested, ActionRunsInv, ActionRunsTypes
  <2>3. /\ action' \in [RunRequests \X Actions -> ActionRecord]
        /\ action'[<<r, 1>>].state = "queued"
        /\ \A q \in RunRequests, i \in Actions :
             q # r \/ i # 1 => action'[<<q, i>>] = action[<<q, i>>]
    BY <2>1, SendsOne DEF ActionRunsInv
  <2>4. ActionRunsTypes'
    BY <1>1, <2>1, <2>2, <2>3 DEF ActionRunsInv, ActionRunsTypes
  <2>5. \A i \in Actions : i # 1 => action'[<<r, i>>].state = "none"
    BY <1>1, <2>3 DEF ActionRunsInv, GateKept, Stage
  <2>6. GateKept'
    <3>1. \A i \in Pre : ~(i < 1)
      OBVIOUS
    <3>2. \A q \in RunRequests : q # r =>
             request'[q] = request[q] /\ \A i \in Actions : action'[<<q, i>>] = action[<<q, i>>]
      BY <2>2, <2>3
    <3>3. \A i \in Actions \ Pre : i # 1
      BY <2>1
    <3> SUFFICES ASSUME NEW q \in RunRequests PROVE Stage(q)'
      BY DEF GateKept
    <3>4. CASE q = r
      BY <2>1, <2>2, <2>3, <2>5, <3>1, <3>3, <3>4 DEF Stage
    <3>5. CASE q # r
      BY <3>2, <3>5, StageFrame DEF ActionRunsInv, GateKept, Stage
    <3>. QED BY <3>4, <3>5
  <2>7. RecordKept'
    <3> SUFFICES ASSUME NEW q \in RunRequests, Lone(q)', NEW i \in Pre
                 PROVE  /\ action'[<<q, i>>].state \in {"queued", "none"}
      BY DEF RecordKept
    <3>1. q = r
      BY <2>2 DEF Lone
    <3>. QED BY <2>3, <2>5, <3>1
  <2>. QED BY <2>4, <2>6, <2>7 DEF ActionRunsInv
<1>. QED BY <1>2, <1>3

\* A truthy result sends the next pre-action, or admits the task.
LEMMA AdvancesKeeps ==
  ASSUME ActionRunsInv, NEW r \in RunRequests, request[r].step = "waiting",
         Waited(r).state = "done", Waited(r).result, Advances(r),
         UNCHANGED <<actions_status, callErrors>>
  PROVE  ActionRunsInv'
<1>. USE ActionRunsAssumption, PreAreActions
<1>. DEFINE j == request[r].at
<1>1. /\ j \in Pre
      /\ \A i \in Pre : i <= j => Passed(r, i)
      /\ \A i \in Pre : i > j => action[<<r, i>>].state = "none"
      /\ \A i \in Actions \ Pre : action[<<r, i>>].state = "none"
  <2>1. j \in Pre /\ j \in Nat
    BY DEF ActionRunsInv, GateKept, Stage
  <2>2. \A i \in Pre : i <= j => i < j \/ i = j
    <3>. HIDE DEF j
    <3>. QED BY <2>1
  <2>3. Passed(r, j)
    BY DEF Waited, Passed
  <2>4. \A i \in Pre : i < j => Passed(r, i)
    BY DEF ActionRunsInv, GateKept, Stage
  <2>. QED BY <2>1, <2>2, <2>3, <2>4 DEF ActionRunsInv, GateKept, Stage
<1>2. CASE j < PreActions
  <2>1. j + 1 \in Pre /\ Queues(<<r, j + 1>>) /\ request' = [request EXCEPT ![r].at = @ + 1]
    BY <1>1, <1>2 DEF Advances
  <2>2. /\ request' \in [RunRequests -> [step : {"new", "waiting", "admitted", "refused"},
                                         at : 0..PreActions, seen : SUBSET Entry]]
        /\ request'[r].step = "waiting" /\ request'[r].at = j + 1
        /\ \A q \in RunRequests : q # r => request'[q] = request[q]
    BY <2>1 DEF ActionRunsInv, ActionRunsTypes
  <2>3. /\ action' \in [RunRequests \X Actions -> ActionRecord]
        /\ action'[<<r, j + 1>>].state = "queued"
        /\ \A q \in RunRequests, i \in Actions :
             q # r \/ i # j + 1 => action'[<<q, i>>] = action[<<q, i>>]
    BY <2>1, SendsOne DEF ActionRunsInv
  <2>4. ActionRunsTypes'
    BY <2>2, <2>3 DEF ActionRunsInv, ActionRunsTypes
  <2>5. GateKept'
    <3>. HIDE DEF j
    <3>0. j \in Nat
      BY <1>1
    <3>1. \A i \in Pre : i < j + 1 => i <= j /\ i # j + 1
      BY <3>0
    <3>2. \A i \in Pre : i > j + 1 => i > j /\ i # j + 1
      BY <3>0
    <3> SUFFICES ASSUME NEW q \in RunRequests PROVE Stage(q)'
      BY DEF GateKept
    <3>3. CASE q = r
      BY <1>1, <2>1, <2>2, <2>3, <3>1, <3>2, <3>3 DEF Stage, Passed
    <3>4. CASE q # r
      BY <2>2, <2>3, <3>4, StageFrame DEF ActionRunsInv, GateKept
    <3>. QED BY <3>3, <3>4
  <2>6. RecordKept'
    <3> SUFFICES ASSUME NEW q \in RunRequests, Lone(q)', NEW i \in Pre
                 PROVE  /\ action'[<<q, i>>].state \in {"recorded", "done"} =>
                             EntryOf(<<q, i>>)' \in actions_status
                        /\ action'[<<q, i>>].state = "read" =>
                             actions_status \subseteq action'[<<q, i>>].copy
      BY DEF RecordKept
    <3>1. q = r /\ Lone(r)
      <4>1. q = r
        BY <2>2 DEF Lone
      <4>2. \A i0 \in Actions \ Pre : action'[<<r, i0>>] = action[<<r, i0>>]
        BY <2>1, <2>3
      <4>. QED BY <1>1, <2>2, <4>1, <4>2 DEF Lone
    <3>2. CASE i = j + 1
      BY <2>3, <3>1, <3>2
    <3>3. CASE i # j + 1
      <4>1. action'[<<q, i>>] = action[<<q, i>>]
        BY <2>3, <3>3
      <4>. QED BY <4>1, <3>1 DEF ActionRunsInv, RecordKept, EntryOf
    <3>. QED BY <3>2, <3>3
  <2>. QED BY <2>4, <2>5, <2>6 DEF ActionRunsInv
<1>3. CASE ~(j < PreActions)
  <2>1. /\ request' = [request EXCEPT ![r].step = "admitted"] /\ UNCHANGED action
        /\ j = PreActions
    BY <1>1, <1>3 DEF Advances
  <2>2. /\ request' \in [RunRequests -> [step : {"new", "waiting", "admitted", "refused"},
                                         at : 0..PreActions, seen : SUBSET Entry]]
        /\ request'[r].step = "admitted"
        /\ \A q \in RunRequests : q # r => request'[q] = request[q]
    BY <2>1, RequestEnds DEF ActionRunsInv
  <2>3. ActionRunsTypes'
    BY <2>1, <2>2 DEF ActionRunsInv, ActionRunsTypes
  <2>4. GateKept'
    BY <1>1, <2>1, <2>2 DEF ActionRunsInv, GateKept, Stage, Passed
  <2>5. ASSUME NEW q \in RunRequests, Lone(q)' PROVE Lone(q)
    BY <1>1, <2>1, <2>2, <2>5 DEF Lone
  <2>6. RecordKept'
    BY <2>1, <2>5 DEF ActionRunsInv, RecordKept, EntryOf
  <2>. QED BY <2>3, <2>4, <2>6 DEF ActionRunsInv
<1>. QED BY <1>2, <1>3

\* A request that is refused, on a result or for want of one.
LEMMA RefusesKeeps ==
  ASSUME ActionRunsInv, NEW r \in RunRequests, request[r].step = "waiting", Refuses(r),
         UNCHANGED <<actions_status, callErrors>>
  PROVE  ActionRunsInv'
<1>1. /\ request' \in [RunRequests -> [step : {"new", "waiting", "admitted", "refused"},
                                       at : 0..PreActions, seen : SUBSET Entry]]
      /\ request'[r].step = "refused"
      /\ \A q \in RunRequests : q # r => request'[q] = request[q]
      /\ UNCHANGED action
  BY RequestEnds DEF ActionRunsInv, Refuses
<1>2. ActionRunsTypes'
  BY <1>1 DEF ActionRunsInv, ActionRunsTypes
<1>3. GateKept'
  BY <1>1 DEF ActionRunsInv, GateKept, Stage, Passed
<1>4. ASSUME NEW q \in RunRequests, Lone(q)' PROVE Lone(q)
  BY <1>1, <1>4 DEF Lone
<1>5. RecordKept'
  BY <1>1, <1>4 DEF ActionRunsInv, RecordKept, EntryOf
<1>. QED BY <1>2, <1>3, <1>5 DEF ActionRunsInv

\* A running or post-action is sent: the pre-actions are behind.
LEMMA FollowUpKeeps ==
  ASSUME ActionRunsInv, NEW r \in RunRequests, NEW i \in Actions, FollowsUp(r, i)
  PROVE  ActionRunsInv'
<1>1. /\ request[r].step = "admitted" /\ i \notin Pre /\ Queues(<<r, i>>)
      /\ UNCHANGED <<request, actions_status, callErrors>>
  BY DEF FollowsUp
<1>2. /\ action' \in [RunRequests \X Actions -> ActionRecord]
      /\ action'[<<r, i>>].state = "queued"
      /\ \A q \in RunRequests, k \in Actions :
           q # r \/ k # i => action'[<<q, k>>] = action[<<q, k>>]
  BY <1>1, SendsOne DEF ActionRunsInv
<1>3. ActionRunsTypes'
  BY <1>1, <1>2 DEF ActionRunsInv, ActionRunsTypes
<1>4. GateKept'
  BY <1>1, <1>2, PreAreActions DEF ActionRunsInv, GateKept, Stage, Passed
<1>5. ~Lone(r)'
  BY <1>1, <1>2 DEF Lone
<1>6. ASSUME NEW q \in RunRequests, Lone(q)' PROVE Lone(q) /\ q # r
  BY <1>1, <1>2, <1>5, <1>6 DEF Lone
<1>7. RecordKept'
  BY <1>1, <1>2, <1>6, PreAreActions DEF ActionRunsInv, RecordKept, EntryOf
<1>. QED BY <1>3, <1>4, <1>7 DEF ActionRunsInv

-----------------------------------------------------------------------------
(* The worker's steps about action j of request r *)

(* A step about one action that is under way changes no request: a lone      *)
(* request's is the pre-action it waits for.                                 *)
LEMMA OneActionMoves ==
  ASSUME ActionRunsInv, NEW r \in RunRequests, NEW j \in Actions,
         action[<<r, j>>].state \notin {"none", "done"},
         action' \in [RunRequests \X Actions -> ActionRecord],
         action'[<<r, j>>].state # "none",
         \A q \in RunRequests, i \in Actions :
            q # r \/ i # j => action'[<<q, i>>] = action[<<q, i>>],
         UNCHANGED request, callErrors' \in Nat, callErrors' >= callErrors
  PROVE  /\ GateKept'
         /\ \A q \in RunRequests : Lone(q)' => Lone(q) /\ callErrors' = callErrors
         /\ \A q \in RunRequests : Lone(q) =>
              /\ q = r /\ j \in Pre
              /\ \A i \in Pre : i # j => action[<<q, i>>].state \in {"none", "done"}
<1>. USE PreAreActions
<1>1. GateKept'
  BY DEF ActionRunsInv, GateKept, Stage, Passed
<1>2. \A q \in RunRequests : Lone(q)' => Lone(q) /\ callErrors' = callErrors
  BY DEF ActionRunsInv, ActionRunsTypes, Lone
<1>3. ASSUME NEW q \in RunRequests, Lone(q)
      PROVE  /\ q = r /\ j \in Pre
             /\ \A i \in Pre : i # j => action[<<q, i>>].state \in {"none", "done"}
  <2>1. q = r
    BY <1>3 DEF Lone, ActionRunsInv, GateKept, Stage
  <2>2. j \in Pre /\ request[r].step = "waiting"
    BY <1>3, <2>1 DEF Lone, ActionRunsInv, GateKept, Stage, Passed
  <2>3. request[r].at \in Pre /\ j \in Nat /\ request[r].at \in Nat
    BY <2>2 DEF ActionRunsInv, GateKept, Stage
  <2>4. j = request[r].at
    BY <2>2, <2>3 DEF ActionRunsInv, GateKept, Stage, Passed
  <2>5. \A i \in Pre : i # j => i < j \/ i > j
    BY <2>3
  <2>. QED BY <2>1, <2>2, <2>4, <2>5 DEF ActionRunsInv, GateKept, Stage, Passed
<1>. QED BY <1>1, <1>2, <1>3

\* Without a write or a read of the list, what is recorded stays as it is.
LEMMA RecordStays ==
  ASSUME ActionRunsInv, NEW r \in RunRequests, NEW j \in Actions,
         UNCHANGED actions_status,
         action[<<r, j>>].state = "recorded", action'[<<r, j>>].state = "done",
         action'[<<r, j>>].result = action[<<r, j>>].result,
         \A q \in RunRequests, i \in Actions :
            q # r \/ i # j => action'[<<q, i>>] = action[<<q, i>>],
         \A q \in RunRequests : Lone(q)' => Lone(q)
  PROVE  RecordKept'
BY PreAreActions DEF ActionRunsInv, RecordKept, EntryOf

(* A worker runs an action and reads the statuses.                           *)
LEMMA ReadsKeeps ==
  ASSUME ActionRunsInv, NEW r \in RunRequests, NEW j \in Actions, RunsAndReads(<<r, j>>)
  PROVE  ActionRunsInv'
<1>. DEFINE x == <<r, j>>
<1>0. x \in RunRequests \X Actions /\ x[1] = r
  OBVIOUS
<1>1. PICK b \in BOOLEAN, copy \in {actions_status, request[r].seen} :
        /\ \/ CallWorks /\ copy = actions_status
           \/ CallFails
        /\ action' = [action EXCEPT ![x].state = "read", ![x].result = b, ![x].copy = copy]
  BY DEF RunsAndReads
<1>2. action[x].state = "queued" /\ UNCHANGED <<request, actions_status>>
  BY DEF RunsAndReads
<1>3. copy \subseteq Entry
  BY DEF ActionRunsInv, ActionRunsTypes
<1>4. /\ callErrors' \in Nat /\ callErrors' \in 0..MaxLosses
      /\ callErrors' = callErrors => copy = actions_status
      /\ callErrors' >= callErrors
  BY <1>1, ActionRunsAssumption
  DEF CallWorks, CallFails, ActionRunsInv, ActionRunsTypes
<1>. HIDE DEF x
<1>5. /\ action' \in [RunRequests \X Actions -> ActionRecord]
      /\ action'[x].state = "read" /\ action'[x].copy = copy
      /\ \A y \in RunRequests \X Actions : y # x => action'[y] = action[y]
  BY <1>0, <1>1, <1>3 DEF ActionRunsInv, ActionRunsTypes, ActionRecord, ActionStates
<1>6. \A q \in RunRequests, i \in Actions :
         q # r \/ i # j => action'[<<q, i>>] = action[<<q, i>>]
  BY <1>5 DEF x
<1>7. ActionRunsTypes'
  BY <1>2, <1>4, <1>5 DEF ActionRunsInv, ActionRunsTypes
<1>8. /\ GateKept'
      /\ \A q \in RunRequests : Lone(q)' => Lone(q) /\ callErrors' = callErrors
      /\ \A q \in RunRequests : Lone(q) =>
           /\ q = r /\ j \in Pre
           /\ \A i \in Pre : i # j => action[<<q, i>>].state \in {"none", "done"}
  <2>1. action[<<r, j>>].state \notin {"none", "done"} /\ action'[<<r, j>>].state # "none"
    BY <1>2, <1>5 DEF x
  <2>2. request' = request /\ action' \in [RunRequests \X Actions -> ActionRecord]
    BY <1>2, <1>5
  <2>. QED BY ONLY ActionRunsInv, r \in RunRequests, j \in Actions,
              <1>4, <1>6, <2>1, <2>2, OneActionMoves
<1>9. RecordKept'
  <2> SUFFICES ASSUME NEW q \in RunRequests, Lone(q)', NEW i \in Pre
               PROVE  /\ action'[<<q, i>>].state \in {"recorded", "done"} =>
                           EntryOf(<<q, i>>)' \in actions_status
                      /\ action'[<<q, i>>].state = "read" =>
                           actions_status \subseteq action'[<<q, i>>].copy
    BY <1>2 DEF RecordKept
  <2>1. q = r /\ Lone(r) /\ copy = actions_status /\ i \in Actions
    BY <1>4, <1>8, PreAreActions
  <2>2. CASE i = j
    BY <1>5, <2>1, <2>2 DEF x
  <2>3. CASE i # j
    BY <1>6, <2>1, <2>3 DEF ActionRunsInv, RecordKept, EntryOf
  <2>. QED BY <2>2, <2>3
<1>. QED BY <1>7, <1>8, <1>9 DEF ActionRunsInv

(* A worker writes the statuses it has read, with its own.                   *)
LEMMA WritesKeeps ==
  ASSUME ActionRunsInv, NEW r \in RunRequests, NEW j \in Actions, WritesStatus(<<r, j>>)
  PROVE  ActionRunsInv'
<1>. DEFINE x == <<r, j>>
<1>0. x \in RunRequests \X Actions /\ EntryOf(x) = [of |-> x, status |-> action[x].result]
  BY DEF EntryOf
<1>1. /\ action[x].state = "read" /\ UNCHANGED request
      /\ action' = [action EXCEPT ![x].state = "recorded", ![x].copy = {}]
  BY DEF WritesStatus
<1>w. \/ CallWorks /\ actions_status' = action[x].copy \cup {EntryOf(x)}
      \/ CallFails /\ UNCHANGED actions_status
  BY DEF WritesStatus
<1>. HIDE DEF x
<1>c. callErrors \in Nat /\ callErrors \in 0..MaxLosses
  BY DEF ActionRunsInv, ActionRunsTypes
<1>2. /\ callErrors' \in Nat /\ callErrors' \in 0..MaxLosses
      /\ callErrors' >= callErrors
      /\ callErrors' = callErrors => actions_status' = action[x].copy \cup {EntryOf(x)}
      /\ actions_status' \in {actions_status, action[x].copy \cup {EntryOf(x)}}
  BY <1>w, <1>c, ActionRunsAssumption DEF CallWorks, CallFails
<1>3. action[x] \in ActionRecord
  BY <1>0 DEF ActionRunsInv, ActionRunsTypes
<1>4. actions_status' \subseteq Entry
  BY <1>0, <1>2, <1>3 DEF ActionRecord, Entry, ActionRunsInv, ActionRunsTypes
<1>. DEFINE rec == [action[x] EXCEPT !.state = "recorded", !.copy = {}]
<1>r. rec \in ActionRecord /\ rec.state = "recorded" /\ rec.result = action[x].result
  BY <1>3 DEF ActionRecord, ActionStates
<1>a. action' = [action EXCEPT ![x] = rec]
  BY <1>0, <1>1 DEF ActionRunsInv, ActionRunsTypes
<1>. HIDE DEF rec
<1>5. /\ action' \in [RunRequests \X Actions -> ActionRecord]
      /\ action'[x].state = "recorded" /\ action'[x].result = action[x].result
      /\ \A y \in RunRequests \X Actions : y # x => action'[y] = action[y]
  BY <1>0, <1>r, <1>a DEF ActionRunsInv, ActionRunsTypes
<1>6. \A q \in RunRequests, i \in Actions :
         q # r \/ i # j => action'[<<q, i>>] = action[<<q, i>>]
  BY <1>5 DEF x
<1>7. ActionRunsTypes'
  BY <1>1, <1>2, <1>4, <1>5 DEF ActionRunsInv, ActionRunsTypes
<1>8. /\ GateKept'
      /\ \A q \in RunRequests : Lone(q)' => Lone(q) /\ callErrors' = callErrors
      /\ \A q \in RunRequests : Lone(q) =>
           /\ q = r /\ j \in Pre
           /\ \A i \in Pre : i # j => action[<<q, i>>].state \in {"none", "done"}
  <2>1. action[<<r, j>>].state \notin {"none", "done"} /\ action'[<<r, j>>].state # "none"
    BY <1>1, <1>5 DEF x
  <2>. QED BY <1>1, <1>2, <1>5, <1>6, <2>1, OneActionMoves
<1>9. RecordKept'
  <2> SUFFICES ASSUME NEW q \in RunRequests, Lone(q)', NEW i \in Pre
               PROVE  /\ action'[<<q, i>>].state \in {"recorded", "done"} =>
                           EntryOf(<<q, i>>)' \in actions_status'
                      /\ action'[<<q, i>>].state # "read"
    BY DEF RecordKept
  <2>1. q = r /\ Lone(r) /\ j \in Pre /\ i \in Actions
    BY <1>8, PreAreActions
  <2>2. /\ actions_status' = action[x].copy \cup {EntryOf(x)}
        /\ actions_status \subseteq action[x].copy
    <3>1. action[<<r, j>>].state = "read"
      BY <1>1 DEF x
    <3>2. actions_status \subseteq action[<<r, j>>].copy
      BY <2>1, <3>1 DEF ActionRunsInv, RecordKept
    <3>. QED BY <1>2, <1>8, <3>2 DEF x
  <2>3. CASE i = j
    <3>1. <<q, i>> = x /\ EntryOf(x)' = EntryOf(x)
      BY <2>1, <2>3, <1>5 DEF x, EntryOf
    <3>. QED BY <2>2, <3>1, <1>5
  <2>4. CASE i # j
    <3>1. action'[<<q, i>>] = action[<<q, i>>] /\ action[<<q, i>>].state \in {"none", "done"}
      BY <1>6, <1>8, <2>1, <2>4
    <3>2. action[<<q, i>>].state = "done" => EntryOf(<<q, i>>) \in actions_status
      BY <2>1 DEF ActionRunsInv, RecordKept
    <3>. QED BY <3>1, <3>2, <2>2 DEF EntryOf
  <2>. QED BY <2>3, <2>4
<1>. QED BY <1>7, <1>8, <1>9 DEF ActionRunsInv

(* A worker returns the result of an action.                                 *)
LEMMA ReturnsKeeps ==
  ASSUME ActionRunsInv, NEW r \in RunRequests, NEW j \in Actions, Returns(<<r, j>>)
  PROVE  ActionRunsInv'
<1>. DEFINE x == <<r, j>>
<1>0. x \in RunRequests \X Actions
  OBVIOUS
<1>1. /\ action[x].state = "recorded" /\ action' = [action EXCEPT ![x].state = "done"]
      /\ UNCHANGED <<request, actions_status, callErrors>>
  BY DEF Returns
<1>. HIDE DEF x
<1>. DEFINE rec == [action[x] EXCEPT !.state = "done"]
<1>t. action[x] \in ActionRecord
  BY <1>0 DEF ActionRunsInv, ActionRunsTypes
<1>r. rec \in ActionRecord /\ rec.state = "done" /\ rec.result = action[x].result
  BY <1>t DEF ActionRecord, ActionStates
<1>a. action' = [action EXCEPT ![x] = rec]
  BY <1>0, <1>1 DEF ActionRunsInv, ActionRunsTypes
<1>. HIDE DEF rec
<1>2. /\ action' \in [RunRequests \X Actions -> ActionRecord]
      /\ action'[x].state = "done" /\ action'[x].result = action[x].result
      /\ \A y \in RunRequests \X Actions : y # x => action'[y] = action[y]
  BY <1>0, <1>r, <1>a DEF ActionRunsInv, ActionRunsTypes
<1>3. \A q \in RunRequests, i \in Actions :
         q # r \/ i # j => action'[<<q, i>>] = action[<<q, i>>]
  BY <1>2 DEF x
<1>4. ActionRunsTypes'
  BY <1>1, <1>2 DEF ActionRunsInv, ActionRunsTypes
<1>5. /\ GateKept'
      /\ \A q \in RunRequests : Lone(q)' => Lone(q)
  <2>1. action[<<r, j>>].state \notin {"none", "done"} /\ action'[<<r, j>>].state # "none"
    BY <1>1, <1>2 DEF x
  <2>2. callErrors' \in Nat /\ callErrors' >= callErrors
    BY <1>1, ActionRunsAssumption DEF ActionRunsInv, ActionRunsTypes
  <2>3. request' = request /\ action' \in [RunRequests \X Actions -> ActionRecord]
    BY <1>1, <1>2
  <2>. QED BY ONLY ActionRunsInv, r \in RunRequests, j \in Actions,
              <1>3, <2>1, <2>2, <2>3, OneActionMoves
<1>6. RecordKept'
  <2>1. /\ UNCHANGED actions_status
        /\ action[<<r, j>>].state = "recorded" /\ action'[<<r, j>>].state = "done"
        /\ action'[<<r, j>>].result = action[<<r, j>>].result
    BY <1>1, <1>2 DEF x
  <2>. QED BY ONLY ActionRunsInv, r \in RunRequests, j \in Actions,
              <1>3, <1>5, <2>1, RecordStays
<1>. QED BY <1>4, <1>5, <1>6 DEF ActionRunsInv

-----------------------------------------------------------------------------

(* Every step preserves the invariant.                                       *)
LEMMA ActionRunsStep == ActionRunsInv /\ [ActionRunsNext]_actionVars => ActionRunsInv'
<1> SUFFICES ASSUME ActionRunsInv, [ActionRunsNext]_actionVars
             PROVE  ActionRunsInv'
  OBVIOUS
<1>1. CASE UNCHANGED actionVars
  BY <1>1 DEF actionVars, ActionRunsInv, ActionRunsTypes, GateKept, Stage, Passed, RecordKept,
              Lone, EntryOf
<1>2. ASSUME NEW r \in RunRequests, RunRequested(r) PROVE ActionRunsInv'
  BY <1>2, RequestedKeeps
<1>3. ASSUME NEW r \in RunRequests, PreActionAnswered(r) \/ TimesOut(r) PROVE ActionRunsInv'
  BY <1>3, AdvancesKeeps, RefusesKeeps DEF PreActionAnswered, TimesOut
<1>4. ASSUME NEW r \in RunRequests, NEW i \in Actions, FollowsUp(r, i) PROVE ActionRunsInv'
  BY <1>4, FollowUpKeeps
<1>5. ASSUME NEW x \in RunRequests \X Actions,
             RunsAndReads(x) \/ WritesStatus(x) \/ Returns(x)
      PROVE  ActionRunsInv'
  <2>1. PICK r \in RunRequests, j \in Actions : x = <<r, j>>
    OBVIOUS
  <2>. QED BY <1>5, <2>1, ReadsKeeps, WritesKeeps, ReturnsKeeps
<1>. QED BY <1>1, <1>2, <1>3, <1>4, <1>5 DEF ActionRunsNext

(* The invariant holds of every run.                                         *)
LEMMA ActionRunsInvariant == ActionRunsSpec => []ActionRunsInv
<1>1. ActionRunsInit => ActionRunsInv
  <2> SUFFICES ASSUME ActionRunsInit PROVE ActionRunsInv
    OBVIOUS
  <2>1. ActionRunsTypes
    BY ActionRunsAssumption
    DEF ActionRunsInit, ActionRunsTypes, ActionRecord, ActionStates
  <2>2. \A r \in RunRequests : /\ request[r].step = "new"
                               /\ \A i \in Actions : action[<<r, i>>].state = "none"
    BY DEF ActionRunsInit
  <2>3. GateKept
    BY <2>2 DEF GateKept, Stage
  <2>4. RecordKept
    BY <2>2 DEF RecordKept, Lone
  <2>. QED BY <2>1, <2>3, <2>4 DEF ActionRunsInv
<1>. QED BY <1>1, ActionRunsStep, PTL DEF ActionRunsSpec

(* A task goes on only after every pre-action has returned a truthy result   *)
(* in this request, and what a lone request was admitted on is in the        *)
(* document, for any number of requests, actions, processes and losses.      *)
THEOREM ActionsGated == ActionRunsSpec => []ActionsAreGated
<1>1. ActionRunsInv => ActionsAreGated
  <2> SUFFICES ASSUME ActionRunsInv PROVE ActionsAreGated
    OBVIOUS
  <2>1. GateHolds
    BY PreAreActions DEF ActionRunsInv, GateKept, Stage, Passed, GateHolds
  <2>2. LoneRequestIsRecorded
    <3> SUFFICES ASSUME NEW r \in RunRequests, request[r].step = "admitted", Lone(r),
                        NEW i \in Pre
                 PROVE  \E e \in actions_status : e.of = <<r, i>> /\ e.status
      BY DEF LoneRequestIsRecorded, Lone
    <3>1. action[<<r, i>>].state = "done" /\ action[<<r, i>>].result
      BY <2>1 DEF GateHolds
    <3>2. EntryOf(<<r, i>>) \in actions_status
      BY <3>1 DEF ActionRunsInv, RecordKept
    <3>. QED BY <3>1, <3>2 DEF EntryOf
  <2>3. ActionRunsTypeOK
    BY DEF ActionRunsInv, ActionRunsTypes, ActionRunsTypeOK, ActionRecord
  <2>. QED BY <2>1, <2>2, <2>3 DEF ActionsAreGated
<1>. QED BY <1>1, ActionRunsInvariant, PTL

-----------------------------------------------------------------------------
(* The order of the tasks picked (TaskOrder)                                 *)

(* j comes before i in a stable sort by keys. *)
Earlier(keys, order, i) ==
  {j \in DOMAIN keys : \/ Sooner(keys[j], keys[i], order)
                       \/ keys[j] = keys[i] /\ j < i}

(* Sooner is a strict total order of the values.                             *)
LEMMA SoonerIsOrder ==
  ASSUME NEW order
  PROVE  /\ \A v : ~Sooner(v, v, order)
         /\ \A v, w \in Nat : v = w \/ Sooner(v, w, order) \/ Sooner(w, v, order)
         /\ \A v, w \in Nat : ~(Sooner(v, w, order) /\ Sooner(w, v, order))
         /\ \A u, v, w \in Nat : Sooner(u, v, order) /\ Sooner(v, w, order) => Sooner(u, w, order)
<1>1. CASE order = "ascending"
  BY <1>1 DEF Sooner
<1>2. CASE order # "ascending"
  BY <1>2 DEF Sooner
<1>. QED BY <1>1, <1>2

(* Of any two, one is earlier; and what is earlier has the smaller rank.     *)
LEMMA EarlierIsOrder ==
  ASSUME NEW n \in Nat, NEW keys, DOMAIN keys = 1..n,
         n > 1 => \A i \in 1..n : keys[i] \in Nat, NEW order
  PROVE  /\ \A i \in 1..n : i \notin Earlier(keys, order, i)
         /\ \A i, j \in 1..n :
              i = j \/ i \in Earlier(keys, order, j) \/ j \in Earlier(keys, order, i)
         /\ \A h, i, j \in 1..n : h \in Earlier(keys, order, i) /\ i \in Earlier(keys, order, j) =>
              h \in Earlier(keys, order, j)
<1>0. \A i \in 1..n : i \in Nat /\ i > 0
  OBVIOUS
<1>1. ASSUME NEW i \in 1..n PROVE i \notin Earlier(keys, order, i)
  BY <1>0, SoonerIsOrder DEF Earlier
<1>2. CASE n > 1
  <2>1. \A i \in 1..n : keys[i] \in Nat
    BY <1>2
  <2>2. ASSUME NEW i \in 1..n, NEW j \in 1..n
        PROVE  i = j \/ i \in Earlier(keys, order, j) \/ j \in Earlier(keys, order, i)
    <3>1. CASE keys[i] = keys[j]
      BY <1>0, <3>1 DEF Earlier
    <3>2. CASE keys[i] # keys[j]
      BY <2>1, <3>2, SoonerIsOrder DEF Earlier
    <3>. QED BY <3>1, <3>2
  <2>3. ASSUME NEW h \in 1..n, NEW i \in 1..n, NEW j \in 1..n,
               h \in Earlier(keys, order, i), i \in Earlier(keys, order, j)
        PROVE  h \in Earlier(keys, order, j)
    <3>1. keys[h] \in Nat /\ keys[i] \in Nat /\ keys[j] \in Nat
      BY <2>1
    <3>2. /\ Sooner(keys[h], keys[i], order) \/ (keys[h] = keys[i] /\ h < i)
          /\ Sooner(keys[i], keys[j], order) \/ (keys[i] = keys[j] /\ i < j)
      BY <2>3 DEF Earlier
    <3>3. Sooner(keys[h], keys[i], order) /\ Sooner(keys[i], keys[j], order) =>
             Sooner(keys[h], keys[j], order)
      BY <3>1, SoonerIsOrder
    <3>4. h < i /\ i < j => h < j
      BY <1>0
    <3>5. Sooner(keys[h], keys[j], order) \/ (keys[h] = keys[j] /\ h < j)
      BY <3>2, <3>3, <3>4
    <3>. QED BY <3>5 DEF Earlier
  <2>. QED BY <1>1, <2>2, <2>3
<1>3. CASE ~(n > 1)
  <2>1. \A i, j \in 1..n : i = j
    BY <1>3
  <2>. QED BY <1>1, <2>1
<1>. QED BY <1>2, <1>3

(* The ranks of a list are its positions, each once.                         *)
Ranked(n, keys, order) ==
  /\ \A i \in 1..n : Rank(keys, order, i) \in 1..n
  /\ \A i, j \in 1..n : i \in Earlier(keys, order, j) =>
       Rank(keys, order, i) < Rank(keys, order, j)
  /\ \A k \in 1..n : \E i \in 1..n : Rank(keys, order, i) = k

(* Counting those that come earlier numbers the entries from 1 to n.         *)
LEMMA RankIsPosition ==
  ASSUME NEW n \in Nat, NEW keys, DOMAIN keys = 1..n,
         n > 1 => \A i \in 1..n : keys[i] \in Nat, NEW order
  PROVE  Ranked(n, keys, order)
<1>. DEFINE S == 1..n
            E(i) == Earlier(keys, order, i)
            R(i) == Rank(keys, order, i)
<1>1. IsFiniteSet(S) /\ Cardinality(S) = n
  BY FS_Interval
<1>2. ASSUME NEW i \in S
      PROVE  E(i) \subseteq S /\ IsFiniteSet(E(i)) /\ Cardinality(E(i)) \in Nat
             /\ R(i) = 1 + Cardinality(E(i)) /\ R(i) \in S
  <2>1. E(i) \subseteq S \ {i}
    BY EarlierIsOrder DEF Earlier
  <2>2. IsFiniteSet(S \ {i}) /\ Cardinality(S \ {i}) = n - 1
    BY <1>1, FS_RemoveElement
  <2>3. IsFiniteSet(E(i)) /\ Cardinality(E(i)) <= n - 1
    BY <2>1, <2>2, FS_Subset
  <2>4. Cardinality(E(i)) \in Nat
    BY <2>3, FS_CardinalityType
  <2>5. R(i) = 1 + Cardinality(E(i))
    BY DEF Rank, Earlier
  <2>. HIDE DEF E, R
  <2>. QED BY <2>1, <2>3, <2>4, <2>5
<1>3. ASSUME NEW i \in S, NEW j \in S, i \in E(j)
      PROVE  R(i) < R(j)
  <2>1. E(i) \subseteq E(j) \ {i}
    <3>1. \A h \in E(i) : h \in S
      BY <1>2
    <3>. QED BY <1>3, <3>1, EarlierIsOrder
  <2>2. IsFiniteSet(E(j) \ {i}) /\ Cardinality(E(j) \ {i}) = Cardinality(E(j)) - 1
    BY <1>2, <1>3, FS_RemoveElement
  <2>3. Cardinality(E(i)) <= Cardinality(E(j)) - 1
    BY <2>1, <2>2, FS_Subset
  <2>4. /\ R(i) = 1 + Cardinality(E(i)) /\ R(j) = 1 + Cardinality(E(j))
        /\ Cardinality(E(i)) \in Nat /\ Cardinality(E(j)) \in Nat
    BY <1>2
  <2>. HIDE DEF E, R
  <2>. QED BY <2>3, <2>4
<1>4. \A k \in S : \E i \in S : R(i) = k
  <2>. DEFINE f == [i \in S |-> R(i)]
  <2>1. f \in [S -> S]
    BY <1>2
  <2>2. ASSUME NEW i \in S, NEW j \in S, i # j PROVE f[i] # f[j]
    <3>1. i \in E(j) \/ j \in E(i)
      BY <2>2, EarlierIsOrder
    <3>2. R(i) < R(j) \/ R(j) < R(i)
      BY <1>3, <3>1
    <3>3. R(i) \in Nat /\ R(j) \in Nat
      BY <1>2
    <3>. HIDE DEF R
    <3>. QED BY <3>2, <3>3
  <2>3. f \in Injection(S, S)
    BY <2>1, <2>2 DEF Injection, IsInjective
  <2>4. f \in Surjection(S, S)
    BY <1>1, <2>3, FS_Injection
  <2>. QED BY <2>4 DEF Surjection
<1>. QED BY <1>2, <1>3, <1>4 DEF Ranked

(* Each place of the sorted list has the one element of that rank.           *)
IsSorted(n, list, keys, order) ==
  LET s == SortedBy(list, keys, order)
  IN  /\ DOMAIN s = 1..n
      /\ \A i \in 1..n : s[Rank(keys, order, i)] = list[i]
      /\ \A a, b \in 1..n : a < b =>
           \E i, j \in 1..n : s[a] = list[i] /\ s[b] = list[j] /\ i \in Earlier(keys, order, j)

(* The entries placed by their ranks are sorted, stably.                     *)
LEMMA SortedByRank ==
  ASSUME NEW n \in Nat, NEW list, DOMAIN list = 1..n, NEW keys, DOMAIN keys = 1..n,
         n > 1 => \A i \in 1..n : keys[i] \in Nat, NEW order
  PROVE  IsSorted(n, list, keys, order)
<1>. DEFINE s == SortedBy(list, keys, order)
            at(m) == CHOOSE i \in DOMAIN list : Rank(keys, order, i) = m
<1>1. s = [m \in 1..n |-> list[at(m)]]
  BY DEF SortedBy
<1>r. /\ \A i \in 1..n : Rank(keys, order, i) \in 1..n
      /\ \A i, j \in 1..n : i \in Earlier(keys, order, j) =>
           Rank(keys, order, i) < Rank(keys, order, j)
      /\ \A k \in 1..n : \E i \in 1..n : Rank(keys, order, i) = k
  <2>1. Ranked(n, keys, order)
    BY RankIsPosition
  <2>. QED BY <2>1 DEF Ranked
<1>e. \A i, j \in 1..n : i = j \/ i \in Earlier(keys, order, j) \/ j \in Earlier(keys, order, i)
  BY EarlierIsOrder
<1>2. ASSUME NEW m \in 1..n PROVE at(m) \in 1..n /\ Rank(keys, order, at(m)) = m
  <2>1. \E i \in DOMAIN list : Rank(keys, order, i) = m
    BY <1>r
  <2>. QED BY <2>1
<1>3. ASSUME NEW i \in 1..n, NEW j \in 1..n, Rank(keys, order, i) = Rank(keys, order, j)
      PROVE  i = j
  <2>1. Rank(keys, order, i) \in Nat
    <3>1. Rank(keys, order, i) \in 1..n
      BY <1>r
    <3>. QED BY <3>1
  <2>2. i \notin Earlier(keys, order, j) /\ j \notin Earlier(keys, order, i)
    <3>1. i \in Earlier(keys, order, j) => Rank(keys, order, i) < Rank(keys, order, j)
      BY <1>r
    <3>2. j \in Earlier(keys, order, i) => Rank(keys, order, j) < Rank(keys, order, i)
      BY <1>r
    <3>. QED BY <1>3, <2>1, <3>1, <3>2
  <2>. QED BY <2>2, <1>e
<1>4. ASSUME NEW i \in 1..n PROVE s[Rank(keys, order, i)] = list[i]
  <2>1. Rank(keys, order, i) \in 1..n
    BY <1>r
  <2>2. at(Rank(keys, order, i)) = i
    BY <1>2, <1>3, <2>1
  <2>. HIDE DEF at, s
  <2>. QED BY <1>1, <2>1, <2>2
<1>. HIDE DEF at
<1>5. ASSUME NEW a \in 1..n, NEW b \in 1..n, a < b
      PROVE  at(a) \in Earlier(keys, order, at(b))
  <2>1. at(a) # at(b)
    BY <1>2, <1>5
  <2>2. ~(at(b) \in Earlier(keys, order, at(a)))
    <3>0. at(a) \in 1..n /\ at(b) \in 1..n /\ Rank(keys, order, at(a)) = a
          /\ Rank(keys, order, at(b)) = b
      BY <1>2
    <3>. DEFINE x == at(a)
                y == at(b)
    <3>. HIDE DEF x, y
    <3>1. y \in Earlier(keys, order, x) => Rank(keys, order, y) < Rank(keys, order, x)
      <4>1. x \in 1..n /\ y \in 1..n
        BY <3>0 DEF x, y
      <4>. QED BY <4>1, <1>r
    <3>2. y \in Earlier(keys, order, x) => b < a
      BY <3>0, <3>1 DEF x, y
    <3>. QED BY <1>5, <3>2 DEF x, y
  <2>3. at(a) \in 1..n /\ at(b) \in 1..n
    BY <1>2
  <2>. QED BY <2>3, <2>1, <2>2, <1>e
<1>6. \A a, b \in 1..n : a < b =>
         \E i, j \in 1..n : s[a] = list[i] /\ s[b] = list[j] /\ i \in Earlier(keys, order, j)
  BY <1>1, <1>2, <1>5
<1>. QED BY <1>1, <1>4, <1>6 DEF IsSorted

-----------------------------------------------------------------------------
(* p comes before q by the entries of sort_dict from m on.                   *)
BeforeFrom(m, p, q) ==
  \/ \E k \in DOMAIN sort_dict :
       /\ k >= m
       /\ \A l \in DOMAIN sort_dict : m <= l /\ l < k =>
            tasks[p][sort_dict[l][1]] = tasks[q][sort_dict[l][1]]
       /\ Sooner(tasks[p][sort_dict[k][1]], tasks[q][sort_dict[k][1]], sort_dict[k][2])
  \/ /\ \A k \in DOMAIN sort_dict : k >= m =>
          tasks[p][sort_dict[k][1]] = tasks[q][sort_dict[k][1]]
     /\ p < q

(* What has been sorted is in the order of the entries applied so far.       *)
SortedSoFar ==
  \A i, j \in 1..Queued : i < j => BeforeFrom(left + 1, sorted_tasks[i], sorted_tasks[j])

OrderInv == TaskOrderTypeOK /\ SortedSoFar /\ (sortState = "sorted" => left = 0)

(* A step that leaves the list alone leaves it sorted. *)
LEMMA SortedStays ==
  ASSUME SortedSoFar, UNCHANGED <<tasks, sort_dict, left, sorted_tasks>>
  PROVE  SortedSoFar'
<1>1. \A m, p, q : BeforeFrom(m, p, q) => BeforeFrom(m, p, q)'
  BY DEF BeforeFrom
<1>. QED BY <1>1 DEF SortedSoFar

(* The entries of a sort dictionary.                                         *)
LEMMA SortDictTypes ==
  ASSUME NEW d \in SortDicts
  PROVE  /\ Len(d) \in Nat /\ DOMAIN d = 1..Len(d)
         /\ \A k \in 1..Len(d) : d[k][1] \in SortFields /\ d[k][2] \in Orders
<1>1. PICK n \in Nat : d \in [1..n -> SortFields \X Orders]
  <2>1. Cardinality(SortFields) \in Nat
    BY TaskOrderAssumption, FS_CardinalityType
  <2>. QED BY <2>1 DEF SortDicts
<1>2. d \in Seq(SortFields \X Orders)
  BY <1>1
<1>3. Len(d) = n
  BY <1>1, <1>2
<1>. QED BY <1>1, <1>3

(* One pass over the list, by the next field, preserves the invariant.       *)
LEMMA SortStepKeeps ==
  ASSUME OrderInv, SortStep
  PROVE  OrderInv'
<1>. DEFINE n == Queued
            field == sort_dict[left][1]
            order == sort_dict[left][2]
            keys == Keys(field)
            s == SortedBy(sorted_tasks, keys, order)
<1>0. /\ n \in Nat /\ left \in Nat /\ left > 0 /\ left <= Len(sort_dict) /\ sortState = "sorting"
      /\ DOMAIN sort_dict = 1..Len(sort_dict) /\ Len(sort_dict) \in Nat
      /\ field \in SortFields /\ left \in DOMAIN sort_dict
      /\ UNCHANGED <<tasks, sort_dict>>
  <2>1. /\ Len(sort_dict) \in Nat /\ DOMAIN sort_dict = 1..Len(sort_dict)
        /\ \A k \in 1..Len(sort_dict) : sort_dict[k][1] \in SortFields
    BY SortDictTypes DEF OrderInv, TaskOrderTypeOK
  <2>2. left \in 0..Len(sort_dict) /\ left > 0
    BY DEF OrderInv, TaskOrderTypeOK, SortStep
  <2>. QED BY <2>1, <2>2, TaskOrderAssumption DEF SortStep
<1>1. DOMAIN sorted_tasks = 1..n /\ DOMAIN keys = 1..n
      /\ \A i \in 1..n : keys[i] = tasks[sorted_tasks[i]][field] /\ sorted_tasks[i] \in 1..n
  BY DEF OrderInv, TaskOrderTypeOK, Keys
<1>2. CASE n > 1 /\ \E i \in DOMAIN keys : keys[i] = Unset
  <2>1. sortState' = "raised" /\ UNCHANGED <<left, sorted_tasks>>
    BY <1>2 DEF SortStep
  <2>2. TaskOrderTypeOK'
    BY <1>0, <2>1 DEF OrderInv, TaskOrderTypeOK
  <2>3. SortedSoFar'
    BY <1>0, <2>1, SortedStays DEF OrderInv
  <2>. QED BY <2>1, <2>2, <2>3 DEF OrderInv
<1>3. CASE ~(n > 1 /\ \E i \in DOMAIN keys : keys[i] = Unset)
  <2>1. sorted_tasks' = s /\ left' = left - 1 /\ sortState' = sortState
    BY <1>3 DEF SortStep
  <2>2. n > 1 => \A i \in 1..n : keys[i] \in Nat
    <3>1. \A i \in 1..n : keys[i] \in FieldValues \cup {Unset}
      <4>1. \A p \in 1..n : tasks[p] \in Attributes
        BY DEF OrderInv, TaskOrderTypeOK
      <4>. QED BY <1>0, <1>1, <4>1 DEF Attributes
    <3>. QED BY <1>1, <1>3, <3>1, TaskOrderAssumption
  <2>. HIDE DEF keys, s, n, order, field
  <2>3. /\ DOMAIN s = 1..n
        /\ \A i \in 1..n : s[Rank(keys, order, i)] = sorted_tasks[i]
        /\ \A a, b \in 1..n : a < b =>
             \E i, j \in 1..n : /\ s[a] = sorted_tasks[i] /\ s[b] = sorted_tasks[j]
                                /\ i \in Earlier(keys, order, j)
    <3>1. IsSorted(n, sorted_tasks, keys, order)
      BY <1>0, <1>1, <2>2, SortedByRank
    <3>. QED BY <3>1 DEF IsSorted, s
  <2>4. \A i \in 1..n : Rank(keys, order, i) \in 1..n
    BY <1>0, <1>1, <2>2, RankIsPosition DEF Ranked
  <2>5. s \in [1..n -> 1..n] /\ \A p \in 1..n : \E i \in 1..n : s[i] = p
    <3>1. \A p \in 1..n : \E i \in 1..n : sorted_tasks[i] = p
      BY DEF OrderInv, TaskOrderTypeOK, n
    <3>2. \A p \in 1..n : \E i \in 1..n : s[i] = p
      <4>. SUFFICES ASSUME NEW p \in 1..n PROVE \E i \in 1..n : s[i] = p
        OBVIOUS
      <4>1. PICK i \in 1..n : sorted_tasks[i] = p
        BY <3>1
      <4>2. s[Rank(keys, order, i)] = p /\ Rank(keys, order, i) \in 1..n
        BY <4>1, <2>3, <2>4
      <4>. QED BY <4>2
    <3>3. \A m \in 1..n : s[m] \in 1..n
      <4>. SUFFICES ASSUME NEW m \in 1..n PROVE s[m] \in 1..n
        OBVIOUS
      <4>r. Ranked(n, keys, order)
        BY <1>0, <1>1, <2>2, RankIsPosition
      <4>0. \A k \in 1..n : \E i \in 1..n : Rank(keys, order, i) = k
        BY <4>r DEF Ranked
      <4>1. PICK i \in 1..n : Rank(keys, order, i) = m
        BY <4>0
      <4>. QED BY <4>1, <2>3, <1>1
    <3>4. s = [m \in 1..n |-> s[m]]
      BY <1>1, <2>3 DEF s, SortedBy
    <3>. QED BY <3>2, <3>3, <3>4
  <2>6. TaskOrderTypeOK'
    <3>1. left - 1 \in 0..Len(sort_dict)
      BY <1>0
    <3>2. sorted_tasks' \in [1..Queued -> 1..Queued]
          /\ \A p \in 1..Queued : \E i \in 1..Queued : sorted_tasks'[i] = p
      BY <2>1, <2>5 DEF n
    <3>. QED BY <1>0, <2>1, <3>1, <3>2 DEF OrderInv, TaskOrderTypeOK
  <2>7. ASSUME NEW a \in 1..n, NEW b \in 1..n, a < b
        PROVE  BeforeFrom(left, s[a], s[b])
    <3>1. PICK i \in 1..n, j \in 1..n : /\ s[a] = sorted_tasks[i] /\ s[b] = sorted_tasks[j]
                                        /\ i \in Earlier(keys, order, j)
      BY <2>3, <2>7
    <3>. DEFINE p == sorted_tasks[i]
                q == sorted_tasks[j]
    <3>2. \/ Sooner(tasks[p][field], tasks[q][field], order)
          \/ tasks[p][field] = tasks[q][field] /\ i < j
      BY <1>1, <3>1 DEF Earlier
    <3>. SUFFICES BeforeFrom(left, p, q)
      BY <3>1
    <3>. HIDE DEF p, q
    <3>3. CASE Sooner(tasks[p][field], tasks[q][field], order)
      <4>1. left >= left /\ \A l \in DOMAIN sort_dict : ~(left <= l /\ l < left)
        BY <1>0
      <4>2. Sooner(tasks[p][sort_dict[left][1]], tasks[q][sort_dict[left][1]],
                   sort_dict[left][2])
        BY <3>3 DEF field, order
      <4>3. \E k \in DOMAIN sort_dict :
              /\ k >= left
              /\ \A l \in DOMAIN sort_dict : left <= l /\ l < k =>
                   tasks[p][sort_dict[l][1]] = tasks[q][sort_dict[l][1]]
              /\ Sooner(tasks[p][sort_dict[k][1]], tasks[q][sort_dict[k][1]], sort_dict[k][2])
        <5>1. left \in DOMAIN sort_dict
          BY <1>0
        <5>. WITNESS left \in DOMAIN sort_dict
        <5>. QED BY <4>1, <4>2
      <4>. QED BY <4>3 DEF BeforeFrom
    <3>4. CASE tasks[p][field] = tasks[q][field] /\ i < j
      <4>1. BeforeFrom(left + 1, p, q)
        BY <3>4 DEF OrderInv, SortedSoFar, n, p, q
      <4>2. ASSUME NEW k \in DOMAIN sort_dict, k >= left + 1,
                   \A l \in DOMAIN sort_dict : left + 1 <= l /\ l < k =>
                      tasks[p][sort_dict[l][1]] = tasks[q][sort_dict[l][1]],
                   Sooner(tasks[p][sort_dict[k][1]], tasks[q][sort_dict[k][1]], sort_dict[k][2])
            PROVE  BeforeFrom(left, p, q)
        <5>1. \A l \in DOMAIN sort_dict : left <= l => l = left \/ left + 1 <= l
          BY <1>0
        <5>2. k >= left
          BY <1>0, <4>2
        <5>3. \A l \in DOMAIN sort_dict : left <= l /\ l < k =>
                 tasks[p][sort_dict[l][1]] = tasks[q][sort_dict[l][1]]
          BY <3>4, <4>2, <5>1 DEF field
        <5>. QED BY <4>2, <5>2, <5>3 DEF BeforeFrom
      <4>3. ASSUME \A k \in DOMAIN sort_dict : k >= left + 1 =>
                      tasks[p][sort_dict[k][1]] = tasks[q][sort_dict[k][1]],
                   p < q
            PROVE  BeforeFrom(left, p, q)
        <5>1. \A l \in DOMAIN sort_dict : l >= left => l = left \/ l >= left + 1
          BY <1>0
        <5>. QED BY <3>4, <4>3, <5>1 DEF BeforeFrom, field
      <4>4. CASE \E k \in DOMAIN sort_dict :
              /\ k >= left + 1
              /\ \A l \in DOMAIN sort_dict : left + 1 <= l /\ l < k =>
                   tasks[p][sort_dict[l][1]] = tasks[q][sort_dict[l][1]]
              /\ Sooner(tasks[p][sort_dict[k][1]], tasks[q][sort_dict[k][1]], sort_dict[k][2])
        <5>1. PICK k \in DOMAIN sort_dict :
              /\ k >= left + 1
              /\ \A l \in DOMAIN sort_dict : left + 1 <= l /\ l < k =>
                   tasks[p][sort_dict[l][1]] = tasks[q][sort_dict[l][1]]
              /\ Sooner(tasks[p][sort_dict[k][1]], tasks[q][sort_dict[k][1]], sort_dict[k][2])
          BY <4>4
        <5>. QED BY <5>1, <4>2
      <4>5. CASE (\A k \in DOMAIN sort_dict : k >= left + 1 =>
                      tasks[p][sort_dict[k][1]] = tasks[q][sort_dict[k][1]]) /\ p < q
        <5>. QED BY ONLY <4>3, <4>5
      <4>. QED BY ONLY <4>1, <4>4, <4>5 DEF BeforeFrom
    <3>. QED BY <3>2, <3>3, <3>4
  <2>8. SortedSoFar'
    <3>1. left' + 1 = left
      BY <1>0, <2>1
    <3> SUFFICES ASSUME NEW a \in 1..n, NEW b \in 1..n, a < b
                 PROVE  BeforeFrom(left + 1, sorted_tasks[a], sorted_tasks[b])'
      BY DEF SortedSoFar, n
    <3>2. BeforeFrom(left, s[a], s[b])
      BY <2>7
    <3>. QED BY <1>0, <2>1, <3>1, <3>2 DEF BeforeFrom
  <2>. QED BY <1>0, <2>1, <2>6, <2>8 DEF OrderInv
<1>. QED BY <1>2, <1>3

(* The picked list is in the order of the whole of sort_dict, first entry    *)
(* first, with ties in the order of the queue, for any number of tasks and   *)
(* any attributes.                                                           *)
THEOREM OrderHolds == TaskOrderSpec => []OrderIsRight
<1>1. TaskOrderInit => OrderInv
  <2> SUFFICES ASSUME TaskOrderInit PROVE OrderInv
    OBVIOUS
  <2>1. Len(sort_dict) \in Nat /\ DOMAIN sort_dict = 1..Len(sort_dict)
    BY SortDictTypes DEF TaskOrderInit
  <2>2. TaskOrderTypeOK
    BY <2>1, TaskOrderAssumption DEF TaskOrderInit, TaskOrderTypeOK
  <2>3. \A k \in DOMAIN sort_dict : ~(k >= left + 1)
    BY <2>1 DEF TaskOrderInit
  <2>4. SortedSoFar
    BY <2>3 DEF TaskOrderInit, SortedSoFar, BeforeFrom
  <2>. QED BY <2>2, <2>4 DEF OrderInv, TaskOrderInit
<1>2. OrderInv /\ [TaskOrderNext]_orderVars => OrderInv'
  <2> SUFFICES ASSUME OrderInv, [TaskOrderNext]_orderVars PROVE OrderInv'
    OBVIOUS
  <2>1. CASE SortStep
    BY <2>1, SortStepKeeps
  <2>2. CASE SortEnds
    <3>1. TaskOrderTypeOK'
      BY <2>2 DEF SortEnds, OrderInv, TaskOrderTypeOK
    <3>2. SortedSoFar'
      BY <2>2, SortedStays DEF SortEnds, OrderInv
    <3>. QED BY <2>2, <3>1, <3>2 DEF SortEnds, OrderInv
  <2>3. CASE UNCHANGED orderVars
    <3>1. TaskOrderTypeOK'
      BY <2>3 DEF orderVars, OrderInv, TaskOrderTypeOK
    <3>2. SortedSoFar'
      BY <2>3, SortedStays DEF orderVars, OrderInv
    <3>. QED BY <2>3, <3>1, <3>2 DEF orderVars, OrderInv
  <2>. QED BY <2>1, <2>2, <2>3 DEF TaskOrderNext
<1>3. OrderInv => OrderIsRight
  <2> SUFFICES ASSUME OrderInv, sortState = "sorted",
                      NEW i \in DOMAIN sorted_tasks, NEW j \in DOMAIN sorted_tasks, i < j
               PROVE  PickedBefore(sorted_tasks[i], sorted_tasks[j])
    BY DEF OrderInv, OrderIsRight, PickedInOrder
  <2>. DEFINE p == sorted_tasks[i]
              q == sorted_tasks[j]
  <2>1. Len(sort_dict) \in Nat /\ DOMAIN sort_dict = 1..Len(sort_dict) /\ left = 0
    BY SortDictTypes DEF OrderInv, TaskOrderTypeOK
  <2>2. BeforeFrom(1, p, q)
    <3>1. i \in 1..Queued /\ j \in 1..Queued
      BY DEF OrderInv, TaskOrderTypeOK
    <3>. QED BY <2>1, <3>1 DEF OrderInv, SortedSoFar
  <2>. HIDE DEF p, q
  <2>3. \A k \in DOMAIN sort_dict :
           k >= 1 /\ \A l \in 1..k - 1 : l \in DOMAIN sort_dict /\ 1 <= l /\ l < k
    BY <2>1
  <2>4. \A v, w, o : Sooner(v, w, o) => v # w
    BY DEF Sooner
  <2>5. PickedBefore(p, q)
    BY <2>2, <2>3, <2>4 DEF PickedBefore, BeforeFrom
  <2>. QED BY <2>5 DEF p, q
<1>. QED BY <1>1, <1>2, <1>3, PTL DEF TaskOrderSpec
=============================================================================
