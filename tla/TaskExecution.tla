---------------------------- MODULE TaskExecution ----------------------------
(***************************************************************************)
(* The life of one task document: the scheduler that finds it due, the     *)
(* user who runs, cancels or resets it, the Celery workers that execute it *)
(* and the thread each of them runs the operator in.  They meet only in    *)
(* the document's fields, each written by its own transaction.             *)
(* One call of load_balance_tasks is a step here: ConnectionQueue splits   *)
(* it and owns the counters, of which only the task's own entry is kept.   *)
(* The cleanup loop of the scheduler lists the running tasks whose parent  *)
(* is the project; ParentType says why it never finds one.                 *)
(***************************************************************************)
EXTENDS Integers, FiniteSets

CONSTANTS
    Execs,         \* identities of the executions Celery may hold at a time
    ParentType,    \* item type of the task's parent
    TotalRetries,  \* total_retries of the task
    Outcomes,      \* statuses the operator may report
    Faults,        \* the kinds of failure that may happen
    MaxFaults,     \* bound: failures in a behaviour
    MaxRuns,       \* bound: runs asked by a user
    MaxCancels,    \* bound: cancels asked by a user
    MaxResets      \* bound: calls of dangerously_reset_task

FaultKinds == {"refused", "message_lost", "worker_lost", "lost_unfinished",
               "first_update_failed", "heartbeat_failed", "late_running", "check_failed",
               "report_failed", "final_write_failed", "final_reply_lost",
               "finish_failed", "late_finish"}
Retryable == {"error", "timeout"}
Terminal == {"success", "fail", "cancelled"} \cup Retryable
Active == {"queued_for_connection", "queued_in_redis", "running"}
States == {"scheduled"} \cup Active \cup Terminal

\* The item types that can contain a task.
TaskParents == {"folder.workflow", "folder.trash", "connection", "operator", "task",
                "payload", "config"}

ASSUME ConstantsAssumption ==
    /\ ParentType \in TaskParents
    /\ Outcomes \subseteq Terminal /\ Faults \subseteq FaultKinds
    /\ {TotalRetries, MaxFaults, MaxRuns, MaxCancels, MaxResets} \subseteq Nat

VARIABLES
    state,      \* the document's state ("scheduled" stands for "created" too)
    cancel,     \* user_set_state is "cancel"
    retry,      \* retry_number
    due,        \* next_run_date has passed
    retryDue,   \* last_run_date + retry_interval has passed
    entry,      \* the task has a connection_queue entry
    pending,    \* callers that hold the task and have still to submit it
    pc,         \* where each execution is
    snapRetry,  \* retry_number in the copy of the task an execution was sent
    outcome,    \* the status an execution is about to write
    thread,     \* the thread of the operator's run(): at work, or left at work
    late,       \* requests whose client has given them up and that are still on their way
    resetting,  \* dangerously_reset_task is between its two steps
    attempts,   \* history: runs the scheduler started since the last success
    used        \* how much of each bound is used

doc == <<state, cancel, retry, due, retryDue>>
run == <<pc, snapRetry, outcome, thread>>
vars == <<doc, entry, pending, run, late, resetting, attempts, used>>

\* The execution has the task: it may still write to the document.
Live(x) == pc[x] \notin {"none", "posting"}

Fault(kind) ==
    /\ kind \in Faults
    /\ used.faults < MaxFaults
    /\ used' = [used EXCEPT !.faults = @ + 1]

Init ==
    /\ state = "scheduled" /\ cancel = FALSE /\ retry = 0
    /\ due = FALSE /\ retryDue = FALSE
    /\ entry = FALSE /\ pending = {}
    /\ pc = [x \in Execs |-> "none"]
    /\ snapRetry = [x \in Execs |-> 0]
    /\ outcome = [x \in Execs |-> "error"]
    /\ thread = [x \in Execs |-> "none"]
    /\ late = {} /\ resetting = FALSE
    /\ attempts = 0
    /\ used = [faults |-> 0, runs |-> 0, cancels |-> 0, resets |-> 0]

-----------------------------------------------------------------------------
(* The scheduler, the user and the queue                                   *)

\* next_run_date or the end of the retry interval is reached.
TimePasses ==
    /\ \/ ~due /\ due' = TRUE /\ UNCHANGED retryDue
       \/ ~retryDue /\ state \in Retryable /\ retryDue' = TRUE /\ UNCHANGED due
    /\ UNCHANGED <<state, cancel, retry, entry, pending, run, late, resetting, attempts,
                   used>>

\* Mutant: the number of retries is not compared with total_retries.
RetriesForever == state \in Retryable /\ TotalRetries # 0 /\ retryDue

\* Path B of the query: the retry interval is over and a retry is left.
RetryReady == state \in Retryable /\ TotalRetries # 0 /\ retry < TotalRetries /\ retryDue

\* get_tasks_ready_to_run: path A, scheduled runs, and path B, retries.
Ready == ~cancel /\ (RetryReady \/ (state \in {"scheduled", "success"} /\ due))

\* Mutant: only path A is asked for.
CronQueryScheduled ==
    /\ "cron" \notin pending
    /\ Ready /\ state \notin Retryable
    /\ pending' = pending \cup {"cron"}
    /\ UNCHANGED <<doc, entry, run, late, resetting, attempts, used>>

\* One turn of the scheduler's work loop: it reads the tasks that are ready.
CronQuery ==
    /\ "cron" \notin pending
    /\ Ready
    /\ pending' = pending \cup {"cron"}
    /\ UNCHANGED <<doc, entry, run, late, resetting, attempts, used>>

\* get_running_tasks: the running tasks that are children of the project itself.
Listed == ParentType = "folder.project" /\ state = "running"

\* One turn of the scheduler's cleanup loop: the list is empty, whatever the task's
\* heartbeat and its worker, and what the loop does with a listed task never happens.
CleanupTurn == ~Listed /\ UNCHANGED vars

\* create_run_task: whatever the state, a pending cancel request is cleared.
UserRun ==
    /\ used.runs < MaxRuns
    /\ "user" \notin pending
    /\ cancel' = FALSE
    /\ pending' = pending \cup {"user"}
    /\ used' = [used EXCEPT !.runs = @ + 1]
    /\ UNCHANGED <<state, retry, due, retryDue, entry, run, late, resetting, attempts>>

\* Mutant: the task is enqueued although it has an entry.
SubmitUnfiltered(who) ==
    /\ who \in pending
    /\ pending' = pending \ {who}
    /\ entry' = TRUE
    /\ state' = "queued_for_connection"
    /\ attempts' = IF who = "cron" THEN attempts + 1 ELSE attempts
    /\ UNCHANGED <<cancel, retry, due, retryDue, run, late, resetting, used>>

\* execute_tasks hands the task to the queue, where one that has an entry is
\* filtered out; the state read when the caller found the task is not read again.
Submit(who) ==
    /\ who \in pending
    /\ pending' = pending \ {who}
    /\ \/ entry /\ UNCHANGED <<state, entry, attempts>>
       \/ /\ ~entry
          /\ entry' = TRUE
          /\ state' = "queued_for_connection"
          /\ attempts' = IF who = "cron" THEN attempts + 1 ELSE attempts
    /\ UNCHANGED <<cancel, retry, due, retryDue, run, late, resetting, used>>

\* Validation or a pre-action refuses the task.
Refused(who) ==
    /\ who \in pending
    /\ Fault("refused")
    /\ pending' = pending \ {who}
    /\ UNCHANGED <<doc, entry, run, late, resetting, attempts>>

\* The queue has a free slot: the task is picked and a copy sent to Celery.  A thread
\* that an earlier execution of this identity left is not followed any more.
Dispatch(x) ==
    /\ entry /\ state = "queued_for_connection"
    /\ pc[x] = "none"
    /\ thread' = [thread EXCEPT ![x] = "none"]
    /\ state' = "queued_in_redis"
    /\ pc' = [pc EXCEPT ![x] = "sent"]
    /\ snapRetry' = [snapRetry EXCEPT ![x] = retry]
    /\ UNCHANGED <<cancel, retry, due, retryDue, entry, pending, outcome, late, resetting,
                   attempts, used>>

\* Mutant: the user's value is written to state.
UserCancelWritesFlag ==
    /\ used.cancels < MaxCancels
    /\ cancel' = TRUE
    /\ state' = IF state \in Active THEN state ELSE "cancel"
    /\ used' = [used EXCEPT !.cancels = @ + 1]
    /\ UNCHANGED <<retry, due, retryDue, entry, pending, run, late, resetting, attempts>>

\* Mutant: a task that is under way is shown as cancelled at once.
CancelAtOnce ==
    /\ used.cancels < MaxCancels
    /\ cancel' = TRUE
    /\ state' = "cancelled"
    /\ used' = [used EXCEPT !.cancels = @ + 1]
    /\ UNCHANGED <<retry, due, retryDue, entry, pending, run, late, resetting, attempts>>

\* update_task_item with user_set_state = "cancel", in one transaction.
UserCancel ==
    /\ used.cancels < MaxCancels
    /\ cancel' = TRUE
    /\ state' = IF state \in Active THEN state ELSE "cancelled"
    /\ used' = [used EXCEPT !.cancels = @ + 1]
    /\ UNCHANGED <<retry, due, retryDue, entry, pending, run, late, resetting, attempts>>

\* dangerously_reset_task: first the entry is removed ...
ResetDequeues ==
    /\ used.resets < MaxResets
    /\ ~resetting
    /\ entry' = FALSE
    /\ resetting' = TRUE
    /\ used' = [used EXCEPT !.resets = @ + 1]
    /\ UNCHANGED <<doc, pending, run, late, attempts>>

\* ... then the document is rewritten; retry_number is kept.
ResetWrites ==
    /\ resetting
    /\ resetting' = FALSE
    /\ state' = "scheduled"
    /\ cancel' = FALSE
    /\ attempts' = 0
    /\ UNCHANGED <<retry, due, retryDue, entry, pending, run, late, used>>

-----------------------------------------------------------------------------
(* TaskExecutionService.execute_task on a worker                           *)

Goto(x, from, to) == pc[x] = from /\ pc' = [pc EXCEPT ![x] = to]

\* The execution is gone, and with it what it knew.
Leaves(x) ==
    /\ pc' = [pc EXCEPT ![x] = "none"]
    /\ snapRetry' = [snapRetry EXCEPT ![x] = 0]
    /\ outcome' = [outcome EXCEPT ![x] = "error"]

\* An update that says running: stored, not stored, or given up by its client and
\* stored later; whether it failed is only logged.
SaysRunning(failed) ==
    \/ state' = "running" /\ UNCHANGED <<late, used>>
    \/ Fault(failed) /\ UNCHANGED <<state, late>>
    \/ Fault("late_running") /\ late' = late \cup {"running"} /\ UNCHANGED state

\* The first update.
Begin(x) ==
    /\ Goto(x, "sent", "loading")
    /\ SaysRunning("first_update_failed")
    /\ UNCHANGED <<cancel, retry, due, retryDue, entry, pending, snapRetry, outcome, thread,
                   resetting, attempts>>

\* The operator is fetched, validated and initialised and its run() started in a thread;
\* an invalid operator ends the execution with fail, any other exception with error.
Load(x) ==
    /\ \/ /\ Goto(x, "loading", "polling")
          /\ thread' = [thread EXCEPT ![x] = "runs"]
          /\ UNCHANGED outcome
       \/ /\ Goto(x, "loading", "ending")
          /\ \E s \in {"fail", "error"} : outcome' = [outcome EXCEPT ![x] = s]
          /\ UNCHANGED thread
    /\ UNCHANGED <<doc, entry, pending, snapRetry, late, resetting, attempts, used>>

\* run() returns or raises, whether or not somebody waits for it.
OperatorReturns(x) ==
    /\ thread[x] # "none"
    /\ thread' = [thread EXCEPT ![x] = "none"]
    /\ UNCHANGED <<doc, entry, pending, pc, snapRetry, outcome, late, resetting, attempts,
                   used>>

\* The top of the poll loop.
Heartbeat(x) ==
    /\ Goto(x, "polling", "checking")
    /\ SaysRunning("heartbeat_failed")
    /\ UNCHANGED <<cancel, retry, due, retryDue, entry, pending, snapRetry, outcome, thread,
                   resetting, attempts>>

\* A request that was given up is carried out.
LateRequest ==
    /\ \E w \in late :
          /\ late' = late \ {w}
          /\ state' = IF w = "running" THEN "running" ELSE state
          /\ entry' = (entry /\ w # "finish")
    /\ UNCHANGED <<cancel, retry, due, retryDue, pending, run, resetting, attempts, used>>

\* The execution goes on to its end while run() may still be at work: no one can
\* stop the thread.
LeaveThread(x) ==
    thread' = [thread EXCEPT ![x] = IF @ = "runs" THEN "left" ELSE @]

\* Mutant: the worker looks at the copy of the task it was sent, not at the document.
ChecksItsCopy(x) ==
    /\ Goto(x, "checking", "looking")
    /\ UNCHANGED <<doc, entry, pending, snapRetry, outcome, thread, late, resetting,
                   attempts, used>>

\* _check_cancellation: a failed read counts as no request.  A cancelled execution ends
\* with error if the operator's finish(), or the run() that has ended, raises.
CheckCancellation(x) ==
    /\ \/ /\ Goto(x, "checking", "ending")
          /\ cancel
          /\ \E s \in {"cancelled", "error"} : outcome' = [outcome EXCEPT ![x] = s]
          /\ LeaveThread(x)
          /\ UNCHANGED used
       \/ Goto(x, "checking", "looking") /\ ~cancel /\ UNCHANGED <<outcome, thread, used>>
       \/ /\ Goto(x, "checking", "looking")
          /\ Fault("check_failed")
          /\ UNCHANGED <<outcome, thread>>
    /\ UNCHANGED <<doc, entry, pending, snapRetry, late, resetting, attempts>>

\* run() is at work, or the job it left behind is not done: sleep and poll again.
StillRunning(x) ==
    /\ Goto(x, "looking", "polling")
    /\ UNCHANGED <<doc, entry, pending, snapRetry, outcome, thread, late, resetting,
                   attempts, used>>

\* Mutant: the status is taken while run() is at work.
OperatorEndsEarly(x) ==
    /\ Goto(x, "looking", "ending")
    /\ \E s \in Outcomes \cup {"error"} : outcome' = [outcome EXCEPT ![x] = s]
    /\ UNCHANGED <<doc, entry, pending, snapRetry, thread, late, resetting, attempts, used>>

\* run() has returned: its status, or the one check_completion() gives, or an exception.
OperatorEnds(x) ==
    /\ Goto(x, "looking", "ending")
    /\ thread[x] = "none"
    /\ \E s \in Outcomes \cup {"error"} : outcome' = [outcome EXCEPT ![x] = s]
    /\ UNCHANGED <<doc, entry, pending, snapRetry, thread, late, resetting, attempts, used>>

\* Mutant: the time-out waits for run().
TimesOutAfterRun(x) ==
    /\ Goto(x, "looking", "ending")
    /\ thread[x] = "none"
    /\ outcome' = [outcome EXCEPT ![x] = "timeout"]
    /\ UNCHANGED <<doc, entry, pending, snapRetry, thread, late, resetting, attempts, used>>

\* check_completion_timeout_seconds are over.
PollTimesOut(x) ==
    /\ Goto(x, "looking", "ending")
    /\ outcome' = [outcome EXCEPT ![x] = "timeout"]
    /\ LeaveThread(x)
    /\ UNCHANGED <<doc, entry, pending, snapRetry, late, resetting, attempts, used>>

\* The operator's output cannot be written to the task history: json.dumps raises and
\* the execution is over with nothing stored.
ReportRaises(x) ==
    /\ pc[x] = "ending" /\ Leaves(x)
    /\ Fault("report_failed")
    /\ UNCHANGED <<doc, entry, pending, thread, late, resetting, attempts>>

\* retry_number in the final update, counted from the copy the run was sent.
RetryAfter(x) ==
    IF outcome[x] = "success" THEN 0
    ELSE IF outcome[x] \in Retryable THEN snapRetry[x] + 1
    ELSE retry

\* The final update is stored.  After a success next_run_date moves one step on, which
\* may still be in the past.
StoresFinal(x) ==
    /\ state' = outcome[x]
    /\ retry' = RetryAfter(x)
    /\ retryDue' = FALSE
    /\ \/ outcome[x] = "success" /\ due' \in BOOLEAN /\ attempts' = 0
       \/ outcome[x] # "success" /\ UNCHANGED <<due, attempts>>

\* The final update; when it fails, or its reply is lost, finish_task is not called.
FinalUpdate(x) ==
    /\ \/ Goto(x, "ending", "finishing") /\ StoresFinal(x) /\ UNCHANGED used
       \/ Goto(x, "ending", "posting") /\ StoresFinal(x) /\ Fault("final_reply_lost")
       \/ /\ Goto(x, "ending", "posting")
          /\ Fault("final_write_failed")
          /\ UNCHANGED <<state, retry, due, retryDue, attempts>>
    /\ UNCHANGED <<cancel, entry, pending, snapRetry, outcome, thread, late, resetting>>

\* Mutant: finish_task is called after a success only.
FinishAfterSuccess(x) ==
    /\ Goto(x, "finishing", "posting")
    /\ entry' = (outcome[x] # "success")
    /\ UNCHANGED <<doc, pending, snapRetry, outcome, thread, late, resetting, attempts, used>>

\* finish_task: the entry is removed; when the call fails it stays.  A first attempt that
\* was given up and sent again may arrive once more, later.
FinishTask(x) ==
    /\ Goto(x, "finishing", "posting")
    /\ \/ entry' = FALSE /\ UNCHANGED <<late, used>>
       \/ entry' = FALSE /\ Fault("late_finish") /\ late' = late \cup {"finish"}
       \/ Fault("finish_failed") /\ UNCHANGED <<entry, late>>
    /\ UNCHANGED <<doc, pending, snapRetry, outcome, thread, resetting, attempts>>

\* _execute_post_actions, the last thing an execution does.
PostActions(x) ==
    /\ pc[x] = "posting" /\ Leaves(x)
    /\ UNCHANGED <<doc, entry, pending, thread, late, resetting, attempts, used>>

LossKind(x) == CASE pc[x] = "sent" -> "message_lost"
                 [] pc[x] = "finishing" -> "lost_unfinished"
                 [] OTHER -> "worker_lost"

\* The worker is killed (out of memory, hard time limit) with the threads it has; a
\* message is acknowledged when it is taken, so nothing runs the task again.
Lost(x) ==
    /\ pc[x] # "none"
    /\ Fault(LossKind(x))
    /\ Leaves(x)
    /\ thread' = [thread EXCEPT ![x] = "none"]
    /\ UNCHANGED <<doc, entry, pending, late, resetting, attempts>>

Worker(x) ==
    \/ Begin(x) \/ Load(x) \/ Heartbeat(x) \/ CheckCancellation(x)
    \/ FinalUpdate(x) \/ FinishTask(x) \/ PostActions(x)

PollEnds(x) == OperatorEnds(x) \/ PollTimesOut(x)

Next ==
    \/ TimePasses \/ CronQuery \/ CleanupTurn
    \/ UserRun \/ UserCancel \/ ResetDequeues \/ ResetWrites
    \/ \E who \in {"cron", "user"} : Submit(who) \/ Refused(who)
    \/ \E x \in Execs : Dispatch(x) \/ Worker(x) \/ StillRunning(x) \/ PollEnds(x)
    \/ \E x \in Execs : OperatorReturns(x) \/ ReportRaises(x) \/ Lost(x)
    \/ LateRequest

Spec == Init /\ [][Next]_vars

\* The scheduler's loops, the queue and every worker go on; nothing is assumed
\* of the operator's run(), which may go on for ever.
Scheduling ==
    /\ WF_vars(CronQuery) /\ WF_vars(ResetWrites) /\ WF_vars(LateRequest)
    /\ \A who \in {"cron", "user"} : WF_vars(Submit(who))
    /\ WF_vars(\E x \in Execs : Dispatch(x))
    /\ \A x \in Execs : WF_vars(Worker(x)) /\ WF_vars(StillRunning(x) \/ PollEnds(x))

PollingSpec == Spec /\ Scheduling

\* Every poll loop ends, at the latest after check_completion_timeout_seconds.
PollsEnd == \A x \in Execs : SF_vars(PollEnds(x))
FairSpec == PollingSpec /\ PollsEnd

-----------------------------------------------------------------------------
(* Properties                                                              *)

\* Every variable has its type.
TypeOK ==
    /\ state \in States /\ cancel \in BOOLEAN /\ retry \in Nat
    /\ due \in BOOLEAN /\ retryDue \in BOOLEAN /\ entry \in BOOLEAN
    /\ pending \subseteq {"cron", "user"}
    /\ pc \in [Execs -> {"none", "sent", "loading", "polling", "checking", "looking",
                         "ending", "finishing", "posting"}]
    /\ snapRetry \in [Execs -> Nat]
    /\ outcome \in [Execs -> Terminal]
    /\ thread \in [Execs -> {"none", "runs", "left"}]
    /\ late \subseteq {"running", "finish"} /\ resetting \in BOOLEAN
    /\ attempts \in Nat
    /\ used \in [faults : Nat, runs : Nat, cancels : Nat, resets : Nat]

\* The execution has the task, or the operator it has not given up is at work.
InCharge(x) == Live(x) \/ thread[x] = "runs"

\* A task is executed by one worker at a time, although the scheduler and users decide on
\* what they read some time ago and workers write whatever has happened since.  Two
\* operators of a task are at work at the same time only if the run of one was ended by a
\* cancel or a time-out.
OneExecution == \A x, y \in Execs : InCharge(x) /\ InCharge(y) => x = y

\* A run holds the connection's slot from dispatch to finish_task, with an operator that
\* was not given up: until then the slot is not given to another task.
RunHoldsItsSlot == \A x \in Execs : InCharge(x) => entry

\* The scheduler starts a task at most total_retries times, or once, between two
\* successes (or resets), whatever users run or cancel in between: retry_number is
\* counted from the first failure, so that total_retries includes the first run.
RunsAllowed == IF TotalRetries = 0 THEN 1 ELSE TotalRetries
AttemptsBounded == attempts <= RunsAllowed

NobodyLive == \A x \in Execs : ~Live(x)

\* Nobody has the task, and its document and its entry disagree: it is shown as queued or
\* running without an entry, or an entry is left that nothing will dispatch or remove.
Stranded ==
    /\ NobodyLive
    /\ IF entry THEN state # "queued_for_connection" ELSE state \in Active

\* A task is stranded only after a failure or a reset: no order of what the scheduler, the
\* users and the workers do takes a run from its task, or leaves its slot behind.
AbandonedAfterFailure == Stranded => used.faults > 0 \/ used.resets > 0

\* Where the task is with its lease, the entry in the connection's queue.
Phase ==
    CASE ~entry -> "free"
      [] entry /\ state = "queued_for_connection" -> "waiting"
      [] OTHER -> IF \E x \in Execs : pc[x] = "sent" THEN "sent"
                  ELSE IF \E x \in Execs : pc[x] = "finishing" THEN "closing"
                  ELSE IF \E x \in Execs : Live(x) THEN "executing"
                  ELSE "abandoned"

\* The scheduler, the users and the workers, each writing from what it read some time
\* ago, move the task as one owner at a time would (TaskLife): the states of
\* docs/04-concepts/08-task-states.md follow one another, and a run that is gone, or has
\* failed to give its lease back, leaves the task to nobody, where only a cancel reaches it.
Life == INSTANCE TaskLife WITH status <- state, phase <- Phase
ImplementsTaskLife == Life!Spec

\* A cancel of a queued or running task ends the run at a following poll even if the
\* operator never ends, or a user's new run withdraws the cancel; whatever fails meanwhile,
\* at worst the task is stranded.
CancelIsObeyed == cancel /\ state \in Active ~> state \notin Active \/ ~cancel \/ Stranded

\* The slot a task holds is given back, whatever operators do, fails or is reset, unless
\* the task is stranded.
SlotIsReturned == PollsEnd => (entry ~> ~entry \/ Stranded)

\* A task that is due, or has a retry left, is executed, unless it is cancelled, reset,
\* fails or is stranded.
ReadyTaskRuns ==
    Ready ~> \/ cancel \/ resetting \/ state = "fail" \/ Stranded
             \/ \E x \in Execs : Live(x)

\* "picks up tasks eligible for retry when retry_number < total_retries" (03-task.md:295):
\* an entry that was left behind does not keep a retry away.
RetryRuns == RetryReady ~> cancel \/ (\E x \in Execs : Live(x)) \/ state \notin Retryable

\* What the comments of the cleanup loop say: a task shown as running although no worker
\* has it does not stay so.
OrphanIsNoticed ==
    state = "running" /\ NobodyLive ~> state # "running" \/ \E x \in Execs : Live(x)

\* What the API reference says of a cancel: the operator's thread ends with it.
CancelEndsTheThread ==
    \A x \in Execs : pc[x] = "finishing" /\ outcome[x] = "cancelled" => thread[x] = "none"
=============================================================================
