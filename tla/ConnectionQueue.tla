--------------------------- MODULE ConnectionQueue ---------------------------
(***************************************************************************)
(* The connection queue: how load_balance_tasks and dequeue_task share the *)
(* queue entries and the counters of a connection.  Every action is one    *)
(* database command or one transaction of the code, so calls interleave    *)
(* wherever the code awaits.  Sort order is abstracted: any prefix of the  *)
(* right length may be popped (_sort_tasks itself is left out).          *)
(***************************************************************************)
EXTENDS Integers, FiniteSets

CONSTANTS
    Tasks,           \* task documents
    Conns,           \* connection documents
    Callers,         \* calls of load_balance_tasks that may overlap
    ConnOf,          \* the connection_laui of each task
    MaxParallelism,  \* max_parallelism each connection is created with
    NewLimits,       \* values a user may later give max_parallelism
    Faults,          \* the kinds of failure that may happen
    MaxFaults,       \* bound: failures in a behaviour
    MaxResets,       \* bound: calls of dangerously_reset_task
    MaxEdits,        \* bound: edits of max_parallelism
    MaxSubmits       \* bound: calls that bring tasks to enqueue

FaultKinds == {"enqueue_exhausted", "pop_aborted", "pop_exhausted", "publish_failed",
               "worker_lost", "false_reap", "dequeue_exhausted", "finish_retried"}

ASSUME ConstantsAssumption ==
    /\ IsFiniteSet(Tasks) /\ IsFiniteSet(Callers) /\ Conns # {}
    /\ ConnOf \in [Tasks -> Conns]
    /\ MaxParallelism \in [Conns -> Nat]
    /\ NewLimits \subseteq Nat
    /\ Faults \subseteq FaultKinds
    /\ MaxFaults \in Nat /\ MaxResets \in Nat /\ MaxEdits \in Nat /\ MaxSubmits \in Nat

VARIABLES
    state,        \* the state field of each task
    entries,      \* connection_queue documents: <<task, the call that inserted it>>
    maxPar,       \* connection.max_parallelism
    curPar,       \* connection.current_parallelism
    inQueue,      \* connection.in_queue
    pc,           \* where each call of load_balance_tasks is
    batch,        \* tasks the call has still to enqueue
    todo,         \* connections of the call's snapshot still to pick from
    snap,         \* tasks the snapshot showed as queued_for_connection
    popping,      \* connection being picked from and the pop_count computed for it
    runnable,     \* tasks the call will send to Celery
    running,      \* executions per task that Celery holds or a worker runs
    finishing,    \* executions per task whose final state is written, finish_task is not
    resetting,    \* tasks between the two steps of dangerously_reset_task
    used          \* how much of each bound is used

conn == <<maxPar, curPar, inQueue>>
call == <<pc, batch, todo, snap, popping, runnable>>
execs == <<running, finishing>>
vars == <<state, entries, conn, call, execs, resetting, used>>

States == {"scheduled", "queued_for_connection", "queued_in_redis", "running", "terminal"}
NoPop == [conn |-> CHOOSE k \in Conns : TRUE, count |-> 0]

EntriesOf(t) == {e \in entries : e[1] = t}
EntriesOn(k) == {e \in entries : ConnOf[e[1]] = k}
HasEntry(t) == EntriesOf(t) # {}
TasksOn(k, T) == {t \in T : ConnOf[t] = k}

Min2(a, b) == IF a <= b THEN a ELSE b

\* Mutant: the slice takes one task too many.
SliceLenInclusive(n, len) == IF n + 1 >= 0 THEN Min2(n + 1, len)
                             ELSE IF len + n + 1 >= 0 THEN len + n + 1 ELSE 0

\* What Python keeps of a list of length len under list[:n]; n may be negative.
SliceLen(n, len) == IF n >= 0 THEN Min2(n, len)
                    ELSE IF len + n >= 0 THEN len + n ELSE 0

Prefixes(T, n) == {S \in SUBSET T : Cardinality(S) = SliceLen(n, Cardinality(T))}

\* A failure of the given kind happens, within the bound on failures.
Fault(kind) ==
    /\ kind \in Faults
    /\ used.faults < MaxFaults
    /\ used' = [used EXCEPT !.faults = @ + 1]

Init ==
    /\ state = [t \in Tasks |-> "scheduled"]
    /\ entries = {}
    /\ maxPar = MaxParallelism
    /\ curPar = [k \in Conns |-> 0]
    /\ inQueue = [k \in Conns |-> 0]
    /\ pc = [c \in Callers |-> "idle"]
    /\ batch = [c \in Callers |-> {}]
    /\ todo = [c \in Callers |-> {}]
    /\ snap = [c \in Callers |-> {}]
    /\ popping = [c \in Callers |-> NoPop]
    /\ runnable = [c \in Callers |-> {}]
    /\ running = [t \in Tasks |-> 0]
    /\ finishing = [t \in Tasks |-> 0]
    /\ resetting = {}
    /\ used = [faults |-> 0, resets |-> 0, edits |-> 0, submits |-> 0]

-----------------------------------------------------------------------------
(* load_balance_tasks, one await at a time                                 *)

\* The call starts: _filter_already_queued reads the entries outside any lock.
LoadBalance(c, incoming) ==
    /\ pc[c] = "idle"
    /\ batch' = [batch EXCEPT ![c] = {t \in incoming : ~HasEntry(t)}]
    /\ pc' = [pc EXCEPT ![c] = "enqueue"]
    /\ UNCHANGED <<state, entries, conn, todo, snap, popping, runnable, execs, resetting>>

\* The scheduler's work loop calls every interval, also with no task that is due.
Tick(c) == LoadBalance(c, {}) /\ UNCHANGED used

\* The scheduler or a user brings tasks; neither path looks at their state here.
Submit(c) ==
    /\ used.submits < MaxSubmits
    /\ used' = [used EXCEPT !.submits = @ + 1]
    /\ \E incoming \in (SUBSET Tasks) \ {{}} : LoadBalance(c, incoming)

\* enqueue_tasks: one transaction per connection group of the batch.
EnqueueTasks(c, k) ==
    LET group == TasksOn(k, batch[c])
    IN  /\ pc[c] = "enqueue"
        /\ group # {}
        /\ entries' = entries \cup (group \X {c})
        /\ state' = [t \in Tasks |-> IF t \in group THEN "queued_for_connection" ELSE state[t]]
        /\ inQueue' = [inQueue EXCEPT ![k] = @ + Cardinality(group)]
        /\ batch' = [batch EXCEPT ![c] = @ \ group]
        /\ UNCHANGED <<maxPar, curPar, pc, todo, snap, popping, runnable, execs, resetting, used>>

\* Mutant: no transaction around the state and the entries, and the second write fails.
EnqueuePartly(c, k) ==
    /\ pc[c] = "enqueue"
    /\ TasksOn(k, batch[c]) # {}
    /\ Fault("enqueue_exhausted")
    /\ batch' = [batch EXCEPT ![c] = @ \ TasksOn(k, batch[c])]
    /\ state' = [t \in Tasks |-> IF t \in TasksOn(k, batch[c]) THEN "queued_for_connection"
                                ELSE state[t]]
    /\ UNCHANGED <<entries, conn, pc, todo, snap, popping, runnable, execs, resetting>>

\* All five attempts failed: _enqueue_tasks returns as if it had succeeded.
EnqueueExhausted(c, k) ==
    /\ pc[c] = "enqueue"
    /\ TasksOn(k, batch[c]) # {}
    /\ Fault("enqueue_exhausted")
    /\ batch' = [batch EXCEPT ![c] = @ \ TasksOn(k, batch[c])]
    /\ UNCHANGED <<state, entries, conn, pc, todo, snap, popping, runnable, execs, resetting>>

\* Mutant: tasks that were picked before are candidates again.
SnapshotOfAll(c) ==
    /\ pc[c] = "enqueue"
    /\ batch[c] = {}
    /\ todo' = [todo EXCEPT ![c] = {k \in Conns : EntriesOn(k) # {}}]
    /\ snap' = [snap EXCEPT ![c] = {t \in Tasks : HasEntry(t)}]
    /\ pc' = [pc EXCEPT ![c] = "pick"]
    /\ UNCHANGED <<state, entries, conn, batch, popping, runnable, execs, resetting, used>>

\* One aggregation: the entries of every connection, joined with their tasks.
GetConnectionsWithTasks(c) ==
    /\ pc[c] = "enqueue"
    /\ batch[c] = {}
    /\ todo' = [todo EXCEPT ![c] = {k \in Conns : EntriesOn(k) # {}}]
    /\ snap' = [snap EXCEPT ![c] = {t \in Tasks : /\ HasEntry(t)
                                                  /\ state[t] = "queued_for_connection"}]
    /\ pc' = [pc EXCEPT ![c] = "pick"]
    /\ UNCHANGED <<state, entries, conn, batch, popping, runnable, execs, resetting, used>>

\* Mutant: the running tasks are not subtracted from max_parallelism.
MetricsIgnoreRunning(c, k) ==
    /\ pc[c] = "pick"
    /\ k \in todo[c]
    /\ popping' = [popping EXCEPT ![c] =
                     [conn |-> k, count |-> Min2(maxPar[k], inQueue[k])]]
    /\ pc' = [pc EXCEPT ![c] = "pop"]
    /\ UNCHANGED <<state, entries, conn, batch, todo, snap, runnable, execs, resetting, used>>

\* Mutant: only the free slots count, not how many tasks wait.
MetricsIgnoreWaiting(c, k) ==
    /\ pc[c] = "pick"
    /\ k \in todo[c]
    /\ popping' = [popping EXCEPT ![c] = [conn |-> k, count |-> maxPar[k] - curPar[k]]]
    /\ pc' = [pc EXCEPT ![c] = "pop"]
    /\ UNCHANGED <<state, entries, conn, batch, todo, snap, runnable, execs, resetting, used>>

\* get_connection_metrics, read outside the lock, and the pop_count it gives.
GetConnectionMetrics(c, k) ==
    /\ pc[c] = "pick"
    /\ k \in todo[c]
    /\ popping' = [popping EXCEPT ![c] =
                     [conn |-> k, count |-> Min2(maxPar[k] - curPar[k], inQueue[k])]]
    /\ pc' = [pc EXCEPT ![c] = "pop"]
    /\ UNCHANGED <<state, entries, conn, batch, todo, snap, runnable, execs, resetting, used>>

\* The call is done with this connection and will dispatch the tasks of chosen.
Picked(c, chosen) ==
    /\ runnable' = [runnable EXCEPT ![c] = @ \cup chosen]
    /\ todo' = [todo EXCEPT ![c] = @ \ {popping[c].conn}]
    /\ popping' = [popping EXCEPT ![c] = NoPop]
    /\ pc' = [pc EXCEPT ![c] = "pick"]

\* Mutant: in_queue gives up the tasks selected, current_parallelism gains pop_count.
UpdateCountsSelected(c) ==
    LET k == popping[c].conn
        n == popping[c].count
    IN  /\ pc[c] = "pop"
        /\ \E chosen \in Prefixes(TasksOn(k, snap[c]), n) :
              /\ state' = [t \in Tasks |-> IF t \in chosen THEN "queued_in_redis" ELSE state[t]]
              /\ inQueue' = [inQueue EXCEPT ![k] = @ - Cardinality(chosen)]
              /\ Picked(c, chosen)
        /\ curPar' = [curPar EXCEPT ![k] = @ + n]
        /\ UNCHANGED <<entries, maxPar, batch, snap, execs, resetting, used>>

\* Mutant: the whole sorted list is marked, only its prefix is dispatched.
UpdateMarksAll(c) ==
    LET k == popping[c].conn
        n == popping[c].count
    IN  /\ pc[c] = "pop"
        /\ state' = [t \in Tasks |-> IF t \in TasksOn(k, snap[c]) THEN "queued_in_redis"
                                    ELSE state[t]]
        /\ \E chosen \in Prefixes(TasksOn(k, snap[c]), n) : Picked(c, chosen)
        /\ curPar' = [curPar EXCEPT ![k] = @ + n]
        /\ inQueue' = [inQueue EXCEPT ![k] = @ - n]
        /\ UNCHANGED <<entries, maxPar, batch, snap, execs, resetting, used>>

\* update_connection_with_tasks: nothing is read again inside the transaction.
UpdateConnectionWithTasks(c) ==
    LET k == popping[c].conn
        n == popping[c].count
    IN  /\ pc[c] = "pop"
        /\ \E chosen \in Prefixes(TasksOn(k, snap[c]), n) :
              /\ state' = [t \in Tasks |-> IF t \in chosen THEN "queued_in_redis" ELSE state[t]]
              /\ Picked(c, chosen)
        /\ curPar' = [curPar EXCEPT ![k] = @ + n]
        /\ inQueue' = [inQueue EXCEPT ![k] = @ - n]
        /\ UNCHANGED <<entries, maxPar, batch, snap, execs, resetting, used>>

\* A write conflict or a lock error: the loop reads the metrics again.
PopAborted(c) ==
    /\ pc[c] = "pop"
    /\ Fault("pop_aborted")
    /\ pc' = [pc EXCEPT ![c] = "pick"]
    /\ popping' = [popping EXCEPT ![c] = NoPop]
    /\ UNCHANGED <<state, entries, conn, batch, todo, snap, runnable, execs, resetting>>

\* All attempts failed: the manager returns None and sorted_tasks[:None] is everything.
PopExhausted(c) ==
    /\ pc[c] = "pop"
    /\ Fault("pop_exhausted")
    /\ Picked(c, TasksOn(popping[c].conn, snap[c]))
    /\ UNCHANGED <<state, entries, conn, batch, snap, execs, resetting>>

\* execute_tasks sends the picked tasks to Celery one after the other.
RunTask(c, t) ==
    /\ pc[c] = "pick" /\ todo[c] = {}
    /\ t \in runnable[c]
    /\ running' = [running EXCEPT ![t] = @ + 1]
    /\ runnable' = [runnable EXCEPT ![c] = @ \ {t}]
    /\ UNCHANGED <<state, entries, conn, pc, batch, todo, snap, popping, finishing,
                   resetting, used>>

Return(c) ==
    /\ pc' = [pc EXCEPT ![c] = "idle"]
    /\ snap' = [snap EXCEPT ![c] = {}]
    /\ runnable' = [runnable EXCEPT ![c] = {}]
    /\ UNCHANGED <<state, entries, conn, batch, todo, popping, execs, resetting>>

LoadBalanced(c) ==
    /\ pc[c] = "pick" /\ todo[c] = {} /\ runnable[c] = {}
    /\ Return(c)
    /\ UNCHANGED used

\* An exception leaves the call while it picks tasks, replaces their placeholders or sends
\* them (run_task): what was picked and not sent is never sent.
RunTaskRaises(c) ==
    /\ pc[c] = "pick" /\ (todo[c] # {} \/ runnable[c] # {})
    /\ Fault("publish_failed")
    /\ Return(c)

-----------------------------------------------------------------------------
(* What reaches the queue from the workers, the reaper and the user        *)

\* The first update and every heartbeat of an execution write state "running".
WorkerRunning(t) ==
    /\ running[t] > 0
    /\ state' = [state EXCEPT ![t] = "running"]
    /\ UNCHANGED <<entries, conn, call, execs, resetting, used>>

\* Mutant: the status the execution never set is written as it is.
WorkerEndsUnset(t) ==
    /\ running[t] > 0
    /\ state' = [state EXCEPT ![t] = ""]
    /\ running' = [running EXCEPT ![t] = @ - 1]
    /\ finishing' = [finishing EXCEPT ![t] = @ + 1]
    /\ UNCHANGED <<entries, conn, call, resetting, used>>

\* The execution writes its final state; finish_task is a later request.
WorkerEnds(t) ==
    /\ running[t] > 0
    /\ state' = [state EXCEPT ![t] = "terminal"]
    /\ running' = [running EXCEPT ![t] = @ - 1]
    /\ finishing' = [finishing EXCEPT ![t] = @ + 1]
    /\ UNCHANGED <<entries, conn, call, resetting, used>>

\* The message was acknowledged on delivery: a killed worker loses it.
WorkerLost(t) ==
    /\ running[t] > 0
    /\ Fault("worker_lost")
    /\ running' = [running EXCEPT ![t] = @ - 1]
    /\ UNCHANGED <<state, entries, conn, call, finishing, resetting>>

\* Mutant: every running task is reaped, whatever its heartbeat.
ReapRunning(t) ==
    /\ state[t] = "running"
    /\ state' = [state EXCEPT ![t] = "terminal"]
    /\ finishing' = [finishing EXCEPT ![t] = @ + 1]
    /\ UNCHANGED <<entries, conn, call, running, resetting, used>>

\* The cleanup loop fails a task it finds running with a stale heartbeat.
ReapStale(t) ==
    /\ state[t] = "running"
    /\ IF running[t] = 0 THEN UNCHANGED used ELSE Fault("false_reap")
    /\ state' = [state EXCEPT ![t] = "terminal"]
    /\ finishing' = [finishing EXCEPT ![t] = @ + 1]
    /\ UNCHANGED <<entries, conn, call, running, resetting>>

\* Mutant: the entry goes and current_parallelism stays.
DequeueKeepsCount(t) ==
    /\ entries' = entries \ EntriesOf(t)
    /\ UNCHANGED curPar

\* The transaction of dequeue_task; without an entry it changes nothing.
DequeueTask(t) ==
    \/ /\ ~HasEntry(t)
       /\ UNCHANGED <<entries, curPar>>
    \/ \E e \in EntriesOf(t) :
          /\ entries' = entries \ {e}
          /\ curPar' = [curPar EXCEPT ![ConnOf[t]] = @ - 1]

\* The /task/finish request of an execution that ended.
FinishTask(t) ==
    /\ finishing[t] > 0
    /\ DequeueTask(t)
    /\ finishing' = [finishing EXCEPT ![t] = @ - 1]
    /\ UNCHANGED <<state, maxPar, inQueue, call, running, resetting, used>>

\* The reply of /task/finish is lost; the client will send the request again.
FinishReplyLost(t) ==
    /\ finishing[t] > 0
    /\ Fault("finish_retried")
    /\ DequeueTask(t)
    /\ UNCHANGED <<state, maxPar, inQueue, call, execs, resetting>>

\* Five aborted transactions: dequeue_task returns and the entry stays.
DequeueExhausted(t) ==
    /\ finishing[t] > 0
    /\ Fault("dequeue_exhausted")
    /\ finishing' = [finishing EXCEPT ![t] = @ - 1]
    /\ UNCHANGED <<state, entries, conn, call, running, resetting>>

\* dangerously_reset_task frees the entry first ...
ResetDequeues(t) ==
    /\ t \notin resetting
    /\ used.resets < MaxResets
    /\ used' = [used EXCEPT !.resets = @ + 1]
    /\ DequeueTask(t)
    /\ resetting' = resetting \cup {t}
    /\ UNCHANGED <<state, maxPar, inQueue, call, execs>>

\* ... and then writes the state; an execution under way is not stopped.
ResetWrites(t) ==
    /\ t \in resetting
    /\ state' = [state EXCEPT ![t] = "scheduled"]
    /\ resetting' = resetting \ {t}
    /\ UNCHANGED <<entries, conn, call, execs, used>>

\* A user edits max_parallelism while tasks run and wait.
EditMaxParallelism(k, limit) ==
    /\ used.edits < MaxEdits
    /\ limit # maxPar[k]
    /\ used' = [used EXCEPT !.edits = @ + 1]
    /\ maxPar' = [maxPar EXCEPT ![k] = limit]
    /\ UNCHANGED <<state, entries, curPar, inQueue, call, execs, resetting>>

-----------------------------------------------------------------------------
CallerStep(c) ==
    \/ \E k \in Conns : EnqueueTasks(c, k)
    \/ GetConnectionsWithTasks(c)
    \/ \E k \in Conns : GetConnectionMetrics(c, k)
    \/ UpdateConnectionWithTasks(c)
    \/ \E t \in Tasks : RunTask(c, t)
    \/ LoadBalanced(c)

CallerFault(c) ==
    \/ \E k \in Conns : EnqueueExhausted(c, k)
    \/ PopAborted(c)
    \/ PopExhausted(c)
    \/ RunTaskRaises(c)

TaskStep(t) ==
    \/ WorkerRunning(t) \/ WorkerEnds(t) \/ WorkerLost(t) \/ ReapStale(t)
    \/ FinishTask(t) \/ FinishReplyLost(t) \/ DequeueExhausted(t)
    \/ ResetDequeues(t) \/ ResetWrites(t)

Next ==
    \/ \E c \in Callers : Tick(c) \/ Submit(c) \/ CallerStep(c) \/ CallerFault(c)
    \/ \E t \in Tasks : TaskStep(t)
    \/ \E k \in Conns, limit \in NewLimits : EditMaxParallelism(k, limit)

Spec == Init /\ [][Next]_vars

\* A call that started goes on, the work loop ticks for ever, workers run what they are
\* given and report it.  Nothing is assumed of users, faults or the reaper.
Fairness ==
    /\ \A c \in Callers : WF_vars(Tick(c)) /\ WF_vars(CallerStep(c))
    /\ \A t \in Tasks : WF_vars(WorkerEnds(t)) /\ WF_vars(FinishTask(t))

FairSpec == Spec /\ Fairness

-----------------------------------------------------------------------------
TypeOK ==
    /\ state \in [Tasks -> States]
    /\ entries \subseteq Tasks \X Callers
    /\ maxPar \in [Conns -> Nat]
    /\ curPar \in [Conns -> Int]
    /\ inQueue \in [Conns -> Int]
    /\ pc \in [Callers -> {"idle", "enqueue", "pick", "pop"}]
    /\ batch \in [Callers -> SUBSET Tasks]
    /\ todo \in [Callers -> SUBSET Conns]
    /\ snap \in [Callers -> SUBSET Tasks]
    /\ popping \in [Callers -> [conn : Conns, count : Int]]
    /\ runnable \in [Callers -> SUBSET Tasks]
    /\ running \in [Tasks -> Nat]
    /\ finishing \in [Tasks -> Nat]
    /\ resetting \subseteq Tasks
    /\ used \in [faults : 0..MaxFaults, resets : 0..MaxResets,
                 edits : 0..MaxEdits, submits : 0..MaxSubmits]

\* The counters and the entries never drift apart: however calls overlap and whatever
\* fails, current_parallelism + in_queue is the number of connection_queue documents of
\* the connection.  Every transaction of the repository must move both together.
Conservation ==
    \A k \in Conns : curPar[k] + inQueue[k] = Cardinality(EntriesOn(k))

\* No caller is about to insert an entry it already has (what makes entries countable).
FreshBatch == \A c \in Callers : \A t \in batch[c] : <<t, c>> \notin entries

\* current_parallelism stays within the values max_parallelism can take, however often
\* it is edited and whatever fails: the pop computed from unlocked reads is still safe to
\* apply when no other call popped in between.
CeilingRespected ==
    \A k \in Conns : \E limit \in NewLimits \cup {MaxParallelism[k]} : curPar[k] <= limit

ExecutionsOn(k) ==
    {e \in Tasks \X (1..(MaxSubmits + MaxFaults + MaxResets)) :
        ConnOf[e[1]] = k /\ e[2] <= running[e[1]]}

\* The documented limit: a connection runs no more executions than max_parallelism.
ParallelismLimit == \A k \in Conns : Cardinality(ExecutionsOn(k)) <= maxPar[k]

\* Every execution is paid for: the executions of a connection never outnumber its
\* current_parallelism, so the counter is a safe basis to admit more.
ExecutionsAreCounted == \A k \in Conns : Cardinality(ExecutionsOn(k)) <= curPar[k]

\* current_parallelism counts running tasks, so it cannot be negative.
CountIsNotNegative == \A k \in Conns : curPar[k] >= 0

\* Enqueueing is idempotent: a task has at most one connection_queue document.
OneEntryPerTask == \A t \in Tasks : Cardinality(EntriesOf(t)) <= 1

\* A task is run by at most one execution at a time.
OneExecutionPerTask == \A t \in Tasks : running[t] <= 1

\* A task shown as queued_in_redis is on its way: a call still has to send it, or Celery
\* holds an execution of it.
QueuedInRedisIsBacked ==
    \A t \in Tasks : state[t] = "queued_in_redis" =>
        running[t] > 0 \/ \E c \in Callers : t \in runnable[c]

\* A task shown as queued_for_connection has an entry, so a later call finds it: the
\* aggregation starts from the entries and the ready-to-run query skips queued tasks.
QueuedIsReachable ==
    \A t \in Tasks : state[t] = "queued_for_connection" => HasEntry(t)

\* Tasks are picked into free slots only: a call adds to what it will dispatch only when
\* the pop_count it computed is positive.
PickedIntoFreeSlots ==
    [][\A c \in Callers : ~(runnable'[c] \subseteq runnable[c]) => popping[c].count > 0]_vars

\* A waiting task is picked up in a later scheduling cycle.
WaitingIsPickedUp ==
    \A t \in Tasks : state[t] = "queued_for_connection" ~> state[t] # "queued_for_connection"

\* The counters of a connection behave as a pool of max_parallelism slots.
Pool == INSTANCE SlotPool WITH held <- curPar, waiting <- inQueue, Capacity <- MaxParallelism
ImplementsSlotPool == Pool!Spec
=============================================================================
