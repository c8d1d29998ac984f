----------------------- MODULE ConnectionQueueProofs ------------------------
(* Theorems about ConnectionQueue, for every value of its constants; the last *)
(* part is about calls that come one at a time, for any tasks, connections,  *)
(* limits and bounds.                                                        *)
EXTENDS ConnectionQueue, FiniteSetTheorems, TLAPS

(* Type correctness                                                        *)

\* pop_count is a number: min of two numbers of the metrics that were read.
LEMMA NoPopType == NoPop \in [conn : Conns, count : Int]
  BY ConstantsAssumption DEF NoPop

(* Counting a fault keeps the type of the counters.                          *)
LEMMA FaultType ==
  ASSUME NEW kind, TypeOK, Fault(kind)
  PROVE  used' \in [faults : 0..MaxFaults, resets : 0..MaxResets,
                    edits : 0..MaxEdits, submits : 0..MaxSubmits]
  BY ConstantsAssumption DEF Fault, TypeOK

\* A call's own steps keep every variable in its type.
LEMMA CallTypes ==
  ASSUME TypeOK, NEW c \in Callers,
         Tick(c) \/ Submit(c) \/ CallerStep(c) \/ CallerFault(c)
  PROVE  TypeOK'
<1> USE ConstantsAssumption, NoPopType
<1>1. CASE Tick(c)
  BY <1>1 DEF Tick, LoadBalance, TypeOK, conn, execs
<1>2. CASE Submit(c)
  <2>1. PICK incoming \in SUBSET Tasks : LoadBalance(c, incoming)
    BY <1>2 DEF Submit
  <2>2. used' \in [faults : 0..MaxFaults, resets : 0..MaxResets,
                   edits : 0..MaxEdits, submits : 0..MaxSubmits]
    <3>1. used.submits < MaxSubmits /\ used' = [used EXCEPT !.submits = @ + 1]
      BY <1>2 DEF Submit
    <3>2. used \in [faults : 0..MaxFaults, resets : 0..MaxResets,
                    edits : 0..MaxEdits, submits : 0..MaxSubmits]
      BY DEF TypeOK
    <3>. QED BY ONLY <3>1, <3>2, ConstantsAssumption
  <2>3. batch' \in [Callers -> SUBSET Tasks]
    BY <2>1 DEF LoadBalance, TypeOK
  <2>. QED BY <2>1, <2>2, <2>3 DEF LoadBalance, TypeOK, conn, execs
<1>3. CASE CallerStep(c)
  <2>1. ASSUME NEW k \in Conns, EnqueueTasks(c, k) PROVE TypeOK'
    <3> DEFINE group == TasksOn(k, batch[c])
    <3>1. group \subseteq Tasks /\ Cardinality(group) \in Nat
      BY FS_Subset, FS_CardinalityType DEF TypeOK, TasksOn
    <3>2. state' \in [Tasks -> States]
      BY <2>1 DEF EnqueueTasks, TypeOK, States
    <3>3. inQueue' \in [Conns -> Int] /\ entries' \subseteq Tasks \X Callers
      BY <2>1, <3>1 DEF EnqueueTasks, TypeOK
    <3>. QED BY <2>1, <3>1, <3>2, <3>3 DEF EnqueueTasks, TypeOK, execs
  <2>2. CASE GetConnectionsWithTasks(c)
    BY <2>2 DEF GetConnectionsWithTasks, TypeOK, conn, execs
  <2>3. ASSUME NEW k \in Conns, GetConnectionMetrics(c, k) PROVE TypeOK'
    <3>1. Min2(maxPar[k] - curPar[k], inQueue[k]) \in Int
      BY DEF TypeOK, Min2
    <3>. QED BY <2>3, <3>1 DEF GetConnectionMetrics, TypeOK, conn, execs
  <2>4. CASE UpdateConnectionWithTasks(c)
    <3> DEFINE k == popping[c].conn
               n == popping[c].count
    <3>1. k \in Conns /\ n \in Int
      BY DEF TypeOK
    <3>2. PICK chosen \in Prefixes(TasksOn(k, snap[c]), n) :
             /\ state' = [t \in Tasks |-> IF t \in chosen THEN "queued_in_redis" ELSE state[t]]
             /\ Picked(c, chosen)
      BY <2>4 DEF UpdateConnectionWithTasks
    <3>3. chosen \subseteq Tasks
      BY <3>2 DEF Prefixes, TasksOn, TypeOK
    <3>4. state' \in [Tasks -> States]
      BY <3>2 DEF TypeOK, States
    <3>5. /\ runnable' \in [Callers -> SUBSET Tasks]
          /\ todo' \in [Callers -> SUBSET Conns]
          /\ popping' \in [Callers -> [conn : Conns, count : Int]]
          /\ pc' \in [Callers -> {"idle", "enqueue", "pick", "pop"}]
      BY <3>2, <3>3 DEF Picked, TypeOK
    <3>6. curPar' \in [Conns -> Int] /\ inQueue' \in [Conns -> Int]
      BY <2>4, <3>1 DEF UpdateConnectionWithTasks, TypeOK
    <3>. QED BY <2>4, <3>4, <3>5, <3>6 DEF UpdateConnectionWithTasks, TypeOK, execs
  <2>5. ASSUME NEW t \in Tasks, RunTask(c, t) PROVE TypeOK'
    BY <2>5 DEF RunTask, TypeOK, conn
  <2>6. CASE LoadBalanced(c)
    BY <2>6 DEF LoadBalanced, Return, TypeOK, conn, execs
  <2>. QED BY <1>3, <2>1, <2>2, <2>3, <2>4, <2>5, <2>6 DEF CallerStep
<1>4. CASE CallerFault(c)
  <2>1. ASSUME NEW k \in Conns, EnqueueExhausted(c, k) PROVE TypeOK'
    BY <2>1, FaultType DEF EnqueueExhausted, TypeOK, conn, execs
  <2>2. CASE PopAborted(c)
    BY <2>2, FaultType DEF PopAborted, TypeOK, conn, execs
  <2>3. CASE PopExhausted(c)
    BY <2>3, FaultType DEF PopExhausted, Picked, TasksOn, TypeOK, conn, execs
  <2>4. CASE RunTaskRaises(c)
    BY <2>4, FaultType DEF RunTaskRaises, Return, TypeOK, conn, execs
  <2>. QED BY <1>4, <2>1, <2>2, <2>3, <2>4 DEF CallerFault
<1>. QED BY <1>1, <1>2, <1>3, <1>4

\* Removing the entry of a task keeps the entries and the counter in their types.
LEMMA DequeueTypes ==
  ASSUME TypeOK, NEW t \in Tasks, DequeueTask(t)
  PROVE  entries' \subseteq Tasks \X Callers /\ curPar' \in [Conns -> Int]
  BY ConstantsAssumption DEF DequeueTask, EntriesOf, TypeOK

\* So do the steps of workers, of the reaper and of a reset.
LEMMA TaskTypes ==
  ASSUME TypeOK, NEW t \in Tasks, TaskStep(t)
  PROVE  TypeOK'
<1> USE ConstantsAssumption
<1>1. CASE WorkerRunning(t)
  BY <1>1 DEF WorkerRunning, TypeOK, States, conn, call, execs
<1>2. CASE WorkerEnds(t)
  BY <1>2 DEF WorkerEnds, TypeOK, States, conn, call
<1>3. CASE WorkerLost(t)
  <2>1. running' \in [Tasks -> Nat]
    BY <1>3 DEF WorkerLost, TypeOK
  <2>2. Fault("worker_lost") /\ UNCHANGED <<state, entries, conn, call, finishing, resetting>>
    BY <1>3 DEF WorkerLost
  <2>. QED BY <2>1, <2>2, FaultType DEF TypeOK, conn, call
<1>4. CASE ReapStale(t)
  <2>1. used' \in [faults : 0..MaxFaults, resets : 0..MaxResets,
                   edits : 0..MaxEdits, submits : 0..MaxSubmits]
    BY <1>4, FaultType DEF ReapStale, TypeOK
  <2>. QED BY <1>4, <2>1 DEF ReapStale, TypeOK, States, conn, call
<1>5. CASE FinishTask(t)
  <2>1. finishing' \in [Tasks -> Nat]
    BY <1>5 DEF FinishTask, TypeOK
  <2>2. DequeueTask(t) /\ UNCHANGED <<state, maxPar, inQueue, call, running, resetting, used>>
    BY <1>5 DEF FinishTask
  <2>. QED BY <2>1, <2>2, DequeueTypes DEF TypeOK, call
<1>6. CASE FinishReplyLost(t)
  BY <1>6, DequeueTypes, FaultType DEF FinishReplyLost, TypeOK, call, execs
<1>7. CASE DequeueExhausted(t)
  <2>1. finishing' \in [Tasks -> Nat]
    BY <1>7 DEF DequeueExhausted, TypeOK
  <2>2. /\ Fault("dequeue_exhausted")
        /\ UNCHANGED <<state, entries, conn, call, running, resetting>>
    BY <1>7 DEF DequeueExhausted
  <2>. QED BY <2>1, <2>2, FaultType DEF TypeOK, conn, call
<1>8. CASE ResetDequeues(t)
  <2>1. used.resets < MaxResets /\ used' = [used EXCEPT !.resets = @ + 1]
    BY <1>8 DEF ResetDequeues
  <2>2. used' \in [faults : 0..MaxFaults, resets : 0..MaxResets,
                   edits : 0..MaxEdits, submits : 0..MaxSubmits]
    BY <2>1 DEF TypeOK
  <2>. QED BY <1>8, <2>2, DequeueTypes DEF ResetDequeues, TypeOK, call, execs
<1>9. CASE ResetWrites(t)
  BY <1>9 DEF ResetWrites, TypeOK, States, conn, call, execs
<1>. QED BY <1>1, <1>2, <1>3, <1>4, <1>5, <1>6, <1>7, <1>8, <1>9 DEF TaskStep

\* Every variable keeps its type in every behaviour of the queue.
THEOREM TypeCorrect == Spec => []TypeOK
<1>1. Init => TypeOK
  BY ConstantsAssumption, NoPopType DEF Init, TypeOK, States
<1>2. TypeOK /\ [Next]_vars => TypeOK'
  <2> SUFFICES ASSUME TypeOK, [Next]_vars PROVE TypeOK'
    OBVIOUS
  <2>1. ASSUME NEW c \in Callers, Tick(c) \/ Submit(c) \/ CallerStep(c) \/ CallerFault(c)
        PROVE  TypeOK'
    BY <2>1, CallTypes
  <2>2. ASSUME NEW t \in Tasks, TaskStep(t) PROVE TypeOK'
    BY <2>2, TaskTypes
  <2>3. ASSUME NEW k \in Conns, NEW limit \in NewLimits, EditMaxParallelism(k, limit)
        PROVE  TypeOK'
    BY <2>3, ConstantsAssumption DEF EditMaxParallelism, TypeOK, call, execs
  <2>4. CASE UNCHANGED vars
    BY <2>4 DEF vars, conn, call, execs, TypeOK
  <2>. QED BY <2>1, <2>2, <2>3, <2>4 DEF Next
<1>. QED BY <1>1, <1>2, PTL DEF Spec

-----------------------------------------------------------------------------
(* Conservation of entries                                                 *)

\* The entries of a connection can be counted.
LEMMA EntriesCountable ==
  ASSUME TypeOK, NEW k \in Conns
  PROVE  IsFiniteSet(entries) /\ IsFiniteSet(EntriesOn(k)) /\ Cardinality(EntriesOn(k)) \in Nat
<1>1. IsFiniteSet(Tasks \X Callers)
  BY FS_Product, ConstantsAssumption
<1>2. IsFiniteSet(entries)
  BY <1>1, FS_Subset DEF TypeOK
<1>3. EntriesOn(k) \in SUBSET entries
  BY DEF EntriesOn
<1>. QED BY <1>2, <1>3, FS_Subset, FS_CardinalityType

\* Steps that touch neither an entry nor a counter, and give no call a task to enqueue.
LEMMA CountersAlone ==
  ASSUME FreshBatch, Conservation, UNCHANGED <<entries, curPar, inQueue>>,
         \A c \in Callers : batch'[c] \subseteq batch[c]
  PROVE  FreshBatch' /\ Conservation'
  BY DEF FreshBatch, Conservation, EntriesOn

\* The filter of the starting call leaves only tasks without an entry.
LEMMA LoadBalanceFresh ==
  ASSUME TypeOK, FreshBatch, Conservation, NEW c \in Callers, NEW incoming \in SUBSET Tasks,
         LoadBalance(c, incoming)
  PROVE  FreshBatch' /\ Conservation'
<1>1. Conservation'
  BY DEF LoadBalance, conn, Conservation, EntriesOn
<1>2. ASSUME NEW d \in Callers, NEW t \in batch'[d] PROVE <<t, d>> \notin entries'
  <2>1. CASE d = c
    <3>1. t \in incoming /\ ~HasEntry(t)
      BY <2>1, <1>2 DEF LoadBalance, TypeOK
    <3>2. <<t, d>> \notin EntriesOf(t)
      BY <3>1 DEF HasEntry
    <3>. QED BY <3>2 DEF EntriesOf, LoadBalance
  <2>2. CASE d # c
    BY <2>2, <1>2 DEF LoadBalance, TypeOK, FreshBatch
  <2>. QED BY <2>1, <2>2
<1>. QED BY <1>1, <1>2 DEF FreshBatch

\* The transaction of enqueue_tasks inserts as many entries as it adds to in_queue.
LEMMA EnqueueConserves ==
  ASSUME TypeOK, FreshBatch, Conservation, NEW c \in Callers, NEW k \in Conns,
         EnqueueTasks(c, k)
  PROVE  FreshBatch' /\ Conservation'
<1> DEFINE group == TasksOn(k, batch[c])
           added == group \X {c}
<1>1. group \subseteq batch[c] /\ group \in SUBSET Tasks /\ \A t \in group : ConnOf[t] = k
  BY DEF TasksOn, TypeOK
<1>2. /\ entries' = entries \cup added
      /\ curPar' = curPar
      /\ inQueue' = [inQueue EXCEPT ![k] = @ + Cardinality(group)]
      /\ batch' = [batch EXCEPT ![c] = @ \ group]
  BY DEF EnqueueTasks
<1> HIDE DEF group
<1>3. FreshBatch'
  <2> SUFFICES ASSUME NEW d \in Callers, NEW t \in batch'[d] PROVE <<t, d>> \notin entries'
    BY DEF FreshBatch
  <2>1. t \in batch[d] /\ (d = c => t \notin group)
    BY <1>2 DEF TypeOK
  <2>2. <<t, d>> \notin entries /\ <<t, d>> \notin added
    BY <2>1 DEF FreshBatch
  <2>. QED BY <1>2, <2>2
<1>4. IsFiniteSet(added) /\ Cardinality(added) = Cardinality(group) /\ Cardinality(group) \in Nat
  <2>1. IsFiniteSet(group) /\ Cardinality(group) \in Nat
    BY <1>1, ConstantsAssumption, FS_Subset, FS_CardinalityType
  <2>2. IsFiniteSet({c}) /\ Cardinality({c}) = 1
    BY FS_Singleton
  <2>3. IsFiniteSet(group \X {c}) /\ Cardinality(group \X {c}) = Cardinality(group) * 1
    BY <2>1, <2>2, FS_Product
  <2>. QED BY <2>1, <2>3
<1>5. entries \cap added = {}
  BY <1>1 DEF FreshBatch
<1>6. ASSUME NEW j \in Conns PROVE curPar'[j] + inQueue'[j] = Cardinality(EntriesOn(j)')
  <2>1. IsFiniteSet(EntriesOn(j)) /\ Cardinality(EntriesOn(j)) \in Nat
    BY EntriesCountable
  <2>2. /\ curPar[j] + inQueue[j] = Cardinality(EntriesOn(j))
        /\ curPar[j] \in Int /\ inQueue[j] \in Int
    BY DEF Conservation, TypeOK
  <2>3. CASE j = k
    <3>1. EntriesOn(j)' = EntriesOn(j) \cup added
      BY <1>1, <1>2, <2>3 DEF EntriesOn
    <3>2. EntriesOn(j) \cap added = {}
      BY <1>5 DEF EntriesOn
    <3>3. Cardinality(EntriesOn(j) \cup added) =
            Cardinality(EntriesOn(j)) + Cardinality(added) - Cardinality({})
      BY <2>1, <1>4, <3>2, FS_Union
    <3>4. Cardinality(EntriesOn(j)') = Cardinality(EntriesOn(j)) + Cardinality(group)
      BY <3>1, <3>3, <2>1, <1>4, FS_EmptySet
    <3>5. curPar'[j] = curPar[j] /\ inQueue'[j] = inQueue[j] + Cardinality(group)
      BY <1>2, <2>3 DEF TypeOK
    <3>. QED BY <3>4, <3>5, <2>2, <2>1, <1>4
  <2>4. CASE j # k
    <3>1. EntriesOn(j)' = EntriesOn(j)
      BY <1>1, <1>2, <2>4 DEF EntriesOn
    <3>2. curPar'[j] = curPar[j] /\ inQueue'[j] = inQueue[j]
      BY <1>2, <2>4 DEF TypeOK
    <3>. QED BY <3>1, <3>2, <2>2
  <2>. QED BY <2>3, <2>4
<1>. QED BY <1>3, <1>6 DEF Conservation

\* The pop moves pop_count from in_queue to current_parallelism, whatever was selected.
LEMMA UpdateConserves ==
  ASSUME TypeOK, FreshBatch, Conservation, NEW c \in Callers, UpdateConnectionWithTasks(c)
  PROVE  FreshBatch' /\ Conservation'
<1> DEFINE k == popping[c].conn
           n == popping[c].count
<1>1. k \in Conns /\ n \in Int
  BY DEF TypeOK
<1>2. /\ curPar' = [curPar EXCEPT ![k] = @ + n]
      /\ inQueue' = [inQueue EXCEPT ![k] = @ - n]
      /\ UNCHANGED <<entries, batch>>
  BY DEF UpdateConnectionWithTasks
<1> HIDE DEF k, n
<1>3. ASSUME NEW j \in Conns PROVE curPar'[j] + inQueue'[j] = Cardinality(EntriesOn(j)')
  <2>1. EntriesOn(j)' = EntriesOn(j)
    BY <1>2 DEF EntriesOn
  <2>2. /\ curPar[j] + inQueue[j] = Cardinality(EntriesOn(j))
        /\ curPar[j] \in Int /\ inQueue[j] \in Int
    BY DEF Conservation, TypeOK
  <2>3. curPar'[j] + inQueue'[j] = curPar[j] + inQueue[j]
    BY <1>1, <1>2, <2>2 DEF TypeOK
  <2>. QED BY <2>1, <2>2, <2>3
<1>. QED BY <1>2, <1>3 DEF Conservation, FreshBatch

\* dequeue_task deletes one entry and takes one off current_parallelism, or does nothing.
LEMMA DequeueConserves ==
  ASSUME TypeOK, FreshBatch, Conservation, NEW t \in Tasks, DequeueTask(t),
         UNCHANGED <<inQueue, batch>>
  PROVE  FreshBatch' /\ Conservation'
<1>1. CASE UNCHANGED <<entries, curPar>>
  BY <1>1, CountersAlone
<1>2. ASSUME NEW e \in EntriesOf(t), entries' = entries \ {e},
             curPar' = [curPar EXCEPT ![ConnOf[t]] = @ - 1]
      PROVE  FreshBatch' /\ Conservation'
  <2>1. e \in entries /\ ConnOf[e[1]] = ConnOf[t] /\ ConnOf[t] \in Conns
    BY ConstantsAssumption DEF EntriesOf
  <2>2. ASSUME NEW j \in Conns PROVE curPar'[j] + inQueue'[j] = Cardinality(EntriesOn(j)')
    <3>1. IsFiniteSet(EntriesOn(j)) /\ Cardinality(EntriesOn(j)) \in Nat
      BY EntriesCountable
    <3>2. /\ curPar[j] + inQueue[j] = Cardinality(EntriesOn(j))
          /\ curPar[j] \in Int /\ inQueue[j] \in Int
      BY DEF Conservation, TypeOK
    <3>3. CASE j = ConnOf[t]
      <4>1. EntriesOn(j)' = EntriesOn(j) \ {e} /\ e \in EntriesOn(j)
        BY <1>2, <2>1, <3>3 DEF EntriesOn
      <4>2. Cardinality(EntriesOn(j)') = Cardinality(EntriesOn(j)) - 1
        BY <4>1, <3>1, FS_RemoveElement
      <4>3. curPar'[j] = curPar[j] - 1
        BY <1>2, <3>3 DEF TypeOK
      <4>. QED BY <4>2, <4>3, <3>1, <3>2
    <3>4. CASE j # ConnOf[t]
      <4>1. EntriesOn(j)' = EntriesOn(j)
        BY <1>2, <2>1, <3>4 DEF EntriesOn
      <4>2. curPar'[j] = curPar[j]
        BY <1>2, <3>4 DEF TypeOK
      <4>. QED BY <4>1, <4>2, <3>2
    <3>. QED BY <3>3, <3>4
  <2>. QED BY <2>2, <1>2 DEF Conservation, FreshBatch
<1>. QED BY <1>1, <1>2 DEF DequeueTask

QueueInv == TypeOK /\ FreshBatch /\ Conservation

\* No step of any call, worker, reaper or user separates the counters from the entries.
LEMMA StepConserves ==
  ASSUME QueueInv, Next
  PROVE  FreshBatch' /\ Conservation'
<1> USE DEF QueueInv
<1>1. ASSUME NEW c \in Callers, Tick(c) PROVE FreshBatch' /\ Conservation'
  BY <1>1, LoadBalanceFresh DEF Tick
<1>2. ASSUME NEW c \in Callers, Submit(c) PROVE FreshBatch' /\ Conservation'
  <2>1. PICK incoming \in SUBSET Tasks : LoadBalance(c, incoming)
    BY <1>2 DEF Submit
  <2>. QED BY <2>1, LoadBalanceFresh
<1>3. ASSUME NEW c \in Callers, CallerStep(c) PROVE FreshBatch' /\ Conservation'
  <2>1. ASSUME NEW k \in Conns, EnqueueTasks(c, k) PROVE FreshBatch' /\ Conservation'
    BY <2>1, EnqueueConserves
  <2>2. CASE UpdateConnectionWithTasks(c)
    BY <2>2, UpdateConserves
  <2>3. CASE GetConnectionsWithTasks(c)
    BY <2>3, CountersAlone DEF GetConnectionsWithTasks, conn
  <2>4. ASSUME NEW k \in Conns, GetConnectionMetrics(c, k) PROVE FreshBatch' /\ Conservation'
    BY <2>4, CountersAlone DEF GetConnectionMetrics, conn
  <2>5. ASSUME NEW t \in Tasks, RunTask(c, t) PROVE FreshBatch' /\ Conservation'
    BY <2>5, CountersAlone DEF RunTask, conn
  <2>6. CASE LoadBalanced(c)
    BY <2>6, CountersAlone DEF LoadBalanced, Return, conn
  <2>. QED BY <1>3, <2>1, <2>2, <2>3, <2>4, <2>5, <2>6 DEF CallerStep
<1>4. ASSUME NEW c \in Callers, CallerFault(c) PROVE FreshBatch' /\ Conservation'
  <2>1. ASSUME NEW k \in Conns, EnqueueExhausted(c, k) PROVE FreshBatch' /\ Conservation'
    <3>1. \A d \in Callers : batch'[d] \subseteq batch[d]
      BY <2>1 DEF EnqueueExhausted, TypeOK
    <3>. QED BY <2>1, <3>1, CountersAlone DEF EnqueueExhausted, conn
  <2>2. CASE PopAborted(c)
    BY <2>2, CountersAlone DEF PopAborted, conn
  <2>3. CASE PopExhausted(c)
    BY <2>3, CountersAlone DEF PopExhausted, conn
  <2>4. CASE RunTaskRaises(c)
    BY <2>4, CountersAlone DEF RunTaskRaises, Return, conn
  <2>. QED BY <1>4, <2>1, <2>2, <2>3, <2>4 DEF CallerFault
<1>5. ASSUME NEW t \in Tasks, TaskStep(t) PROVE FreshBatch' /\ Conservation'
  <2>1. CASE WorkerRunning(t) \/ WorkerEnds(t) \/ WorkerLost(t) \/ ReapStale(t)
    BY <2>1, CountersAlone DEF WorkerRunning, WorkerEnds, WorkerLost, ReapStale, conn, call
  <2>2. CASE DequeueExhausted(t) \/ ResetWrites(t)
    BY <2>2, CountersAlone DEF DequeueExhausted, ResetWrites, conn, call
  <2>3. CASE FinishTask(t)
    BY <2>3, DequeueConserves DEF FinishTask, call
  <2>4. CASE FinishReplyLost(t)
    BY <2>4, DequeueConserves DEF FinishReplyLost, call
  <2>5. CASE ResetDequeues(t)
    BY <2>5, DequeueConserves DEF ResetDequeues, call
  <2>. QED BY <1>5, <2>1, <2>2, <2>3, <2>4, <2>5 DEF TaskStep
<1>6. ASSUME NEW k \in Conns, NEW limit \in NewLimits, EditMaxParallelism(k, limit)
      PROVE  FreshBatch' /\ Conservation'
  BY <1>6, CountersAlone DEF EditMaxParallelism, call
<1>. QED BY <1>1, <1>2, <1>3, <1>4, <1>5, <1>6 DEF Next

(* The invariant of the connection counters holds of every run.              *)
LEMMA QueueInvHolds == Spec => []QueueInv
<1>1. Init => QueueInv
  <2> SUFFICES ASSUME Init PROVE QueueInv
    OBVIOUS
  <2>1. TypeOK
    BY ConstantsAssumption, NoPopType DEF Init, TypeOK, States
  <2>2. FreshBatch
    BY DEF Init, FreshBatch
  <2>3. Conservation
    <3>1. ASSUME NEW k \in Conns PROVE EntriesOn(k) = {} /\ curPar[k] + inQueue[k] = 0
      BY DEF Init, EntriesOn
    <3>. QED BY <3>1, FS_EmptySet DEF Conservation
  <2>. QED BY <2>1, <2>2, <2>3 DEF QueueInv
<1>2. QueueInv /\ [Next]_vars => FreshBatch' /\ Conservation'
  <2>1. QueueInv /\ UNCHANGED vars => FreshBatch' /\ Conservation'
    BY CountersAlone DEF QueueInv, vars, conn, call
  <2>. QED BY <2>1, StepConserves
<1>3. QueueInv /\ [Next]_vars /\ TypeOK' => QueueInv'
  BY <1>2 DEF QueueInv
<1>. QED BY <1>1, <1>3, TypeCorrect, PTL DEF Spec

\* current_parallelism + in_queue of a connection is the number of its connection_queue
\* documents in every behaviour: with any number of overlapping calls and of failures.
THEOREM ConservationHolds == Spec => []Conservation
<1>1. QueueInv => Conservation
  BY DEF QueueInv
<1>. QED BY <1>1, QueueInvHolds, PTL

\* What a call still has to enqueue it has not enqueued before, however often a transaction
\* is tried again: no call sends one of its tasks twice.
THEOREM FreshBatchHolds == Spec => []FreshBatch
<1>1. QueueInv => FreshBatch
  BY DEF QueueInv
<1>. QED BY <1>1, QueueInvHolds, PTL

-----------------------------------------------------------------------------
(* The ceiling of current_parallelism, when calls do not overlap           *)

\* The values max_parallelism of a connection may take.
Limits(k) == NewLimits \cup {MaxParallelism[k]}

\* A pop that was computed still fits: nothing has raised the counter since the read.
PopFits ==
    \A c \in Callers : pc[c] = "pop" =>
        \E limit \in Limits(popping[c].conn) :
            curPar[popping[c].conn] + popping[c].count <= limit

CeilingInv ==
    /\ CeilingRespected
    /\ PopFits
    /\ \A k \in Conns : maxPar[k] \in Limits(k)

(* What a limit can be edited to is a number.                                *)
LEMMA LimitsAreNumbers == ASSUME NEW k \in Conns PROVE Limits(k) \subseteq Nat
  BY ConstantsAssumption DEF Limits

\* Steps that raise no counter, edit no limit and compute no pop_count.
LEMMA CeilingFrame ==
  ASSUME TypeOK, TypeOK', CeilingInv, maxPar' = maxPar,
         \A k \in Conns : curPar'[k] <= curPar[k],
         \A c \in Callers : pc'[c] = "pop" => pc[c] = "pop" /\ popping'[c] = popping[c]
  PROVE  CeilingInv'
<1>1. CeilingRespected'
  <2> SUFFICES ASSUME NEW k \in Conns
               PROVE  \E limit \in Limits(k) : curPar'[k] <= limit
    BY DEF CeilingRespected, Limits
  <2>1. PICK limit \in Limits(k) : curPar[k] <= limit
    BY DEF CeilingInv, CeilingRespected, Limits
  <2>2. limit \in Nat /\ curPar[k] \in Int /\ curPar'[k] \in Int
    BY LimitsAreNumbers DEF TypeOK
  <2>. QED BY <2>1, <2>2
<1>2. PopFits'
  <2> SUFFICES ASSUME NEW c \in Callers, pc'[c] = "pop"
               PROVE  \E limit \in Limits(popping'[c].conn) :
                        curPar'[popping'[c].conn] + popping'[c].count <= limit
    BY DEF PopFits, Limits
  <2> DEFINE k == popping[c].conn
             n == popping[c].count
  <2>1. pc[c] = "pop" /\ popping'[c] = popping[c] /\ k \in Conns /\ n \in Int
    BY DEF TypeOK
  <2>2. PICK limit \in Limits(k) : curPar[k] + n <= limit
    BY <2>1 DEF CeilingInv, PopFits
  <2>3. limit \in Nat /\ curPar[k] \in Int /\ curPar'[k] \in Int /\ curPar'[k] <= curPar[k]
    BY <2>1, LimitsAreNumbers DEF TypeOK
  <2>4. curPar'[k] + n <= limit
    BY <2>1, <2>2, <2>3
  <2>. QED BY <2>1, <2>4
<1>. QED BY <1>1, <1>2 DEF CeilingInv, Limits

\* The read of the metrics computes a pop_count that fits the limit just read.
LEMMA MetricsFit ==
  ASSUME TypeOK, TypeOK', CeilingInv, NEW c \in Callers, NEW k \in Conns,
         GetConnectionMetrics(c, k)
  PROVE  CeilingInv'
<1>1. /\ popping' = [popping EXCEPT ![c] =
                      [conn |-> k, count |-> Min2(maxPar[k] - curPar[k], inQueue[k])]]
      /\ pc' = [pc EXCEPT ![c] = "pop"]
      /\ UNCHANGED <<maxPar, curPar>>
  BY DEF GetConnectionMetrics, conn
<1>2. ASSUME NEW d \in Callers, pc'[d] = "pop"
      PROVE  \E limit \in Limits(popping'[d].conn) :
               curPar'[popping'[d].conn] + popping'[d].count <= limit
  <2>1. CASE d = c
    <3>1. popping'[d].conn = k /\ popping'[d].count = Min2(maxPar[k] - curPar[k], inQueue[k])
      BY <1>1, <2>1 DEF TypeOK
    <3>2. curPar[k] + Min2(maxPar[k] - curPar[k], inQueue[k]) <= maxPar[k]
      BY DEF Min2, TypeOK
    <3>3. maxPar[k] \in Limits(k)
      BY DEF CeilingInv
    <3>. QED BY <1>1, <3>1, <3>2, <3>3
  <2>2. CASE d # c
    <3>1. pc[d] = "pop" /\ popping'[d] = popping[d]
      BY <1>1, <1>2, <2>2 DEF TypeOK
    <3>. QED BY <1>1, <3>1 DEF CeilingInv, PopFits
  <2>. QED BY <2>1, <2>2
<1>. QED BY <1>1, <1>2 DEF CeilingInv, CeilingRespected, PopFits, Limits

\* With no other call, the counter the pop is added to is at most the one it was computed from.
LEMMA UpdateFits ==
  ASSUME \A c, d \in Callers : c = d,
         TypeOK, TypeOK', CeilingInv, NEW c \in Callers, UpdateConnectionWithTasks(c)
  PROVE  CeilingInv'
<1> DEFINE k == popping[c].conn
           n == popping[c].count
<1>1. k \in Conns /\ n \in Int
  BY DEF TypeOK
<1>2. pc[c] = "pop" /\ pc' = [pc EXCEPT ![c] = "pick"]
  BY DEF UpdateConnectionWithTasks, Picked
<1>3. curPar' = [curPar EXCEPT ![k] = @ + n] /\ maxPar' = maxPar
  BY DEF UpdateConnectionWithTasks
<1>4. PICK limit \in Limits(k) : curPar[k] + n <= limit
  BY <1>2 DEF CeilingInv, PopFits
<1> HIDE DEF k, n
<1>5. ASSUME NEW j \in Conns PROVE \E bound \in Limits(j) : curPar'[j] <= bound
  <2>1. CASE j = k
    BY <1>3, <1>4, <2>1 DEF TypeOK
  <2>2. CASE j # k
    BY <1>3, <2>2 DEF TypeOK, CeilingInv, CeilingRespected, Limits
  <2>. QED BY <2>1, <2>2
<1>6. \A d \in Callers : pc'[d] # "pop"
  BY <1>2 DEF TypeOK
<1>. QED BY <1>3, <1>5, <1>6 DEF CeilingInv, CeilingRespected, PopFits, Limits

\* The counter a task gives back only goes down.
LEMMA DequeueLowers ==
  ASSUME TypeOK, NEW t \in Tasks, DequeueTask(t), NEW k \in Conns
  PROVE  curPar'[k] <= curPar[k]
  BY ConstantsAssumption DEF DequeueTask, TypeOK

(* When calls come one at a time, a step preserves the ceilings.             *)
LEMMA CeilingStep ==
  ASSUME \A c, d \in Callers : c = d, TypeOK, TypeOK', CeilingInv, Next
  PROVE  CeilingInv'
<1>0. \A k \in Conns : curPar[k] \in Int
  BY DEF TypeOK
<1>1. ASSUME NEW c \in Callers, Tick(c) \/ Submit(c) PROVE CeilingInv'
  <2>1. /\ UNCHANGED <<maxPar, curPar, popping>>
        /\ pc' = [pc EXCEPT ![c] = "enqueue"]
    BY <1>1 DEF Tick, Submit, LoadBalance, conn
  <2>2. \A d \in Callers : pc'[d] = "pop" => pc[d] = "pop" /\ popping'[d] = popping[d]
    BY <2>1 DEF TypeOK
  <2>. QED BY <1>0, <2>1, <2>2, CeilingFrame
<1>2. ASSUME NEW c \in Callers, CallerStep(c) PROVE CeilingInv'
  <2>1. ASSUME NEW k \in Conns, EnqueueTasks(c, k) PROVE CeilingInv'
    BY <1>0, <2>1, CeilingFrame DEF EnqueueTasks
  <2>2. CASE GetConnectionsWithTasks(c)
    <3>1. \A d \in Callers : pc'[d] = "pop" => pc[d] = "pop" /\ popping'[d] = popping[d]
      BY <2>2 DEF GetConnectionsWithTasks, TypeOK
    <3>. QED BY <1>0, <2>2, <3>1, CeilingFrame DEF GetConnectionsWithTasks, conn
  <2>3. ASSUME NEW k \in Conns, GetConnectionMetrics(c, k) PROVE CeilingInv'
    BY <2>3, MetricsFit
  <2>4. CASE UpdateConnectionWithTasks(c)
    BY <2>4, UpdateFits
  <2>5. ASSUME NEW t \in Tasks, RunTask(c, t) PROVE CeilingInv'
    BY <1>0, <2>5, CeilingFrame DEF RunTask, conn
  <2>6. CASE LoadBalanced(c)
    <3>1. \A d \in Callers : pc'[d] = "pop" => pc[d] = "pop" /\ popping'[d] = popping[d]
      BY <2>6 DEF LoadBalanced, Return, TypeOK
    <3>. QED BY <1>0, <2>6, <3>1, CeilingFrame DEF LoadBalanced, Return, conn
  <2>. QED BY <1>2, <2>1, <2>2, <2>3, <2>4, <2>5, <2>6 DEF CallerStep
<1>3. ASSUME NEW c \in Callers, CallerFault(c) PROVE CeilingInv'
  <2>1. \A d \in Callers : pc'[d] = "pop" => pc[d] = "pop" /\ popping'[d] = popping[d]
    BY <1>3 DEF CallerFault, EnqueueExhausted, PopAborted, PopExhausted, Picked,
                RunTaskRaises, Return, TypeOK
  <2>2. UNCHANGED <<maxPar, curPar>>
    BY <1>3 DEF CallerFault, EnqueueExhausted, PopAborted, PopExhausted,
                RunTaskRaises, Return, conn
  <2>. QED BY <1>0, <2>1, <2>2, CeilingFrame
<1>4. ASSUME NEW t \in Tasks, TaskStep(t) PROVE CeilingInv'
  <2>1. UNCHANGED <<maxPar, pc, popping>>
    BY <1>4 DEF TaskStep, WorkerRunning, WorkerEnds, WorkerLost, ReapStale, FinishTask,
                FinishReplyLost, DequeueExhausted, ResetDequeues, ResetWrites, conn, call
  <2>2. UNCHANGED curPar \/ DequeueTask(t)
    BY <1>4 DEF TaskStep, WorkerRunning, WorkerEnds, WorkerLost, ReapStale, FinishTask,
                FinishReplyLost, DequeueExhausted, ResetDequeues, ResetWrites, conn
  <2>3. \A k \in Conns : curPar'[k] <= curPar[k]
    BY <1>0, <2>2, DequeueLowers
  <2>. QED BY <2>1, <2>3, CeilingFrame
<1>5. ASSUME NEW k \in Conns, NEW limit \in NewLimits, EditMaxParallelism(k, limit)
      PROVE  CeilingInv'
  <2>1. maxPar' = [maxPar EXCEPT ![k] = limit] /\ UNCHANGED <<curPar, pc, popping>>
    BY <1>5 DEF EditMaxParallelism, call
  <2>2. \A j \in Conns : maxPar'[j] \in Limits(j)
    BY <2>1 DEF TypeOK, CeilingInv, Limits
  <2>. QED BY <2>1, <2>2 DEF CeilingInv, CeilingRespected, PopFits, Limits
<1>. QED BY <1>1, <1>2, <1>3, <1>4, <1>5 DEF Next

\* When at most one call of load_balance_tasks is under way at a time, current_parallelism
\* never exceeds every value max_parallelism can take, whatever fails, is reset or edited.
THEOREM CeilingHolds ==
  ASSUME \A c, d \in Callers : c = d
  PROVE  Spec => []CeilingRespected
<1>1. Init => CeilingInv
  <2> SUFFICES ASSUME Init PROVE CeilingInv
    OBVIOUS
  <2>1. ASSUME NEW k \in Conns
        PROVE  curPar[k] <= MaxParallelism[k] /\ maxPar[k] = MaxParallelism[k]
    BY ConstantsAssumption DEF Init
  <2>2. PopFits
    BY DEF Init, PopFits
  <2>. QED BY <2>1, <2>2 DEF CeilingInv, CeilingRespected, Limits
<1>2. TypeOK /\ TypeOK' /\ CeilingInv /\ [Next]_vars => CeilingInv'
  <2>1. CeilingInv /\ UNCHANGED vars => CeilingInv'
    BY DEF vars, conn, call, CeilingInv, CeilingRespected, PopFits, Limits
  <2>. QED BY <2>1, CeilingStep
<1>3. CeilingInv => CeilingRespected
  BY DEF CeilingInv
<1>. QED BY <1>1, <1>2, <1>3, TypeCorrect, PTL DEF Spec

-----------------------------------------------------------------------------
(* Tasks shown as queued in Redis                                            *)

\* A call still has to send the task, or Celery holds an execution of it.
Backed(t) == running[t] > 0 \/ \E c \in Callers : t \in runnable[c]

\* Steps that take neither an execution nor a picked task away, and mark no further task.
LEMMA BackedFrame ==
  ASSUME QueuedInRedisIsBacked, NEW t \in Tasks, state'[t] = "queued_in_redis",
         state[t] = "queued_in_redis",
         running[t] > 0 => running'[t] > 0,
         \A c \in Callers : t \in runnable[c] => t \in runnable'[c]
  PROVE  Backed(t)'
  BY DEF QueuedInRedisIsBacked, Backed

\* The steps of one call: a picked task stays picked until it is sent.
LEMMA CallBacked ==
  ASSUME TypeOK, QueuedInRedisIsBacked, "publish_failed" \notin Faults, NEW c \in Callers,
         Tick(c) \/ Submit(c) \/ CallerStep(c) \/ CallerFault(c),
         NEW t \in Tasks, state'[t] = "queued_in_redis"
  PROVE  Backed(t)'
<1>1. CASE Tick(c) \/ Submit(c)
  BY <1>1, BackedFrame DEF Tick, Submit, LoadBalance, execs
<1>2. ASSUME NEW k \in Conns, EnqueueTasks(c, k) PROVE Backed(t)'
  <2>1. state[t] = "queued_in_redis"
    BY <1>2 DEF EnqueueTasks, TypeOK
  <2>. QED BY <1>2, <2>1, BackedFrame DEF EnqueueTasks, execs
<1>3. CASE GetConnectionsWithTasks(c) \/ LoadBalanced(c)
  <2>1. state[t] = "queued_in_redis" /\ running'[t] = running[t]
    BY <1>3 DEF GetConnectionsWithTasks, LoadBalanced, Return, execs
  <2>2. \A d \in Callers : t \in runnable[d] => t \in runnable'[d]
    BY <1>3 DEF GetConnectionsWithTasks, LoadBalanced, Return, TypeOK
  <2>. QED BY <2>1, <2>2, BackedFrame
<1>4. ASSUME NEW k \in Conns, GetConnectionMetrics(c, k) PROVE Backed(t)'
  BY <1>4, BackedFrame DEF GetConnectionMetrics, execs
<1>5. CASE UpdateConnectionWithTasks(c)
  <2>1. PICK chosen :
          /\ state' = [u \in Tasks |-> IF u \in chosen THEN "queued_in_redis" ELSE state[u]]
          /\ runnable' = [runnable EXCEPT ![c] = @ \cup chosen]
          /\ running' = running
    BY <1>5 DEF UpdateConnectionWithTasks, Picked, execs
  <2>2. CASE t \in chosen
    <3>1. t \in runnable'[c]
      BY <2>1, <2>2 DEF TypeOK
    <3>. QED BY <3>1 DEF Backed
  <2>3. CASE t \notin chosen
    <3>1. state[t] = "queued_in_redis"
      BY <2>1, <2>3
    <3>2. \A d \in Callers : t \in runnable[d] => t \in runnable'[d]
      BY <2>1 DEF TypeOK
    <3>. QED BY <2>1, <3>1, <3>2, BackedFrame
  <2>. QED BY <2>2, <2>3
<1>6. ASSUME NEW u \in Tasks, RunTask(c, u) PROVE Backed(t)'
  <2>1. /\ running' = [running EXCEPT ![u] = @ + 1] /\ running \in [Tasks -> Nat]
        /\ runnable' = [runnable EXCEPT ![c] = @ \ {u}] /\ state' = state
    BY <1>6 DEF RunTask, TypeOK
  <2>2. CASE t = u
    <3>1. running'[t] > 0
      BY <2>1, <2>2
    <3>. QED BY <3>1 DEF Backed
  <2>3. CASE t # u
    <3>1. running'[t] = running[t]
      BY <2>1, <2>3
    <3>2. \A d \in Callers : t \in runnable[d] => t \in runnable'[d]
      BY <2>1, <2>3 DEF TypeOK
    <3>. QED BY <2>1, <3>1, <3>2, BackedFrame
  <2>. QED BY <2>2, <2>3
<1>7. CASE CallerFault(c)
  <2>1. state' = state /\ running' = running
    BY <1>7 DEF CallerFault, EnqueueExhausted, PopAborted, PopExhausted, RunTaskRaises, Return,
                execs
  <2>2. ~RunTaskRaises(c)
    BY DEF RunTaskRaises, Fault
  <2>3. \A d \in Callers : t \in runnable[d] => t \in runnable'[d]
    <3>1. CASE PopExhausted(c)
      <4>1. runnable' = [runnable EXCEPT ![c] = @ \cup TasksOn(popping[c].conn, snap[c])]
        BY <3>1 DEF PopExhausted, Picked
      <4>. QED BY <4>1 DEF TypeOK
    <3>2. CASE ~PopExhausted(c)
      BY <1>7, <2>2, <3>2 DEF CallerFault, EnqueueExhausted, PopAborted
    <3>. QED BY <3>1, <3>2
  <2>. QED BY <2>1, <2>3, BackedFrame
<1>. QED BY <1>1, <1>2, <1>3, <1>4, <1>5, <1>6, <1>7 DEF CallerStep

\* The steps about one task: an execution that ends or is reaped takes the mark along.
LEMMA TaskBacked ==
  ASSUME TypeOK, QueuedInRedisIsBacked, "worker_lost" \notin Faults, NEW u \in Tasks, TaskStep(u),
         NEW t \in Tasks, state'[t] = "queued_in_redis"
  PROVE  Backed(t)'
<1>1. ~WorkerLost(u) /\ runnable' = runnable
  BY DEF TaskStep, WorkerRunning, WorkerEnds, WorkerLost, ReapStale, FinishTask, FinishReplyLost,
         DequeueExhausted, ResetDequeues, ResetWrites, Fault, call
<1>2. CASE WorkerEnds(u)
  <2>1. t # u /\ state[t] = "queued_in_redis" /\ running'[t] = running[t]
    BY <1>2 DEF WorkerEnds, TypeOK
  <2>. QED BY <1>1, <2>1, BackedFrame
<1>3. CASE ~WorkerEnds(u)
  <2>1. state[t] = "queued_in_redis" /\ running' = running
    BY <1>1, <1>3 DEF TaskStep, WorkerRunning, ReapStale, FinishTask, FinishReplyLost,
       DequeueExhausted, ResetDequeues, ResetWrites, execs, TypeOK
  <2>. QED BY <1>1, <2>1, BackedFrame
<1>. QED BY <1>2, <1>3

\* A task shown as queued_in_redis is on its way, however many calls overlap, tasks are reset
\* and transactions fail, unless sending it fails or the worker that has it is lost.
THEOREM QueuedInRedisBacked ==
  ASSUME {"publish_failed", "worker_lost"} \cap Faults = {}
  PROVE  Spec => []QueuedInRedisIsBacked
<1>1. Init => QueuedInRedisIsBacked
  BY DEF Init, QueuedInRedisIsBacked
<1>2. TypeOK /\ QueuedInRedisIsBacked /\ [Next]_vars => QueuedInRedisIsBacked'
  <2> SUFFICES ASSUME TypeOK, QueuedInRedisIsBacked, [Next]_vars,
                      NEW t \in Tasks, state'[t] = "queued_in_redis"
               PROVE  Backed(t)'
    BY DEF QueuedInRedisIsBacked, Backed
  <2>1. ASSUME NEW c \in Callers, Tick(c) \/ Submit(c) \/ CallerStep(c) \/ CallerFault(c)
        PROVE  Backed(t)'
    BY <2>1, CallBacked
  <2>2. ASSUME NEW u \in Tasks, TaskStep(u) PROVE Backed(t)'
    BY <2>2, TaskBacked
  <2>3. ASSUME NEW k \in Conns, NEW limit \in NewLimits, EditMaxParallelism(k, limit)
        PROVE  Backed(t)'
    BY <2>3, BackedFrame DEF EditMaxParallelism, call, execs
  <2>4. CASE UNCHANGED vars
    BY <2>4, BackedFrame DEF vars, call, execs
  <2>. QED BY <2>1, <2>2, <2>3, <2>4 DEF Next
<1>. QED BY <1>1, <1>2, TypeCorrect, PTL DEF Spec

-----------------------------------------------------------------------------
(* Calls that come one at a time                                             *)

(* One call at a time, nobody edits a limit or resets a task. Loops that     *)
(* give up, aborted transactions, messages that are refused and workers that *)
(* are killed are allowed; a pop that runs out of attempts, a living worker  *)
(* that is reaped and a finish that is sent twice are not.                   *)
SerialQueue ==
  /\ \A c, d \in Callers : c = d
  /\ NewLimits = {} /\ MaxResets = 0
  /\ Faults \cap {"pop_exhausted", "false_reap", "finish_retried"} = {}

-----------------------------------------------------------------------------
(* The inductive invariant                                                  *)

Waiting(k) == {t \in Tasks : ConnOf[t] = k /\ state[t] = "queued_for_connection"}
Holding(k) ==
  {t \in Tasks : ConnOf[t] = k /\ HasEntry(t) /\ state[t] # "queued_for_connection"}

(* The entry of a task is the right to an execution, which it has once. *)
EntryIsTicket ==
  \A t \in Tasks :
    /\ ~HasEntry(t) => state[t] \in {"scheduled", "terminal"} /\ running[t] = 0 /\ finishing[t] = 0
    /\ running[t] > 0 => running[t] = 1 /\ state[t] \in {"queued_in_redis", "running"}
    /\ finishing[t] > 0 => finishing[t] = 1 /\ state[t] = "terminal"

(* What the call holds is still so. *)
CallIsCurrent ==
  \A c \in Callers :
    /\ \A t \in batch[c] : ~HasEntry(t)
    /\ \A t \in runnable[c] : state[t] = "queued_in_redis" /\ running[t] = 0
    /\ pc[c] \in {"pick", "pop"} => \A k \in todo[c] : TasksOn(k, snap[c]) = Waiting(k)
    /\ pc[c] = "pop" =>
         /\ popping[c].conn \in todo[c]
         /\ 0 <= popping[c].count /\ popping[c].count <= inQueue[popping[c].conn]
         /\ curPar[popping[c].conn] + popping[c].count <= MaxParallelism[popping[c].conn]

CountersAreTrue ==
  \A k \in Conns :
    /\ inQueue[k] = Cardinality(Waiting(k))
    /\ curPar[k] = Cardinality(Holding(k))
    /\ curPar[k] <= maxPar[k] /\ maxPar[k] = MaxParallelism[k]

SerialInv == TypeOK /\ resetting = {} /\ EntryIsTicket /\ CallIsCurrent /\ CountersAreTrue

-----------------------------------------------------------------------------
(* What a step leaves alone                                                *)

\* Sets of tasks are finite and have a number of elements.
LEMMA CountableTasks ==
  ASSUME NEW S \in SUBSET Tasks
  PROVE  IsFiniteSet(S) /\ Cardinality(S) \in Nat
  BY ConstantsAssumption, FS_Subset, FS_CardinalityType

\* The picture of tasks and counters stays as it is when nothing of it is written.
LEMMA PictureKept ==
  ASSUME SerialInv, UNCHANGED <<state, entries, conn, execs>>
  PROVE  /\ EntryIsTicket' /\ CountersAreTrue'
         /\ \A t \in Tasks : HasEntry(t)' = HasEntry(t)
         /\ \A k \in Conns : Waiting(k)' = Waiting(k)
<1>1. \A t \in Tasks : HasEntry(t)' = HasEntry(t)
  BY DEF HasEntry, EntriesOf
<1>2. \A k \in Conns : Waiting(k)' = Waiting(k) /\ Holding(k)' = Holding(k)
  BY <1>1 DEF Waiting, Holding
<1>. QED BY <1>1, <1>2 DEF SerialInv, EntryIsTicket, CountersAreTrue, conn, execs

\* So does what a call holds, when a worker changes neither waiting tasks nor tasks that
\* are to be sent, and takes nothing from the queue but an entry.
LEMMA CallKept ==
  ASSUME SerialInv, TypeOK', UNCHANGED <<call, inQueue>>,
         \A t \in Tasks : HasEntry(t)' => HasEntry(t),
         \A t \in Tasks : state[t] = "queued_in_redis" /\ running[t] = 0 =>
                            state'[t] = state[t] /\ running'[t] = running[t],
         \A t \in Tasks : state'[t] = "queued_for_connection" <=>
                            state[t] = "queued_for_connection",
         \A k \in Conns : curPar'[k] <= curPar[k]
  PROVE  CallIsCurrent' /\ \A k \in Conns : Waiting(k)' = Waiting(k)
<1>1. \A k \in Conns : Waiting(k)' = Waiting(k)
  BY DEF Waiting
<1>2. UNCHANGED <<pc, batch, todo, snap, popping, runnable, inQueue>>
  BY DEF call
<1> SUFFICES ASSUME NEW c \in Callers PROVE
      /\ \A t \in batch[c] : ~HasEntry(t)'
      /\ \A t \in runnable[c] : state'[t] = "queued_in_redis" /\ running'[t] = 0
      /\ pc[c] \in {"pick", "pop"} => \A k \in todo[c] : TasksOn(k, snap[c]) = Waiting(k)'
      /\ pc[c] = "pop" =>
           /\ popping[c].conn \in todo[c]
           /\ 0 <= popping[c].count /\ popping[c].count <= inQueue[popping[c].conn]
           /\ curPar'[popping[c].conn] + popping[c].count <= MaxParallelism[popping[c].conn]
  BY <1>1, <1>2 DEF CallIsCurrent, TasksOn
<1>3. batch[c] \subseteq Tasks /\ runnable[c] \subseteq Tasks /\ todo[c] \subseteq Conns
  BY DEF SerialInv, TypeOK
<1>4. /\ \A t \in batch[c] : ~HasEntry(t)
      /\ \A t \in runnable[c] : state[t] = "queued_in_redis" /\ running[t] = 0
      /\ pc[c] \in {"pick", "pop"} => \A k \in todo[c] : TasksOn(k, snap[c]) = Waiting(k)
  BY DEF SerialInv, CallIsCurrent
<1>5. ASSUME pc[c] = "pop"
      PROVE  curPar'[popping[c].conn] + popping[c].count <= MaxParallelism[popping[c].conn]
  <2> DEFINE k == popping[c].conn
             n == popping[c].count
  <2>1. k \in Conns /\ n \in Int /\ curPar[k] \in Int /\ curPar'[k] \in Int
    BY DEF SerialInv, TypeOK
  <2>2. curPar[k] + n <= MaxParallelism[k] /\ MaxParallelism[k] \in Nat
    BY <1>5, <2>1, ConstantsAssumption DEF SerialInv, CallIsCurrent
  <2>. QED BY <2>1, <2>2
<1>6. pc[c] = "pop" =>
        /\ popping[c].conn \in todo[c]
        /\ 0 <= popping[c].count /\ popping[c].count <= inQueue[popping[c].conn]
  BY DEF SerialInv, CallIsCurrent
<1>. QED BY <1>1, <1>3, <1>4, <1>5, <1>6

\* An entry is the only one of its task: removing it leaves the task none.
LEMMA LastEntry ==
  ASSUME SerialQueue, TypeOK, NEW t \in Tasks, NEW e \in EntriesOf(t), entries' = entries \ {e}
  PROVE  ~HasEntry(t)' /\ \A u \in Tasks \ {t} : HasEntry(u)' = HasEntry(u)
<1>1. PICK c \in Callers : e = <<t, c>>
  BY DEF EntriesOf, TypeOK
<1>2. \A d \in Callers : d = c
  BY <1>1 DEF SerialQueue
<1>3. EntriesOf(t)' = {}
  BY <1>1, <1>2 DEF EntriesOf, TypeOK
<1>4. ASSUME NEW u \in Tasks \ {t} PROVE EntriesOf(u)' = EntriesOf(u)
  BY <1>1 DEF EntriesOf
<1>. QED BY <1>3, <1>4 DEF HasEntry

-----------------------------------------------------------------------------
(* The steps of a call                                                     *)

\* The filter of a new call leaves it a batch of tasks that have no entry.
LEMMA LoadBalanceSerial ==
  ASSUME SerialQueue, SerialInv, NEW c \in Callers, NEW incoming \in SUBSET Tasks,
         LoadBalance(c, incoming), TypeOK'
  PROVE  SerialInv'
<1>1. EntryIsTicket' /\ CountersAreTrue' /\ \A t \in Tasks : HasEntry(t)' = HasEntry(t)
  BY PictureKept DEF LoadBalance
<1>2. CallIsCurrent'
  <2>1. \A d \in Callers : d = c
    BY DEF SerialQueue
  <2>2. pc'[c] = "enqueue" /\ batch'[c] = {t \in incoming : ~HasEntry(t)}
    BY DEF LoadBalance, SerialInv, TypeOK
  <2>3. runnable' = runnable /\ state' = state /\ running' = running
    BY DEF LoadBalance, execs
  <2>. QED BY <1>1, <2>1, <2>2, <2>3 DEF CallIsCurrent, SerialInv
<1>. QED BY <1>1, <1>2 DEF SerialInv, LoadBalance

\* An enqueue gives each task of its group one entry, and in_queue counts it.
LEMMA EnqueueSerial ==
  ASSUME SerialQueue, SerialInv, NEW c \in Callers, NEW k \in Conns, EnqueueTasks(c, k), TypeOK'
  PROVE  SerialInv'
<1> DEFINE group == TasksOn(k, batch[c])
<1> USE DEF SerialInv
<1>1. group \in SUBSET Tasks /\ group \subseteq batch[c] /\ \A t \in group : ConnOf[t] = k
  BY DEF TasksOn, TypeOK
<1>2. /\ pc[c] = "enqueue"
      /\ entries' = entries \cup (group \X {c})
      /\ state' = [t \in Tasks |-> IF t \in group THEN "queued_for_connection" ELSE state[t]]
      /\ inQueue' = [inQueue EXCEPT ![k] = @ + Cardinality(group)]
      /\ batch' = [batch EXCEPT ![c] = @ \ group]
      /\ UNCHANGED <<maxPar, curPar, pc, runnable, running, finishing, resetting>>
  BY DEF EnqueueTasks, execs
<1>3. \A t \in group : /\ ~HasEntry(t) /\ running[t] = 0 /\ finishing[t] = 0
                       /\ state[t] \in {"scheduled", "terminal"}
  BY <1>1 DEF CallIsCurrent, EntryIsTicket
<1>4. \A d \in Callers : d = c
  BY DEF SerialQueue
<1> HIDE DEF group
<1>5. \A t \in Tasks : HasEntry(t)' <=> HasEntry(t) \/ t \in group
  <2>1. \A t \in Tasks : EntriesOf(t)' = EntriesOf(t) \cup {e \in group \X {c} : e[1] = t}
    BY <1>2 DEF EntriesOf
  <2>2. \A t \in group : <<t, c>> \in {e \in group \X {c} : e[1] = t}
    OBVIOUS
  <2>3. \A t \in Tasks \ group : {e \in group \X {c} : e[1] = t} = {}
    OBVIOUS
  <2>. QED BY <2>1, <2>2, <2>3, <1>1 DEF HasEntry
<1>6. EntryIsTicket'
  BY <1>1, <1>2, <1>3, <1>5 DEF EntryIsTicket
<1>7. CallIsCurrent'
  <2>1. \A t \in batch'[c] : t \in Tasks /\ t \in batch[c] /\ t \notin group
    BY <1>2 DEF TypeOK
  <2>2. \A t \in batch'[c] : ~HasEntry(t)'
    BY <2>1, <1>5 DEF CallIsCurrent
  <2>3. \A t \in runnable[c] : state[t] = "queued_in_redis" /\ running[t] = 0 /\ t \in Tasks
    BY DEF CallIsCurrent, TypeOK
  <2>4. \A t \in runnable[c] : state'[t] = "queued_in_redis" /\ running'[t] = 0
    BY <2>3, <1>2, <1>3
  <2>. QED BY <1>2, <1>4, <2>2, <2>4 DEF CallIsCurrent
<1>8. CountersAreTrue'
  <2> SUFFICES ASSUME NEW j \in Conns
               PROVE  /\ inQueue'[j] = Cardinality(Waiting(j)')
                      /\ curPar[j] = Cardinality(Holding(j)')
    BY <1>2 DEF CountersAreTrue
  <2>1. Holding(j)' = Holding(j)
    BY <1>1, <1>2, <1>3, <1>5 DEF Holding
  <2>2. inQueue[j] = Cardinality(Waiting(j)) /\ curPar[j] = Cardinality(Holding(j))
    BY DEF CountersAreTrue
  <2>3. CASE j # k
    <3>1. Waiting(j)' = Waiting(j)
      BY <1>1, <1>2, <2>3 DEF Waiting
    <3>. QED BY <2>1, <2>2, <2>3, <3>1, <1>2 DEF TypeOK
  <2>4. CASE j = k
    <3>1. Waiting(j)' = Waiting(j) \cup group
      BY <1>1, <1>2, <2>4 DEF Waiting
    <3>2. Waiting(j) \cap group = {}
      BY <1>3 DEF Waiting
    <3>3. /\ IsFiniteSet(Waiting(j)) /\ Cardinality(Waiting(j)) \in Nat
          /\ IsFiniteSet(group) /\ Cardinality(group) \in Nat
      BY <1>1, CountableTasks DEF Waiting
    <3>4. Cardinality(Waiting(j) \cup group) =
            Cardinality(Waiting(j)) + Cardinality(group) - Cardinality({})
      BY <3>2, <3>3, FS_Union
    <3>5. Cardinality(Waiting(j)') = Cardinality(Waiting(j)) + Cardinality(group)
      BY <3>1, <3>3, <3>4, FS_EmptySet
    <3>6. inQueue'[j] = inQueue[j] + Cardinality(group)
      BY <1>2, <2>4 DEF TypeOK
    <3>. QED BY <2>1, <2>2, <3>5, <3>6
  <2>. QED BY <2>3, <2>4
<1>. QED BY <1>2, <1>6, <1>7, <1>8

\* The call's snapshot shows every waiting task of each connection it will pick from.
LEMMA SnapshotSerial ==
  ASSUME SerialQueue, SerialInv, NEW c \in Callers, GetConnectionsWithTasks(c), TypeOK'
  PROVE  SerialInv'
<1>1. /\ EntryIsTicket' /\ CountersAreTrue' /\ \A t \in Tasks : HasEntry(t)' = HasEntry(t)
      /\ \A k \in Conns : Waiting(k)' = Waiting(k)
  BY PictureKept DEF GetConnectionsWithTasks
<1>2. \A d \in Callers : d = c
  BY DEF SerialQueue
<1>3. /\ pc'[c] = "pick" /\ batch'[c] = {} /\ todo'[c] \subseteq Conns
      /\ snap'[c] = {t \in Tasks : HasEntry(t) /\ state[t] = "queued_for_connection"}
      /\ UNCHANGED <<runnable, state, running, resetting>>
  BY DEF GetConnectionsWithTasks, SerialInv, TypeOK, execs
<1>4. \A k \in Conns : TasksOn(k, snap'[c]) = Waiting(k)
  <2>1. \A t \in Tasks : state[t] = "queued_for_connection" => HasEntry(t)
    BY DEF SerialInv, EntryIsTicket
  <2>. QED BY <1>3, <2>1 DEF TasksOn, Waiting
<1>5. \A t \in runnable[c] : state[t] = "queued_in_redis" /\ running[t] = 0
  BY DEF SerialInv, CallIsCurrent
<1>6. CallIsCurrent'
  BY <1>1, <1>2, <1>3, <1>4, <1>5 DEF CallIsCurrent, TasksOn
<1>. QED BY <1>1, <1>3, <1>6 DEF SerialInv

\* The pop_count is at most what waits and what is free, and never negative.
LEMMA MetricsSerial ==
  ASSUME SerialQueue, SerialInv, NEW c \in Callers, NEW k \in Conns,
         GetConnectionMetrics(c, k), TypeOK'
  PROVE  SerialInv'
<1>1. /\ EntryIsTicket' /\ CountersAreTrue' /\ \A t \in Tasks : HasEntry(t)' = HasEntry(t)
      /\ \A j \in Conns : Waiting(j)' = Waiting(j)
  BY PictureKept DEF GetConnectionMetrics
<1>2. \A d \in Callers : d = c
  BY DEF SerialQueue
<1> DEFINE n == Min2(maxPar[k] - curPar[k], inQueue[k])
<1>3. /\ pc[c] = "pick" /\ k \in todo[c]
      /\ pc'[c] = "pop" /\ popping'[c].conn = k /\ popping'[c].count = n
      /\ UNCHANGED <<batch, runnable, todo, snap, state, running, resetting, curPar, inQueue>>
  BY DEF GetConnectionMetrics, SerialInv, TypeOK, execs, conn
<1>4. 0 <= n /\ n <= inQueue[k] /\ curPar[k] + n <= MaxParallelism[k]
  <2>1. /\ maxPar[k] \in Nat /\ curPar[k] \in Int
        /\ curPar[k] <= maxPar[k] /\ maxPar[k] = MaxParallelism[k]
        /\ inQueue[k] = Cardinality(Waiting(k))
    BY DEF SerialInv, TypeOK, CountersAreTrue
  <2>2. inQueue[k] \in Nat
    BY <2>1, CountableTasks DEF Waiting
  <2>. QED BY <2>1, <2>2 DEF Min2
<1> HIDE DEF n
<1>5. /\ \A t \in batch[c] : t \in Tasks /\ ~HasEntry(t)
      /\ \A t \in runnable[c] : state[t] = "queued_in_redis" /\ running[t] = 0
      /\ \A j \in todo[c] : j \in Conns /\ TasksOn(j, snap[c]) = Waiting(j)
  BY <1>3 DEF SerialInv, TypeOK, CallIsCurrent
<1>6. CallIsCurrent'
  BY <1>1, <1>2, <1>3, <1>4, <1>5 DEF CallIsCurrent, TasksOn
<1>. QED BY <1>1, <1>3, <1>6 DEF SerialInv

\* The slice takes pop_count of the waiting tasks, exactly.
LEMMA PopTakesItsCount ==
  ASSUME SerialInv, NEW c \in Callers, pc[c] = "pop",
         NEW chosen \in Prefixes(TasksOn(popping[c].conn, snap[c]), popping[c].count)
  PROVE  /\ chosen \subseteq Waiting(popping[c].conn)
         /\ Cardinality(chosen) = popping[c].count
<1> DEFINE k == popping[c].conn
           n == popping[c].count
<1>1. k \in Conns /\ n \in Int
  BY DEF SerialInv, TypeOK
<1>2. TasksOn(k, snap[c]) = Waiting(k) /\ 0 <= n /\ n <= inQueue[k]
  BY DEF SerialInv, CallIsCurrent
<1>3. inQueue[k] = Cardinality(Waiting(k))
  BY <1>1 DEF SerialInv, CountersAreTrue
<1>4. Cardinality(Waiting(k)) \in Nat
  BY CountableTasks DEF Waiting
<1>5. chosen \subseteq Waiting(k) /\ Cardinality(chosen) = SliceLen(n, Cardinality(Waiting(k)))
  BY <1>2 DEF Prefixes
<1>6. SliceLen(n, Cardinality(Waiting(k))) = n
  BY <1>1, <1>2, <1>3, <1>4 DEF SliceLen, Min2
<1>. QED BY <1>5, <1>6

\* The pop moves as many tasks from waiting to held as it takes from in_queue.
LEMMA UpdateSerial ==
  ASSUME SerialQueue, SerialInv, NEW c \in Callers, UpdateConnectionWithTasks(c), TypeOK'
  PROVE  SerialInv'
<1> USE DEF SerialInv
<1>1. PICK k \in Conns, n \in Int : k = popping[c].conn /\ n = popping[c].count
  BY DEF TypeOK
<1>2. pc[c] = "pop" /\ UNCHANGED <<entries, maxPar, batch, snap, running, finishing, resetting>>
  BY DEF UpdateConnectionWithTasks, execs
<1>3. /\ curPar' = [curPar EXCEPT ![k] = @ + n]
      /\ inQueue' = [inQueue EXCEPT ![k] = @ - n]
  BY <1>1 DEF UpdateConnectionWithTasks
<1>4. PICK chosen \in Prefixes(TasksOn(k, snap[c]), n) :
        /\ state' = [t \in Tasks |-> IF t \in chosen THEN "queued_in_redis" ELSE state[t]]
        /\ Picked(c, chosen)
  BY <1>1 DEF UpdateConnectionWithTasks
<1>5. chosen \subseteq Waiting(k) /\ Cardinality(chosen) = n
  BY <1>1, <1>2, <1>4, PopTakesItsCount
<1>6. \A t \in chosen : /\ t \in Tasks /\ ConnOf[t] = k /\ state[t] = "queued_for_connection"
                        /\ HasEntry(t) /\ running[t] = 0 /\ finishing[t] = 0
  <2>1. \A t \in chosen : t \in Tasks /\ ConnOf[t] = k /\ state[t] = "queued_for_connection"
    BY <1>5 DEF Waiting
  <2>2. \A t \in Tasks : running[t] \in Nat /\ finishing[t] \in Nat
    BY DEF TypeOK
  <2>. QED BY <2>1, <2>2 DEF EntryIsTicket
<1>7. /\ runnable'[c] = runnable[c] \cup chosen /\ todo'[c] = todo[c] \ {k} /\ pc'[c] = "pick"
  BY <1>1, <1>4 DEF Picked, TypeOK
<1>8. \A t \in Tasks : HasEntry(t)' = HasEntry(t)
  BY <1>2 DEF HasEntry, EntriesOf
<1>9. \A d \in Callers : d = c
  BY DEF SerialQueue
<1>10. curPar[k] + n <= MaxParallelism[k] /\ todo[c] \subseteq Conns
  BY <1>1, <1>2 DEF CallIsCurrent, TypeOK
<1>11. EntryIsTicket'
  BY <1>2, <1>4, <1>6, <1>8 DEF EntryIsTicket
<1>12. /\ Waiting(k)' = Waiting(k) \ chosen /\ Holding(k)' = Holding(k) \cup chosen
       /\ \A j \in Conns \ {k} : Waiting(j)' = Waiting(j) /\ Holding(j)' = Holding(j)
  BY <1>4, <1>6, <1>8 DEF Waiting, Holding
<1>13. CallIsCurrent'
  <2>1. \A t \in batch[c] : t \in Tasks /\ ~HasEntry(t)
    BY DEF CallIsCurrent, TypeOK
  <2>2. \A t \in runnable[c] : t \in Tasks /\ state[t] = "queued_in_redis" /\ running[t] = 0
    BY DEF CallIsCurrent, TypeOK
  <2>3. \A t \in runnable'[c] : state'[t] = "queued_in_redis" /\ running'[t] = 0
    BY <1>2, <1>4, <1>6, <1>7, <2>2
  <2>4. \A j \in todo[c] : TasksOn(j, snap[c]) = Waiting(j)
    BY <1>2 DEF CallIsCurrent
  <2>5. \A j \in todo'[c] : TasksOn(j, snap'[c]) = Waiting(j)'
    BY <2>4, <1>2, <1>7, <1>10, <1>12 DEF TasksOn
  <2>. QED BY <1>2, <1>7, <1>8, <1>9, <2>1, <2>3, <2>5 DEF CallIsCurrent, TasksOn
<1>14. CountersAreTrue'
  <2> SUFFICES ASSUME NEW j \in Conns
               PROVE  /\ inQueue'[j] = Cardinality(Waiting(j)')
                      /\ curPar'[j] = Cardinality(Holding(j)')
                      /\ curPar'[j] <= maxPar[j] /\ maxPar[j] = MaxParallelism[j]
    BY <1>2 DEF CountersAreTrue
  <2>1. /\ inQueue[j] = Cardinality(Waiting(j)) /\ curPar[j] = Cardinality(Holding(j))
        /\ curPar[j] <= maxPar[j] /\ maxPar[j] = MaxParallelism[j]
    BY DEF CountersAreTrue
  <2>2. CASE j # k
    BY <1>3, <1>12, <2>1, <2>2 DEF TypeOK
  <2>3. CASE j = k
    <3>1. /\ IsFiniteSet(Waiting(j)) /\ Cardinality(Waiting(j)) \in Nat
          /\ IsFiniteSet(Holding(j)) /\ Cardinality(Holding(j)) \in Nat
          /\ IsFiniteSet(chosen)
      BY <1>6, CountableTasks DEF Waiting, Holding
    <3>2. Waiting(j) \cap chosen = chosen /\ Holding(j) \cap chosen = {}
      BY <1>5, <1>6, <2>3 DEF Holding
    <3>3. Cardinality(Waiting(j) \ chosen) =
            Cardinality(Waiting(j)) - Cardinality(Waiting(j) \cap chosen)
      BY <3>1, FS_Difference
    <3>4. Cardinality(Holding(j) \cup chosen) =
            Cardinality(Holding(j)) + Cardinality(chosen) - Cardinality({})
      BY <3>1, <3>2, FS_Union
    <3>5. /\ Cardinality(Waiting(j)') = Cardinality(Waiting(j)) - n
          /\ Cardinality(Holding(j)') = Cardinality(Holding(j)) + n
      <4>1. Cardinality({}) = 0
        BY FS_EmptySet
      <4>2. Waiting(j)' = Waiting(j) \ chosen /\ Holding(j)' = Holding(j) \cup chosen
        BY <1>12, <2>3
      <4>3. Cardinality(chosen) = n
        BY <1>1, <1>5
      <4>4. Cardinality(Waiting(j) \ chosen) = Cardinality(Waiting(j)) - n
        BY <3>2, <3>3, <4>3
      <4>5. Cardinality(Holding(j) \cup chosen) = Cardinality(Holding(j)) + n
        BY <1>1, <3>1, <3>4, <4>1, <4>3
      <4>. QED BY <4>2, <4>4, <4>5
    <3>6. inQueue'[j] = inQueue[j] - n /\ curPar'[j] = curPar[j] + n
      BY <1>3, <2>3 DEF TypeOK
    <3>. QED BY <1>10, <2>1, <2>3, <3>5, <3>6
  <2>. QED BY <2>2, <2>3
<1>. QED BY <1>2, <1>11, <1>13, <1>14

\* A message starts the one execution that the entry of its task stands for.
LEMMA RunTaskSerial ==
  ASSUME SerialQueue, SerialInv, NEW c \in Callers, NEW t \in Tasks, RunTask(c, t), TypeOK'
  PROVE  SerialInv'
<1> USE DEF SerialInv
<1>1. /\ pc[c] = "pick" /\ t \in runnable[c] /\ pc' = pc /\ todo[c] = {} /\ todo' = todo
      /\ running' = [running EXCEPT ![t] = @ + 1]
      /\ runnable' = [runnable EXCEPT ![c] = @ \ {t}]
      /\ UNCHANGED <<state, entries, maxPar, curPar, inQueue, batch, finishing, resetting>>
  BY DEF RunTask, conn
<1>2. state[t] = "queued_in_redis" /\ running[t] = 0
  BY <1>1 DEF CallIsCurrent
<1>3. \A u \in Tasks : HasEntry(u)' = HasEntry(u)
  BY <1>1 DEF HasEntry, EntriesOf
<1>4. \A d \in Callers : d = c
  BY DEF SerialQueue
<1>5. \A u \in Tasks : running'[u] = IF u = t THEN 1 ELSE running[u]
  BY <1>1, <1>2 DEF TypeOK
<1>6. EntryIsTicket'
  BY <1>1, <1>2, <1>3, <1>5 DEF EntryIsTicket
<1>7. CallIsCurrent'
  <2>1. \A u \in runnable'[c] : u \in runnable[c] /\ u # t /\ u \in Tasks
    BY <1>1 DEF TypeOK
  <2>2. \A u \in runnable'[c] : state'[u] = "queued_in_redis" /\ running'[u] = 0
    BY <1>1, <1>5, <2>1 DEF CallIsCurrent
  <2>3. \A u \in batch[c] : u \in Tasks /\ ~HasEntry(u)
    BY DEF CallIsCurrent, TypeOK
  <2>. QED BY <1>1, <1>3, <1>4, <2>2, <2>3 DEF CallIsCurrent
<1>8. \A k \in Conns : Waiting(k)' = Waiting(k) /\ Holding(k)' = Holding(k)
  BY <1>1, <1>3 DEF Waiting, Holding
<1>. QED BY <1>1, <1>6, <1>7, <1>8 DEF CountersAreTrue

\* The call ends, or fails and goes on, with less in hand.
LEMMA LetsGoSerial ==
  ASSUME SerialQueue, SerialInv, NEW c \in Callers, TypeOK',
         UNCHANGED <<state, entries, conn, execs, resetting, todo>>,
         \/ pc'[c] = "idle" \/ pc'[c] = "enqueue"
         \/ pc'[c] = "pick" /\ pc[c] \in {"pick", "pop"} /\ snap' = snap,
         batch'[c] \subseteq batch[c], runnable'[c] \subseteq runnable[c]
  PROVE  SerialInv'
<1>1. /\ EntryIsTicket' /\ CountersAreTrue' /\ \A t \in Tasks : HasEntry(t)' = HasEntry(t)
      /\ \A j \in Conns : Waiting(j)' = Waiting(j)
  BY PictureKept
<1>2. \A d \in Callers : d = c
  BY DEF SerialQueue
<1>3. /\ \A t \in batch[c] : t \in Tasks /\ ~HasEntry(t)
      /\ \A t \in runnable[c] : state[t] = "queued_in_redis" /\ running[t] = 0
      /\ pc[c] \in {"pick", "pop"} => \A j \in todo[c] : TasksOn(j, snap[c]) = Waiting(j)
      /\ todo[c] \subseteq Conns
  BY DEF SerialInv, CallIsCurrent, TypeOK
<1>4. state' = state /\ running' = running /\ resetting' = resetting /\ todo' = todo
  BY DEF execs
<1>5. CallIsCurrent'
  <2>1. \A t \in batch'[c] : ~HasEntry(t)'
    BY <1>1, <1>3
  <2>2. \A t \in runnable'[c] : state'[t] = "queued_in_redis" /\ running'[t] = 0
    BY <1>3, <1>4
  <2>3. pc'[c] # "pop"
    OBVIOUS
  <2>4. pc'[c] = "pick" => \A j \in todo'[c] : TasksOn(j, snap'[c]) = Waiting(j)'
    BY <1>1, <1>3, <1>4 DEF TasksOn
  <2>. QED BY <1>2, <2>1, <2>2, <2>3, <2>4 DEF CallIsCurrent, TasksOn
<1>. QED BY <1>1, <1>4, <1>5 DEF SerialInv

\* Every step of a call, and every way it can fail here, keeps the invariant.
LEMMA CallSerial ==
  ASSUME SerialQueue, SerialInv, NEW c \in Callers, TypeOK',
         Tick(c) \/ Submit(c) \/ CallerStep(c) \/ CallerFault(c)
  PROVE  SerialInv'
<1>1. CASE Tick(c)
  BY <1>1, LoadBalanceSerial DEF Tick
<1>2. CASE Submit(c)
  <2>1. PICK incoming \in SUBSET Tasks : LoadBalance(c, incoming)
    BY <1>2 DEF Submit
  <2>. QED BY <2>1, LoadBalanceSerial
<1>3. CASE CallerStep(c)
  <2>1. CASE LoadBalanced(c)
    <3>1. /\ UNCHANGED <<state, entries, conn, execs, resetting, todo, batch>>
          /\ pc'[c] = "idle" /\ runnable'[c] = {}
      BY <2>1 DEF LoadBalanced, Return, SerialInv, TypeOK
    <3>2. batch'[c] \subseteq batch[c] /\ runnable'[c] \subseteq runnable[c]
      BY <3>1
    <3>3. UNCHANGED <<state, entries, conn, execs, resetting, todo>>
      BY <3>1
    <3>. QED BY <3>1, <3>2, <3>3, LetsGoSerial
  <2>. QED BY <1>3, <2>1, EnqueueSerial, SnapshotSerial, MetricsSerial, UpdateSerial, RunTaskSerial
           DEF CallerStep
<1>4. CASE CallerFault(c)
  <2>1. ASSUME NEW k \in Conns, EnqueueExhausted(c, k) PROVE SerialInv'
    <3>1. /\ UNCHANGED <<state, entries, conn, execs, resetting, todo, runnable>>
          /\ pc'[c] = "enqueue" /\ batch'[c] \subseteq batch[c]
      BY <2>1 DEF EnqueueExhausted, SerialInv, TypeOK
    <3>2. UNCHANGED <<state, entries, conn, execs, resetting, todo>>
      BY <3>1
    <3>3. runnable'[c] \subseteq runnable[c]
      BY <3>1
    <3>. QED BY <3>1, <3>2, <3>3, LetsGoSerial
  <2>2. CASE PopAborted(c)
    <3>1. /\ UNCHANGED <<state, entries, conn, execs, resetting, todo, runnable, batch, snap>>
          /\ pc[c] = "pop" /\ pc'[c] = "pick"
      BY <2>2 DEF PopAborted, SerialInv, TypeOK
    <3>. QED BY <3>1, LetsGoSerial
  <2>3. CASE PopExhausted(c)
    BY <2>3 DEF PopExhausted, Fault, SerialQueue
  <2>4. CASE RunTaskRaises(c)
    <3>1. /\ UNCHANGED <<state, entries, conn, execs, resetting, todo, batch>>
          /\ pc'[c] = "idle" /\ runnable'[c] = {}
      BY <2>4 DEF RunTaskRaises, Return, SerialInv, TypeOK
    <3>2. batch'[c] \subseteq batch[c] /\ runnable'[c] \subseteq runnable[c]
      BY <3>1
    <3>3. UNCHANGED <<state, entries, conn, execs, resetting, todo>>
      BY <3>1
    <3>. QED BY <3>1, <3>2, <3>3, LetsGoSerial
  <2>. QED BY <1>4, <2>1, <2>2, <2>3, <2>4 DEF CallerFault
<1>. QED BY <1>1, <1>2, <1>3, <1>4

-----------------------------------------------------------------------------
(* The steps of workers and of the cleanup loop                            *)

\* A worker's step that keeps the entries, the counters and which tasks wait.
LEMMA ExecutionSerial ==
  ASSUME SerialQueue, SerialInv, TypeOK', NEW t \in Tasks,
         UNCHANGED <<entries, conn, call, resetting>>,
         HasEntry(t), state[t] # "queued_for_connection", state'[t] # "queued_for_connection",
         ~(state[t] = "queued_in_redis" /\ running[t] = 0),
         \A u \in Tasks \ {t} : /\ state'[u] = state[u] /\ running'[u] = running[u]
                                /\ finishing'[u] = finishing[u],
         running'[t] > 0 => running'[t] = 1 /\ state'[t] \in {"queued_in_redis", "running"},
         finishing'[t] > 0 => finishing'[t] = 1 /\ state'[t] = "terminal"
  PROVE  SerialInv'
<1>1. \A u \in Tasks : HasEntry(u)' = HasEntry(u)
  BY DEF HasEntry, EntriesOf
<1>2. EntryIsTicket'
  <2> SUFFICES ASSUME NEW u \in Tasks PROVE
        /\ ~HasEntry(u)' => /\ state'[u] \in {"scheduled", "terminal"}
                            /\ running'[u] = 0 /\ finishing'[u] = 0
        /\ running'[u] > 0 => running'[u] = 1 /\ state'[u] \in {"queued_in_redis", "running"}
        /\ finishing'[u] > 0 => finishing'[u] = 1 /\ state'[u] = "terminal"
    BY DEF EntryIsTicket
  <2>1. CASE u = t
    BY <1>1, <2>1
  <2>2. CASE u # t
    BY <1>1, <2>2 DEF SerialInv, EntryIsTicket
  <2>. QED BY <2>1, <2>2
<1>3. /\ \A k \in Conns : curPar'[k] <= curPar[k]
      /\ UNCHANGED <<maxPar, curPar, inQueue>>
  BY DEF conn, SerialInv, TypeOK
<1>4. CallIsCurrent' /\ \A k \in Conns : Waiting(k)' = Waiting(k)
  BY <1>1, <1>3, CallKept
<1>5. \A k \in Conns : Holding(k)' = Holding(k)
  BY <1>1 DEF Holding
<1>6. CountersAreTrue'
  BY <1>3, <1>4, <1>5 DEF SerialInv, CountersAreTrue
<1>. QED BY <1>2, <1>4, <1>6 DEF SerialInv

\* finish_task gives the entry back: an execution that ended has one.
LEMMA FinishSerial ==
  ASSUME SerialQueue, SerialInv, TypeOK', NEW t \in Tasks, FinishTask(t)
  PROVE  SerialInv'
<1> USE DEF SerialInv
<1>1. /\ finishing[t] > 0 /\ DequeueTask(t)
      /\ finishing' = [finishing EXCEPT ![t] = @ - 1]
      /\ UNCHANGED <<state, maxPar, inQueue, call, running, resetting>>
  BY DEF FinishTask
<1>2. finishing[t] = 1 /\ state[t] = "terminal" /\ running[t] = 0 /\ HasEntry(t)
  <2>1. finishing[t] \in Nat /\ running[t] \in Nat
    BY DEF TypeOK
  <2>. QED BY <1>1, <2>1 DEF EntryIsTicket
<1>3. PICK e \in EntriesOf(t) :
        /\ entries' = entries \ {e}
        /\ curPar' = [curPar EXCEPT ![ConnOf[t]] = @ - 1]
  BY <1>1, <1>2 DEF DequeueTask
<1>4. ~HasEntry(t)' /\ \A u \in Tasks \ {t} : HasEntry(u)' = HasEntry(u)
  BY <1>3, LastEntry
<1>5. EntryIsTicket'
  <2>1. \A u \in Tasks : finishing'[u] = IF u = t THEN 0 ELSE finishing[u]
    BY <1>1, <1>2 DEF TypeOK
  <2>. QED BY <1>1, <1>2, <1>4, <2>1 DEF EntryIsTicket
<1>6. CountersAreTrue' /\ \A k \in Conns : curPar'[k] <= curPar[k]
  <2> SUFFICES ASSUME NEW k \in Conns
               PROVE  /\ inQueue[k] = Cardinality(Waiting(k)')
                      /\ curPar'[k] = Cardinality(Holding(k)')
                      /\ curPar'[k] <= maxPar[k] /\ maxPar[k] = MaxParallelism[k]
                      /\ curPar'[k] <= curPar[k]
    BY <1>1 DEF CountersAreTrue
  <2>1. /\ inQueue[k] = Cardinality(Waiting(k)) /\ curPar[k] = Cardinality(Holding(k))
        /\ curPar[k] <= maxPar[k] /\ maxPar[k] = MaxParallelism[k]
        /\ curPar[k] \in Int /\ maxPar[k] \in Nat
    BY DEF CountersAreTrue, TypeOK
  <2>2. Waiting(k)' = Waiting(k)
    BY <1>1 DEF Waiting
  <2>3. CASE k # ConnOf[t]
    <3>1. Holding(k)' = Holding(k)
      BY <1>1, <1>4, <2>3 DEF Holding
    <3>2. curPar'[k] = curPar[k]
      BY <1>3, <2>3 DEF TypeOK
    <3>. QED BY <2>1, <2>2, <3>1, <3>2
  <2>4. CASE k = ConnOf[t]
    <3>1. Holding(k)' = Holding(k) \ {t} /\ t \in Holding(k)
      BY <1>1, <1>2, <1>4, <2>4 DEF Holding
    <3>2. Cardinality(Holding(k) \ {t}) = Cardinality(Holding(k)) - 1
      BY <3>1, CountableTasks, FS_RemoveElement DEF Holding
    <3>3. curPar'[k] = curPar[k] - 1
      BY <1>3, <2>4 DEF TypeOK
    <3>. QED BY <2>1, <2>2, <3>1, <3>2, <3>3
  <2>. QED BY <2>3, <2>4
<1>7. CallIsCurrent'
  BY <1>1, <1>4, <1>6, CallKept
<1>. QED BY <1>1, <1>5, <1>6, <1>7

\* Every step of a worker, and every way it can fail here, keeps the invariant.
LEMMA WorkerSerial ==
  ASSUME SerialQueue, SerialInv, TypeOK', NEW t \in Tasks, TaskStep(t)
  PROVE  SerialInv'
<1>0. /\ running[t] \in Nat /\ finishing[t] \in Nat
      /\ ~HasEntry(t) => /\ state[t] \in {"scheduled", "terminal"}
                         /\ running[t] = 0 /\ finishing[t] = 0
      /\ running[t] > 0 => running[t] = 1 /\ state[t] \in {"queued_in_redis", "running"}
      /\ finishing[t] > 0 => finishing[t] = 1 /\ state[t] = "terminal"
      /\ running \in [Tasks -> Nat] /\ finishing \in [Tasks -> Nat] /\ state \in [Tasks -> States]
  BY DEF SerialInv, TypeOK, EntryIsTicket
<1>1. CASE WorkerRunning(t)
  <2>1. /\ running[t] > 0 /\ state' = [state EXCEPT ![t] = "running"]
        /\ UNCHANGED <<entries, conn, call, resetting, running, finishing>>
    BY <1>1 DEF WorkerRunning, execs
  <2>. QED BY <1>0, <2>1, ExecutionSerial
<1>2. CASE WorkerEnds(t)
  <2>1. /\ running[t] > 0 /\ state' = [state EXCEPT ![t] = "terminal"]
        /\ running' = [running EXCEPT ![t] = @ - 1]
        /\ finishing' = [finishing EXCEPT ![t] = @ + 1]
        /\ UNCHANGED <<entries, conn, call, resetting>>
    BY <1>2 DEF WorkerEnds
  <2>. QED BY <1>0, <2>1, ExecutionSerial
<1>3. CASE WorkerLost(t)
  <2>1. /\ running[t] > 0 /\ running' = [running EXCEPT ![t] = @ - 1]
        /\ UNCHANGED <<entries, conn, call, resetting, state, finishing>>
    BY <1>3 DEF WorkerLost
  <2>. QED BY <1>0, <2>1, ExecutionSerial
<1>4. CASE ReapStale(t)
  <2>1. running[t] = 0
    BY <1>4 DEF ReapStale, Fault, SerialQueue
  <2>2. /\ state[t] = "running" /\ state' = [state EXCEPT ![t] = "terminal"]
        /\ finishing' = [finishing EXCEPT ![t] = @ + 1]
        /\ UNCHANGED <<entries, conn, call, resetting, running>>
    BY <1>4 DEF ReapStale
  <2>. QED BY <1>0, <2>1, <2>2, ExecutionSerial
<1>5. CASE FinishTask(t)
  BY <1>5, FinishSerial
<1>6. CASE FinishReplyLost(t)
  BY <1>6 DEF FinishReplyLost, Fault, SerialQueue
<1>7. CASE DequeueExhausted(t)
  <2>1. /\ finishing[t] > 0 /\ finishing' = [finishing EXCEPT ![t] = @ - 1]
        /\ UNCHANGED <<entries, conn, call, resetting, running, state>>
    BY <1>7 DEF DequeueExhausted
  <2>. QED BY <1>0, <2>1, ExecutionSerial
<1>8. CASE ResetDequeues(t)
  BY <1>8 DEF ResetDequeues, SerialQueue, SerialInv, TypeOK
<1>9. CASE ResetWrites(t)
  BY <1>9 DEF ResetWrites, SerialInv
<1>. QED BY <1>1, <1>2, <1>3, <1>4, <1>5, <1>6, <1>7, <1>8, <1>9 DEF TaskStep

-----------------------------------------------------------------------------
(* The theorems                                                            *)

\* The invariant holds of a queue nobody has used.
LEMMA SerialInit == Init => SerialInv
<1> SUFFICES ASSUME Init PROVE SerialInv
  OBVIOUS
<1>1. TypeOK
  BY ConstantsAssumption, NoPopType DEF Init, TypeOK, States
<1>2. \A t \in Tasks : ~HasEntry(t) /\ state[t] = "scheduled" /\ running[t] = 0 /\ finishing[t] = 0
  BY DEF Init, HasEntry, EntriesOf
<1>3. EntryIsTicket
  BY <1>2 DEF EntryIsTicket
<1>4. CallIsCurrent
  BY DEF Init, CallIsCurrent
<1>5. CountersAreTrue
  <2>1. \A k \in Conns : Waiting(k) = {} /\ Holding(k) = {}
    BY <1>2 DEF Waiting, Holding
  <2>2. \A k \in Conns : /\ inQueue[k] = 0 /\ curPar[k] = 0
                         /\ maxPar[k] = MaxParallelism[k] /\ MaxParallelism[k] \in Nat
    BY ConstantsAssumption DEF Init
  <2>3. Cardinality({}) = 0
    BY FS_EmptySet
  <2>. QED BY <2>1, <2>2, <2>3 DEF CountersAreTrue
<1>. QED BY <1>1, <1>3, <1>4, <1>5 DEF SerialInv, Init

\* Every step keeps the invariant.
LEMMA SerialNext ==
  ASSUME SerialQueue, SerialInv, TypeOK', [Next]_vars
  PROVE  SerialInv'
<1>1. CASE UNCHANGED vars
  <2>1. /\ EntryIsTicket' /\ CountersAreTrue' /\ \A t \in Tasks : HasEntry(t)' = HasEntry(t)
        /\ \A k \in Conns : Waiting(k)' = Waiting(k)
    BY <1>1, PictureKept DEF vars
  <2>2. CallIsCurrent'
    BY <1>1, CallKept DEF vars, conn, execs, SerialInv, TypeOK, HasEntry, EntriesOf
  <2>. QED BY <1>1, <2>1, <2>2 DEF SerialInv, vars
<1>2. ASSUME NEW k \in Conns, NEW limit \in NewLimits, EditMaxParallelism(k, limit)
      PROVE  SerialInv'
  BY <1>2 DEF SerialQueue
<1>. QED BY <1>1, <1>2, CallSerial, WorkerSerial DEF Next

\* One call at a time, nobody who edits or resets: the counters are the numbers of waiting
\* and of held entries, and every entry stands for one execution.
THEOREM SerialInvHolds == ASSUME SerialQueue PROVE Spec => []SerialInv
<1>1. TypeOK' /\ SerialInv /\ [Next]_vars => SerialInv'
  BY SerialNext
<1>. QED BY <1>1, SerialInit, TypeCorrect, PTL DEF Spec

\* The executions of a connection are at most the entries that are held.
LEMMA ExecutionsAreHeld ==
  ASSUME SerialInv, NEW k \in Conns
  PROVE  Cardinality(ExecutionsOn(k)) \in Nat /\ Cardinality(ExecutionsOn(k)) <= curPar[k]
<1> DEFINE busy == {t \in Tasks : ConnOf[t] = k /\ running[t] > 0}
<1>1. busy \in SUBSET Holding(k) /\ busy \in SUBSET Tasks /\ Holding(k) \in SUBSET Tasks
  BY DEF SerialInv, EntryIsTicket, Holding
<1>2. ExecutionsOn(k) \in SUBSET (busy \X {1})
  <2> SUFFICES ASSUME NEW e \in ExecutionsOn(k) PROVE e \in busy \X {1}
    OBVIOUS
  <2>1. PICK t \in Tasks, i \in 1..(MaxSubmits + MaxFaults + MaxResets) :
          e = <<t, i>> /\ ConnOf[t] = k /\ i <= running[t]
    BY DEF ExecutionsOn
  <2>2. running[t] \in Nat /\ i \in Nat /\ i >= 1
    BY <2>1, ConstantsAssumption DEF SerialInv, TypeOK
  <2>3. running[t] > 0
    BY <2>1, <2>2
  <2>4. running[t] = 1
    BY <2>3 DEF SerialInv, EntryIsTicket
  <2>5. i = 1 /\ t \in busy
    BY <2>1, <2>2, <2>3, <2>4
  <2>. QED BY <2>1, <2>5
<1> HIDE DEF busy
<1>3. IsFiniteSet(busy) /\ Cardinality(busy) \in Nat /\ IsFiniteSet(Holding(k))
  BY <1>1, CountableTasks
<1>4. Cardinality(busy) <= Cardinality(Holding(k))
  BY <1>1, <1>3, FS_Subset
<1>5. IsFiniteSet({1}) /\ Cardinality({1}) = 1
  BY FS_Singleton
<1>6. IsFiniteSet(busy \X {1}) /\ Cardinality(busy \X {1}) = Cardinality(busy) * 1
  BY <1>3, <1>5, FS_Product
<1>7. IsFiniteSet(ExecutionsOn(k)) /\ Cardinality(ExecutionsOn(k)) <= Cardinality(busy \X {1})
  BY <1>2, <1>6, FS_Subset
<1>8. Cardinality(ExecutionsOn(k)) \in Nat
  BY <1>7, FS_CardinalityType
<1>9. curPar[k] = Cardinality(Holding(k)) /\ Cardinality(Holding(k)) \in Nat
  BY <1>1, CountableTasks DEF SerialInv, CountersAreTrue
<1>. QED BY <1>3, <1>4, <1>6, <1>7, <1>8, <1>9

\* No connection runs more executions than its current_parallelism counts.
THEOREM ExecutionsAreCountedHolds == ASSUME SerialQueue PROVE Spec => []ExecutionsAreCounted
<1>1. SerialInv => ExecutionsAreCounted
  BY ExecutionsAreHeld DEF ExecutionsAreCounted
<1>. QED BY <1>1, SerialInvHolds, PTL

\* The documented limit: no connection runs more executions than max_parallelism. It is
\* lost only where calls overlap, a pop runs out of attempts or a living run is reaped.
THEOREM ParallelismLimitHolds == ASSUME SerialQueue PROVE Spec => []ParallelismLimit
<1>1. ASSUME SerialInv, NEW k \in Conns PROVE Cardinality(ExecutionsOn(k)) <= maxPar[k]
  <2>1. Cardinality(ExecutionsOn(k)) \in Nat /\ Cardinality(ExecutionsOn(k)) <= curPar[k]
    BY <1>1, ExecutionsAreHeld
  <2>2. curPar[k] <= maxPar[k] /\ curPar[k] \in Int /\ maxPar[k] \in Nat
    BY <1>1 DEF SerialInv, TypeOK, CountersAreTrue
  <2>. QED BY <2>1, <2>2
<1>2. SerialInv => ParallelismLimit
  BY <1>1 DEF ParallelismLimit
<1>. QED BY <1>2, SerialInvHolds, PTL

\* No task has two executions, which share its entry.
THEOREM OneExecutionPerTaskHolds == ASSUME SerialQueue PROVE Spec => []OneExecutionPerTask
<1>1. ASSUME SerialInv, NEW t \in Tasks PROVE running[t] <= 1
  <2>1. running[t] \in Nat /\ (running[t] > 0 => running[t] = 1)
    BY <1>1 DEF SerialInv, TypeOK, EntryIsTicket
  <2>. QED BY <2>1
<1>2. SerialInv => OneExecutionPerTask
  BY <1>1 DEF OneExecutionPerTask
<1>. QED BY <1>2, SerialInvHolds, PTL

\* A task shown as waiting has the entry by which a later call finds it.
THEOREM QueuedIsReachableHolds == ASSUME SerialQueue PROVE Spec => []QueuedIsReachable
<1>1. SerialInv => QueuedIsReachable
  BY DEF SerialInv, EntryIsTicket, QueuedIsReachable
<1>. QED BY <1>1, SerialInvHolds, PTL

-----------------------------------------------------------------------------
(* The refinement                                                          *)

\* An enqueue is an arrival at the pool.
LEMMA EnqueueArrives ==
  ASSUME SerialInv, NEW c \in Callers, NEW k \in Conns, EnqueueTasks(c, k)
  PROVE  Pool!Arrive(k)
<1> DEFINE group == TasksOn(k, batch[c])
<1>1. group # {} /\ group \in SUBSET Tasks
  BY DEF EnqueueTasks, TasksOn, SerialInv, TypeOK
<1>2. inQueue' = [inQueue EXCEPT ![k] = @ + Cardinality(group)] /\ curPar' = curPar
  BY DEF EnqueueTasks
<1>3. Cardinality(group) \in Nat /\ Cardinality(group) # 0
  BY <1>1, CountableTasks, FS_EmptySet
<1> HIDE DEF group
<1>4. inQueue \in [Conns -> Int]
  BY DEF SerialInv, TypeOK
<1>. QED BY <1>2, <1>3, <1>4 DEF Pool!Arrive

\* A pop is a grant of what waited and is free, or changes no counter.
LEMMA PopGrants ==
  ASSUME SerialInv, NEW c \in Callers, UpdateConnectionWithTasks(c)
  PROVE  (\E k \in Conns : Pool!Grant(k)) \/ UNCHANGED <<curPar, inQueue>>
<1>1. PICK k \in Conns, n \in Int : k = popping[c].conn /\ n = popping[c].count
  BY DEF SerialInv, TypeOK
<1>2. /\ curPar' = [curPar EXCEPT ![k] = @ + n]
      /\ inQueue' = [inQueue EXCEPT ![k] = @ - n]
  BY <1>1 DEF UpdateConnectionWithTasks
<1>3. 0 <= n /\ n <= inQueue[k] /\ curPar[k] + n <= MaxParallelism[k]
  BY <1>1 DEF UpdateConnectionWithTasks, SerialInv, CallIsCurrent
<1>4. curPar \in [Conns -> Int] /\ inQueue \in [Conns -> Int]
  BY DEF SerialInv, TypeOK
<1>5. CASE n = 0
  BY <1>2, <1>4, <1>5
<1>6. CASE n # 0
  <2>1. n \in 1..inQueue[k]
    BY <1>3, <1>4, <1>6
  <2>. QED BY <1>2, <1>3, <2>1 DEF Pool!Grant
<1>. QED BY <1>5, <1>6

\* A finish gives back a slot that was held, or finds the entry gone.
LEMMA FinishReleases ==
  ASSUME SerialInv, SerialInv', NEW t \in Tasks, FinishTask(t)
  PROVE  Pool!Release(ConnOf[t]) \/ UNCHANGED <<curPar, inQueue>>
<1>1. inQueue' = inQueue /\ DequeueTask(t)
  BY DEF FinishTask
<1>2. CASE curPar' = [curPar EXCEPT ![ConnOf[t]] = @ - 1]
  <2>1. ConnOf[t] \in Conns /\ curPar \in [Conns -> Int]
    BY ConstantsAssumption DEF SerialInv, TypeOK
  <2>2. curPar'[ConnOf[t]] = Cardinality(Holding(ConnOf[t])')
    BY <2>1 DEF SerialInv, CountersAreTrue
  <2>3. Cardinality(Holding(ConnOf[t])') \in Nat
    <3>1. Holding(ConnOf[t])' \in SUBSET Tasks
      BY DEF Holding
    <3>. QED BY <3>1, CountableTasks
  <2>4. curPar[ConnOf[t]] > 0
    BY <1>2, <2>1, <2>2, <2>3
  <2>. QED BY <1>1, <1>2, <2>4 DEF Pool!Release
<1>. QED BY <1>1, <1>2 DEF DequeueTask

\* Every step of the queue is a step of the pool or changes no counter.
LEMMA StepIsPoolStep ==
  ASSUME SerialQueue, SerialInv, SerialInv', [Next]_vars
  PROVE  [Pool!Next]_<<curPar, inQueue>>
<1>1. ASSUME NEW c \in Callers, Tick(c) \/ Submit(c) \/ CallerStep(c) \/ CallerFault(c)
      PROVE  [Pool!Next]_<<curPar, inQueue>>
  <2>1. ASSUME NEW k \in Conns, EnqueueTasks(c, k) PROVE Pool!Next
    BY <2>1, EnqueueArrives DEF Pool!Next
  <2>2. CASE UpdateConnectionWithTasks(c)
    BY <2>2, PopGrants DEF Pool!Next
  <2>3. CASE CallerFault(c)
    BY <2>3 DEF CallerFault, EnqueueExhausted, PopAborted, PopExhausted, RunTaskRaises, Return, conn
  <2>4. CASE Tick(c) \/ Submit(c)
    BY <2>4 DEF Tick, Submit, LoadBalance, conn
  <2>5. CASE GetConnectionsWithTasks(c) \/ LoadBalanced(c)
    BY <2>5 DEF GetConnectionsWithTasks, LoadBalanced, Return, conn
  <2>6. ASSUME NEW k \in Conns, GetConnectionMetrics(c, k) PROVE UNCHANGED <<curPar, inQueue>>
    BY <2>6 DEF GetConnectionMetrics, conn
  <2>7. ASSUME NEW t \in Tasks, RunTask(c, t) PROVE UNCHANGED <<curPar, inQueue>>
    BY <2>7 DEF RunTask, conn
  <2>. QED BY <1>1, <2>1, <2>2, <2>3, <2>4, <2>5, <2>6, <2>7 DEF CallerStep
<1>2. ASSUME NEW t \in Tasks, TaskStep(t) PROVE [Pool!Next]_<<curPar, inQueue>>
  <2>1. CASE FinishTask(t)
    <3>1. ConnOf[t] \in Conns
      BY ConstantsAssumption
    <3>. QED BY <2>1, <3>1, FinishReleases DEF Pool!Next
  <2>2. CASE WorkerRunning(t) \/ WorkerEnds(t) \/ WorkerLost(t) \/ ReapStale(t)
    BY <2>2 DEF WorkerRunning, WorkerEnds, WorkerLost, ReapStale, conn
  <2>3. CASE DequeueExhausted(t) \/ ResetWrites(t)
    BY <2>3 DEF DequeueExhausted, ResetWrites, conn
  <2>4. CASE FinishReplyLost(t)
    BY <2>4 DEF FinishReplyLost, Fault, SerialQueue
  <2>5. CASE ResetDequeues(t)
    BY <2>5 DEF ResetDequeues, SerialQueue, SerialInv, TypeOK
  <2>. QED BY <1>2, <2>1, <2>2, <2>3, <2>4, <2>5 DEF TaskStep
<1>3. CASE UNCHANGED vars
  BY <1>3 DEF vars, conn
<1>4. ASSUME NEW k \in Conns, NEW limit \in NewLimits, EditMaxParallelism(k, limit)
      PROVE  [Pool!Next]_<<curPar, inQueue>>
  BY <1>4 DEF SerialQueue
<1>. QED BY <1>1, <1>2, <1>3, <1>4 DEF Next

\* The counters implement a pool of max_parallelism slots: what is granted was waiting and
\* free, and what is given back was held.
THEOREM ImplementsSlotPoolHolds == ASSUME SerialQueue PROVE Spec => ImplementsSlotPool
<1>1. Init => Pool!Init
  BY DEF Init, Pool!Init
<1>2. SerialInv /\ SerialInv' /\ [Next]_vars => [Pool!Next]_<<curPar, inQueue>>
  BY StepIsPoolStep
<1>3. Spec => []SerialInv
  BY SerialInvHolds
<1>. QED BY <1>1, <1>2, <1>3, PTL DEF Spec, ImplementsSlotPool, Pool!Spec, Pool!poolVars
=============================================================================
