----------------------------- MODULE TaskOrder -----------------------------
(* Which queued tasks of a connection are picked first: _sort_tasks sorts    *)
(* the list once per entry of the connection's sort_dict, last entry first,  *)
(* and relies on each sort being stable. A field that is unset (None) in any *)
(* of several tasks cannot be compared and the sort raises.                  *)
EXTENDS Naturals, FiniteSets, Sequences

CONSTANTS
  SortFields,  \* attributes that sort_dict may name
  FieldValues, \* what they may hold
  Unset,       \* None
  Queued       \* number of tasks in the list

ASSUME TaskOrderAssumption ==
  FieldValues \subseteq Nat /\ Unset \notin Nat /\ Queued \in Nat /\ IsFiniteSet(SortFields)

Orders == {"ascending", "descending"}
SortDicts == {d \in UNION {[1..n -> SortFields \X Orders] : n \in 0..Cardinality(SortFields)} :
                \A i, j \in DOMAIN d : d[i][1] = d[j][1] => i = j}
Attributes == [SortFields -> FieldValues \cup {Unset}]

VARIABLES
  tasks,          \* attributes of each task, in the order the repository lists them
  sort_dict, left,\* its entries; how many are still to be applied
  sorted_tasks,   \* positions in tasks
  sortState

orderVars == <<tasks, sort_dict, left, sorted_tasks, sortState>>

TaskOrderTypeOK ==
  /\ tasks \in [1..Queued -> Attributes] /\ sort_dict \in SortDicts
  /\ left \in 0..Len(sort_dict)
  /\ sorted_tasks \in [1..Queued -> 1..Queued]
  /\ \A p \in 1..Queued : \E i \in 1..Queued : sorted_tasks[i] = p
  /\ sortState \in {"sorting", "sorted", "raised"}

TaskOrderInit ==
  /\ tasks \in [1..Queued -> Attributes] /\ sort_dict \in SortDicts
  /\ left = Len(sort_dict) /\ sorted_tasks = [i \in 1..Queued |-> i] /\ sortState = "sorting"

-----------------------------------------------------------------------------
(* sorted(list, key, reverse): a stable sort, in both directions.            *)
Sooner(v, w, order) == v # w /\ IF order = "ascending" THEN v < w ELSE v > w

RankReversed(keys, order, i) ==
  1 + Cardinality({j \in DOMAIN keys :
                     \/ Sooner(keys[j], keys[i], order)
                     \/ keys[j] = keys[i] /\ IF order = "ascending" THEN j < i ELSE j > i})
Rank(keys, order, i) ==
  1 + Cardinality({j \in DOMAIN keys : \/ Sooner(keys[j], keys[i], order)
                                       \/ keys[j] = keys[i] /\ j < i})

SortedByBucket(list, keys, order) ==
  [n \in DOMAIN list |-> list[CHOOSE i \in DOMAIN list :
                                 \A j \in DOMAIN list : keys[j] = keys[n] => i <= j]]
SortedBy(list, keys, order) ==
  [n \in DOMAIN list |-> list[CHOOSE i \in DOMAIN list : Rank(keys, order, i) = n]]

Keys(field) == [i \in DOMAIN sorted_tasks |-> tasks[sorted_tasks[i]][field]]

SortStep ==
  /\ sortState = "sorting" /\ left > 0
  /\ LET field == sort_dict[left][1] order == sort_dict[left][2] keys == Keys(field)
     IN IF Queued > 1 /\ \E i \in DOMAIN keys : keys[i] = Unset
        THEN sortState' = "raised" /\ UNCHANGED <<left, sorted_tasks>>
        ELSE /\ sorted_tasks' = SortedBy(sorted_tasks, keys, order)
             /\ left' = left - 1 /\ UNCHANGED sortState
  /\ UNCHANGED <<tasks, sort_dict>>

SortEnds ==
  /\ sortState = "sorting" /\ left = 0 /\ sortState' = "sorted"
  /\ UNCHANGED <<tasks, sort_dict, left, sorted_tasks>>

TaskOrderNext == SortStep \/ SortEnds

TaskOrderSpec == TaskOrderInit /\ [][TaskOrderNext]_orderVars

-----------------------------------------------------------------------------
(* p is picked before q: the first entry of sort_dict on which they differ   *)
(* decides, and equal tasks keep the order of the queue.                     *)
PickedBefore(p, q) ==
  \/ \E k \in DOMAIN sort_dict :
       /\ \A m \in 1..k - 1 : tasks[p][sort_dict[m][1]] = tasks[q][sort_dict[m][1]]
       /\ tasks[p][sort_dict[k][1]] # tasks[q][sort_dict[k][1]]
       /\ Sooner(tasks[p][sort_dict[k][1]], tasks[q][sort_dict[k][1]], sort_dict[k][2])
  \/ /\ \A k \in DOMAIN sort_dict : tasks[p][sort_dict[k][1]] = tasks[q][sort_dict[k][1]]
     /\ p < q

(* The repeated stable sorts amount to one comparison by the whole of        *)
(* sort_dict, first entry first, with ties in queue order                    *)
(* (connection_queue_manager.py:92-100, task/connection/README.md:106-115).  *)
PickedInOrder ==
  sortState = "sorted" =>
    \A i, j \in DOMAIN sorted_tasks : i < j => PickedBefore(sorted_tasks[i], sorted_tasks[j])

(* The types, and the order of what is picked.                               *)
OrderIsRight == TaskOrderTypeOK /\ PickedInOrder
=============================================================================
