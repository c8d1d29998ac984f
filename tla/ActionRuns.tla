----------------------------- MODULE ActionRuns -----------------------------
(* The actions of one task: a run request runs the pre-actions one after     *)
(* the other, each time waiting in its API process for the result, and only  *)
(* then lets the task go on; running and post-actions are sent and not       *)
(* waited for. The action worker runs an action, reads the task's            *)
(* actions_status, appends its entry and writes the whole of it back; every  *)
(* one of these calls goes to an API process that is not itself waiting.     *)
EXTENDS Naturals, FiniteSets

CONSTANTS
  RunRequests,     \* run requests of the task
  PreActions,      \* number of pre-actions
  FollowUps,       \* number of running and post-actions
  ApiWorkers,      \* uvicorn processes
  MaxLosses        \* bound: calls of the workers that fail

ASSUME ActionRunsAssumption ==
  /\ IsFiniteSet(RunRequests) /\ PreActions \in Nat /\ FollowUps \in Nat
  /\ ApiWorkers \in Nat \ {0} /\ MaxLosses \in Nat

Pre == 1..PreActions
Actions == Pre \cup PreActions + 1..PreActions + FollowUps

VARIABLES
  request,          \* step, the pre-action it waits for, actions_status as it read it
  action,           \* each action of each request
  actions_status,   \* entries of the task document
  callErrors

actionVars == <<request, action, actions_status, callErrors>>

Entry == [of : RunRequests \X Actions, status : BOOLEAN]
ActionStates == {"none", "queued", "read", "recorded", "done"}

ActionRunsTypeOK ==
  /\ request \in [RunRequests -> [step : {"new", "waiting", "admitted", "refused"},
                               at : 0..PreActions, seen : SUBSET Entry]]
  /\ DOMAIN action = RunRequests \X Actions
  /\ \A x \in RunRequests \X Actions :
       /\ action[x].state \in ActionStates /\ action[x].result \in BOOLEAN /\ action[x].copy \subseteq Entry
  /\ actions_status \subseteq Entry
  /\ callErrors \in 0..MaxLosses

ActionRunsInit ==
  /\ request = [r \in RunRequests |-> [step |-> "new", at |-> 0, seen |-> {}]]
  /\ action = [x \in RunRequests \X Actions |->
                 [state |-> "none", result |-> FALSE, copy |-> {}]]
  /\ actions_status = {} /\ callErrors = 0

-----------------------------------------------------------------------------
(* async_result.get blocks the event loop of the process that waits.         *)
Blocked == Cardinality({r \in RunRequests : request[r].step = "waiting"})

CallWorks == Blocked < ApiWorkers /\ UNCHANGED callErrors
CallFails == callErrors < MaxLosses /\ callErrors' = callErrors + 1

Queues(x) == action' = [action EXCEPT ![x].state = "queued"]

(* A run request reads the task, clears its actions_status and queues the    *)
(* first pre-action.                                                         *)
RunRequested(r) ==
  /\ request[r].step = "new" /\ CallWorks
  /\ IF PreActions = 0
     THEN /\ request' = [request EXCEPT ![r].step = "admitted", ![r].seen = actions_status]
          /\ UNCHANGED <<action, actions_status>>
     ELSE /\ request' = [request EXCEPT ![r] =
                           [step |-> "waiting", at |-> 1, seen |-> actions_status]]
          /\ actions_status' = {} /\ Queues(<<r, 1>>)

(* The next pre-action, or the task goes on to the connection queue.         *)
AdvancesPast(r) ==
  IF request[r].at <= PreActions
  THEN /\ request' = [request EXCEPT ![r].at = @ + 1]
       /\ Queues(<<r, request[r].at + 1>>)
  ELSE request' = [request EXCEPT ![r].step = "admitted"] /\ UNCHANGED action
Advances(r) ==
  IF request[r].at < PreActions
  THEN /\ request' = [request EXCEPT ![r].at = @ + 1]
       /\ Queues(<<r, request[r].at + 1>>)
  ELSE request' = [request EXCEPT ![r].step = "admitted"] /\ UNCHANGED action

Refuses(r) == request' = [request EXCEPT ![r].step = "refused"] /\ UNCHANGED action

Waited(r) == action[<<r, request[r].at>>]

(* The result is {"result": b}, or FALSE when the worker raised.             *)
AnsweredByDict(r) ==
  /\ request[r].step = "waiting" /\ Waited(r).state = "done"
  /\ Advances(r)
  /\ UNCHANGED <<actions_status, callErrors>>
AnsweredEarly(r) ==
  /\ request[r].step = "waiting" /\ Waited(r).state \in {"read", "recorded", "done"}
  /\ IF Waited(r).result THEN Advances(r) ELSE Refuses(r)
  /\ UNCHANGED <<actions_status, callErrors>>
PreActionAnswered(r) ==
  /\ request[r].step = "waiting" /\ Waited(r).state = "done"
  /\ IF Waited(r).result THEN Advances(r) ELSE Refuses(r)
  /\ UNCHANGED <<actions_status, callErrors>>

(* The action is not revoked: it runs, or goes on, without its request.      *)
TimesOut(r) ==
  /\ request[r].step = "waiting" /\ Waited(r).state # "done"
  /\ Refuses(r)
  /\ UNCHANGED <<actions_status, callErrors>>

(* Running actions at their SLA, post-actions at the end: sent, not awaited, *)
(* each at most once.                                                        *)
FollowsUp(r, i) ==
  /\ request[r].step = "admitted" /\ i \notin Pre /\ action[<<r, i>>].state = "none"
  /\ Queues(<<r, i>>)
  /\ UNCHANGED <<request, actions_status, callErrors>>

-----------------------------------------------------------------------------
(* execute_action fetches the code and runs it (FALSE stands for a falsy     *)
(* result and for every exception), then reads the latest actions_status, or *)
(* takes that of the task it was sent with when this call fails.             *)
RunsAndReads(x) ==
  /\ action[x].state = "queued"
  /\ \E b \in BOOLEAN, copy \in {actions_status, request[x[1]].seen} :
       /\ \/ CallWorks /\ copy = actions_status
          \/ CallFails /\ (~b \/ copy = request[x[1]].seen)
       /\ action' = [action EXCEPT ![x].state = "read", ![x].result = b, ![x].copy = copy]
  /\ UNCHANGED <<request, actions_status>>

EntryOf(x) == [of |-> x, status |-> action[x].result]

WritesStatus(x) ==
  /\ action[x].state = "read"
  /\ \/ CallWorks /\ actions_status' = action[x].copy \cup {EntryOf(x)}
     \/ CallFails /\ UNCHANGED actions_status
  /\ action' = [action EXCEPT ![x].state = "recorded", ![x].copy = {}]
  /\ UNCHANGED request

(* The result is stored. A message is acknowledged on receipt, so an action  *)
(* whose worker is lost is not delivered again: it stays where it was, and   *)
(* its request is refused (TimesOut).                                        *)
Returns(x) ==
  /\ action[x].state = "recorded"
  /\ action' = [action EXCEPT ![x].state = "done"]
  /\ UNCHANGED <<request, actions_status, callErrors>>

ActionRunsNext ==
  \/ \E r \in RunRequests : \/ RunRequested(r) \/ PreActionAnswered(r) \/ TimesOut(r)
                         \/ \E i \in Actions : FollowsUp(r, i)
  \/ \E x \in RunRequests \X Actions :
       RunsAndReads(x) \/ WritesStatus(x) \/ Returns(x)

ActionRunsSpec == ActionRunsInit /\ [][ActionRunsNext]_actionVars

-----------------------------------------------------------------------------
(* A task goes on only after every one of its pre-actions has returned a     *)
(* truthy result in this request, late answers and lost workers included     *)
(* (pre_action_manager.py:88-123).                                           *)
GateHolds ==
  \A r \in RunRequests : request[r].step = "admitted" =>
    \A i \in Pre : action[<<r, i>>].state = "done" /\ action[<<r, i>>].result

(* A request that no other request overlaps, and none of whose calls failed, *)
(* finds every pre-action it was admitted on in the document: the next one   *)
(* is sent after the entry of the last is written (action_executor.py:       *)
(* 259-303 runs before the result is returned).                              *)
LoneRequestIsRecorded ==
  \A r \in RunRequests :
    /\ request[r].step = "admitted" /\ callErrors = 0
    /\ \A q \in RunRequests \ {r} : request[q].step = "new"
    /\ \A i \in Actions \ Pre : action[<<r, i>>].state = "none"
    => \A i \in Pre : \E e \in actions_status : e.of = <<r, i>> /\ e.status

(* "This prevents race conditions where concurrent updates overwrite each    *)
(* other" (action_executor.py:262-263). Does not hold: two actions read the  *)
(* same list and the second write drops the first entry.                     *)
ConcurrentEntriesKept ==
  (callErrors = 0 /\ Cardinality({r \in RunRequests : request[r].step # "new"}) = 1) =>
    \A x \in RunRequests \X Actions :
      action[x].state = "done" => \E e \in actions_status : e.of = x

(* The types, and what a run request may rely on.                            *)
ActionsAreGated == ActionRunsTypeOK /\ GateHolds /\ LoneRequestIsRecorded
=============================================================================
