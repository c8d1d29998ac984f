------------------------------ MODULE TaskForm ------------------------------
(* The task form (RunTaskModal): the list of the task's actions with its two *)
(* editors, the form below the list and the row expanded in it, both keyed   *)
(* by index; the payload field; and submission with its duplicate check. An  *)
(* action is the number of its selection, a value the number of the edit     *)
(* that typed it, 0 the default. The SLA goes the way of the variables.      *)
EXTENDS Naturals, Sequences, SequencesExt

CONSTANTS
  Payloads, Operators,  \* catalog items
  Typed,                \* a payload typed by hand
  Blank,                \* the empty string
  Saved,                \* actions of the task that is edited
  MaxActions,           \* bound: actions, the saved ones included
  Clicks,               \* submissions under way at once
  MaxFormActs, MaxFormErrors   \* bounds: acts of the user, requests that fail

ASSUME TaskFormAssumption ==
  /\ Blank \notin Payloads \cup Operators \cup {Typed}
  /\ Payloads \cap Operators = {} /\ Typed \notin Payloads \cup Operators
  /\ Saved \in Nat /\ MaxActions \in Nat /\ Saved <= MaxActions
  /\ MaxFormActs \in Nat /\ MaxFormErrors \in Nat

VARIABLES
  formMode,         \* "create", "edit", and "shut"
  populated,        \* the search for the saved actions has ended
  taskActions,
  selectedAction, currentAction, draft,   \* the form: currentActionIndex, tempAction*
  fetching, loadingVars,                  \* selections whose details are awaited
  expandedAction, editDraft,              \* the expanded row: tempEditAction*
  numbered,         \* actions numbered so far
  payloadLaui, payloadText, lookups,
  sending,          \* the submissions
  submitting, duplicateTask,
  stored,           \* tasks of this name created by this form
  tidy,             \* the user waits for answers, and ends with one editor
                    \* before the next
  entered, chosenPayload, confirmed,            \* what the user asked for
  removed,          \* actions the user removed, or the catalog did not return
  formActs, formErrors

taskFormVars == <<formMode, populated, taskActions, selectedAction, currentAction, draft,
                  fetching, loadingVars, expandedAction, editDraft, numbered, payloadLaui,
                  payloadText, lookups, sending, submitting, duplicateTask, stored, tidy,
                  entered, removed, chosenPayload, confirmed, formActs, formErrors>>

listVars == <<populated, taskActions, selectedAction, currentAction, draft, fetching,
              loadingVars, expandedAction, editDraft, numbered, entered, removed>>
payloadVars == <<payloadLaui, payloadText, lookups, chosenPayload>>
sendVars == <<formMode, sending, submitting, duplicateTask, stored, confirmed, formErrors>>

-----------------------------------------------------------------------------
Fields == {"variables", "connection"}
Defaults == [x \in Fields |-> 0]
NewAction(n) == [action |-> n, set |-> Defaults]
NoDraft == [x \in {} |-> 0]

FormQuiet ==
  /\ fetching = {} /\ lookups = {}
  /\ \A k \in Clicks : sending[k] = "none"
  /\ formMode = "edit" => populated

(* What any act of the user is subject to. *)
ActsOnForm ==
  /\ formMode # "shut" /\ ~submitting /\ ~duplicateTask
  /\ formActs < MaxFormActs /\ formActs' = formActs + 1
  /\ tidy => FormQuiet
  /\ UNCHANGED tidy

InForm(i) == i = currentAction
TidyAtList == tidy => expandedAction = 0

(* The effect that copies the form into the current action. *)
Synced(actions, i, values) ==
  IF i \in DOMAIN actions THEN [actions EXCEPT ![i].set = values] ELSE actions

ClearForm ==
  /\ selectedAction' = 0 /\ currentAction' = 0 /\ draft' = Defaults

TaskFormInit ==
  /\ formMode \in {"create", "edit"}
  /\ populated = FALSE /\ taskActions = <<>>
  /\ selectedAction = 0 /\ currentAction = 0 /\ draft = Defaults
  /\ fetching = {} /\ loadingVars = FALSE
  /\ expandedAction = 0 /\ editDraft = [i \in 1..MaxActions |-> NoDraft]
  /\ numbered = IF formMode = "edit" THEN Saved ELSE 0
  /\ payloadLaui \in IF formMode = "edit" THEN Payloads ELSE {Blank}
  /\ chosenPayload \in IF formMode = "edit" THEN {payloadLaui} ELSE Operators \cup {Blank}
  /\ lookups = {chosenPayload} \ {Blank}
  /\ payloadText = Blank
  /\ sending = [k \in Clicks |-> "none"]
  /\ submitting = FALSE /\ duplicateTask = FALSE /\ stored = 0 /\ confirmed = 0
  /\ tidy \in BOOLEAN
  /\ entered = [n \in 1..MaxActions |-> Defaults] /\ removed = {}
  /\ formActs = 0 /\ formErrors = 0

-----------------------------------------------------------------------------
(* The actions of the task. *)

(* The list is replaced by those of the saved actions that the search of the *)
(* catalog has returned (one page), in their order.                          *)
RestoreActions(n) ==
  \E nth \in [1..n -> 1..Saved] :
     /\ \A i, j \in 1..n : i < j => nth[i] < nth[j]
     /\ taskActions' = [i \in 1..n |-> NewAction(nth[i])]
     /\ removed' = removed \cup {m \in 1..Saved : \A i \in 1..n : nth[i] # m}

(* The search ends. When it fails or returns nothing the list stays.         *)
Populate ==
  /\ formMode = "edit" /\ ~populated
  /\ populated' = TRUE
  /\ \/ \E n \in 0..Saved : RestoreActions(n)
     \/ removed' = removed \cup (1..Saved) /\ UNCHANGED taskActions
  /\ UNCHANGED <<selectedAction, currentAction, draft, fetching, loadingVars,
                 expandedAction, editDraft, numbered, entered, payloadVars, sendVars,
                 tidy, formActs>>

(* An action is chosen in the form: its details are fetched. *)
SelectAction ==
  /\ ActsOnForm /\ TidyAtList /\ (tidy => selectedAction = 0)
  /\ numbered < MaxActions /\ numbered' = numbered + 1
  /\ selectedAction' = numbered'
  /\ fetching' = fetching \cup {numbered'} /\ loadingVars' = TRUE
  /\ UNCHANGED <<populated, taskActions, currentAction, draft, expandedAction, editDraft,
                 entered, removed, payloadVars, sendVars>>

(* The details: the action is added last and becomes the current one. *)
ActionFetched(n) ==
  /\ n \in fetching /\ fetching' = fetching \ {n} /\ loadingVars' = FALSE
  /\ draft' = [draft EXCEPT !.variables = 0]
  /\ currentAction' = Len(taskActions) + 1
  /\ taskActions' = Synced(Append(taskActions, NewAction(n)), currentAction', draft')
  /\ UNCHANGED <<populated, selectedAction, expandedAction, editDraft, numbered, entered,
                 removed, payloadVars, sendVars, tidy, formActs>>

ActionFetchFails(n) ==
  /\ n \in fetching /\ formErrors < MaxFormErrors
  /\ fetching' = fetching \ {n} /\ loadingVars' = FALSE
  /\ formErrors' = formErrors + 1
  /\ draft' = [draft EXCEPT !.variables = 0]
  /\ taskActions' = Synced(taskActions, currentAction, draft')
  /\ removed' = removed \cup {n}
  /\ UNCHANGED <<populated, selectedAction, currentAction, expandedAction, editDraft,
                 numbered, entered, payloadVars, formMode, sending, submitting,
                 duplicateTask, stored, confirmed, tidy, formActs>>

(* A field of the form is edited; the form is that of selectedAction. *)
EditForm(x) ==
  /\ ActsOnForm /\ TidyAtList
  /\ selectedAction # 0 /\ (x = "variables" => ~loadingVars)
  /\ draft' = [draft EXCEPT ![x] = formActs']
  /\ taskActions' = Synced(taskActions, currentAction, draft')
  /\ entered' = [entered EXCEPT ![selectedAction][x] = formActs']
  /\ UNCHANGED <<populated, selectedAction, currentAction, fetching, loadingVars,
                 expandedAction, editDraft, numbered, removed, payloadVars, sendVars>>

(* "Add Another Action" *)
AddAnother ==
  /\ ActsOnForm /\ TidyAtList
  /\ selectedAction # 0
  /\ ClearForm
  /\ UNCHANGED <<populated, taskActions, fetching, loadingVars, expandedAction, editDraft,
                 numbered, entered, removed, payloadVars, sendVars>>

(* A row goes. The index of the form moves with it, that of the expanded row *)
(* does not.                                                                 *)
CurrentBefore(i) == IF i = currentAction THEN 0 ELSE currentAction - 1

CurrentWithout(i) ==
  IF i = currentAction THEN 0
  ELSE IF i < currentAction THEN currentAction - 1 ELSE currentAction

RemoveAction(i) ==
  /\ ActsOnForm /\ TidyAtList
  /\ i \in DOMAIN taskActions
  /\ removed' = removed \cup {taskActions[i].action}
  /\ IF i = expandedAction
       THEN expandedAction' = 0 /\ editDraft' = [editDraft EXCEPT ![i] = NoDraft]
       ELSE UNCHANGED <<expandedAction, editDraft>>
  /\ IF i = currentAction THEN ClearForm
     ELSE currentAction' = CurrentWithout(i) /\ UNCHANGED <<selectedAction, draft>>
  /\ taskActions' = Synced(RemoveAt(taskActions, i), currentAction', draft')
  /\ UNCHANGED <<populated, fetching, loadingVars, numbered, entered, payloadVars, sendVars>>

(* A row is expanded: another that was stays as it is, its edits unsaved. *)
Expand(i) ==
  /\ ActsOnForm /\ TidyAtList /\ (tidy => ~InForm(i))
  /\ i \in DOMAIN taskActions /\ i # expandedAction
  /\ editDraft' = [editDraft EXCEPT ![i] = taskActions[i].set]
  /\ expandedAction' = i
  /\ UNCHANGED <<populated, taskActions, selectedAction, currentAction, draft, fetching,
                 loadingVars, numbered, entered, removed, payloadVars, sendVars>>

EditRow(x) ==
  /\ ActsOnForm
  /\ expandedAction \in DOMAIN taskActions /\ editDraft[expandedAction] # NoDraft
  /\ editDraft' = [editDraft EXCEPT ![expandedAction][x] = formActs']
  /\ entered' = [entered EXCEPT ![taskActions[expandedAction].action][x] = formActs']
  /\ UNCHANGED <<populated, taskActions, selectedAction, currentAction, draft, fetching,
                 loadingVars, expandedAction, numbered, removed, payloadVars, sendVars>>

Collapse ==
  /\ ActsOnForm
  /\ expandedAction \in DOMAIN taskActions
  /\ IF editDraft[expandedAction] = NoDraft THEN UNCHANGED taskActions
     ELSE taskActions' = [taskActions EXCEPT ![expandedAction].set = editDraft[expandedAction]]
  /\ editDraft' = [editDraft EXCEPT ![expandedAction] = NoDraft]
  /\ expandedAction' = 0
  /\ UNCHANGED <<populated, selectedAction, currentAction, draft, fetching, loadingVars,
                 numbered, entered, removed, payloadVars, sendVars>>

(* What a submission sends: the list with the variables of the expanded row. *)
PackedAsListed == taskActions

Packed ==
  IF expandedAction \in DOMAIN taskActions /\ editDraft[expandedAction] # NoDraft
    THEN [taskActions EXCEPT ![expandedAction].set.variables = editDraft[expandedAction].variables]
    ELSE taskActions

-----------------------------------------------------------------------------
(* The payload. *)
ChooseOperator(o) ==
  /\ ActsOnForm /\ formMode = "create"
  /\ IF payloadLaui = Blank
       THEN lookups' = lookups \cup {o} /\ chosenPayload' = o
       ELSE UNCHANGED <<lookups, chosenPayload>>
  /\ UNCHANGED <<payloadLaui, payloadText, listVars, sendVars>>

ChoosePayload(p) ==
  /\ ActsOnForm
  /\ payloadLaui' = p /\ payloadText' = Blank
  /\ lookups' = lookups \cup {p} /\ chosenPayload' = p
  /\ UNCHANGED <<listVars, sendVars>>

ClearPayload ==
  /\ ActsOnForm /\ payloadLaui # Blank
  /\ payloadLaui' = Blank /\ payloadText' = Blank /\ chosenPayload' = Blank
  /\ UNCHANGED <<lookups, listVars, sendVars>>

TypePayloadBeside ==
  /\ ActsOnForm
  /\ payloadText' = Typed /\ chosenPayload' = Typed
  /\ UNCHANGED <<payloadLaui, lookups, listVars, sendVars>>

TypePayload ==
  /\ ActsOnForm
  /\ payloadLaui' = Blank /\ payloadText' = Typed /\ chosenPayload' = Typed
  /\ UNCHANGED <<lookups, listVars, sendVars>>

(* loadOperatorPayload and handlePayloadChange when the content has come. *)
ContentArrives(x) ==
  /\ x \in lookups /\ lookups' = lookups \ {x}
  /\ payloadText' = x
  /\ UNCHANGED <<payloadLaui, chosenPayload, listVars, sendVars, tidy, formActs>>

ContentFails(x) ==
  /\ x \in lookups /\ lookups' = lookups \ {x}
  /\ formErrors < MaxFormErrors /\ formErrors' = formErrors + 1
  /\ UNCHANGED <<payloadLaui, payloadText, chosenPayload, listVars, formMode, sending,
                 submitting, duplicateTask, stored, confirmed, tidy, formActs>>

(* One of the two is sent. *)
PackedPayload == IF payloadLaui # Blank THEN payloadLaui ELSE payloadText

-----------------------------------------------------------------------------
(* Submission. The task's name stays the same while the form is open. *)
Sends(k, stage) == sending' = [sending EXCEPT ![k] = stage]

(* Until the check has been answered the button stays enabled. *)
Submit(k) ==
  /\ ActsOnForm /\ sending[k] = "none"
  /\ PackedPayload # Blank
  /\ IF formMode = "create"
       THEN Sends(k, "check") /\ UNCHANGED submitting
       ELSE Sends(k, "post") /\ submitting' = TRUE
  /\ UNCHANGED <<formMode, duplicateTask, stored, confirmed, formErrors, listVars, payloadVars>>

CheckIgnored(k) ==
  /\ sending[k] = "check"
  /\ Sends(k, "post") /\ submitting' = TRUE
  /\ UNCHANGED <<formMode, duplicateTask, stored, confirmed, formErrors, listVars, payloadVars, tidy, formActs>>

CheckAnswered(k) ==
  /\ sending[k] = "check"
  /\ IF stored > 0
       THEN Sends(k, "none") /\ duplicateTask' = TRUE /\ UNCHANGED submitting
       ELSE Sends(k, "post") /\ submitting' = TRUE /\ UNCHANGED duplicateTask
  /\ UNCHANGED <<formMode, stored, confirmed, formErrors, listVars, payloadVars, tidy, formActs>>

(* The check fails: the task is created without it. *)
CheckFails(k) ==
  /\ sending[k] = "check"
  /\ formErrors < MaxFormErrors /\ formErrors' = formErrors + 1
  /\ Sends(k, "post") /\ submitting' = TRUE
  /\ UNCHANGED <<formMode, duplicateTask, stored, confirmed, listVars, payloadVars, tidy, formActs>>

(* The user is asked about the task of the same name. *)
CreateAnyway(k) ==
  /\ formMode # "shut" /\ duplicateTask /\ duplicateTask' = FALSE /\ sending[k] = "none"
  /\ formActs < MaxFormActs /\ formActs' = formActs + 1
  /\ confirmed' = confirmed + 1
  /\ Sends(k, "post") /\ submitting' = TRUE
  /\ UNCHANGED <<formMode, stored, formErrors, listVars, payloadVars, tidy>>

KeepExisting ==
  /\ formMode # "shut" /\ duplicateTask /\ duplicateTask' = FALSE
  /\ UNCHANGED <<formMode, sending, submitting, stored, confirmed, formErrors, listVars,
                 payloadVars, tidy, formActs>>

(* The server stores the task, and the answer comes: handleClose. *)
StoreTask(k) ==
  /\ sending[k] = "post" /\ Sends(k, "answer")
  /\ stored' = IF formMode = "edit" THEN stored ELSE stored + 1
  /\ UNCHANGED <<formMode, submitting, duplicateTask, confirmed, formErrors, listVars,
                 payloadVars, tidy, formActs>>

Stored(k) ==
  /\ sending[k] = "answer" /\ Sends(k, "none")
  /\ formMode' = "shut" /\ submitting' = FALSE
  /\ populated' = FALSE /\ taskActions' = <<>>
  /\ ClearForm
  /\ editDraft' = [i \in 1..MaxActions |-> NoDraft]
  /\ payloadLaui' = Blank /\ payloadText' = Blank
  /\ UNCHANGED <<duplicateTask, stored, confirmed, formErrors, fetching, loadingVars,
                 expandedAction, numbered, entered, removed, lookups, chosenPayload, tidy,
                 formActs>>

(* The request fails, before or after the server has stored the task. *)
StoreFails(k) ==
  /\ sending[k] \in {"post", "answer"} /\ Sends(k, "none")
  /\ formErrors < MaxFormErrors /\ formErrors' = formErrors + 1
  /\ submitting' = FALSE
  /\ UNCHANGED <<formMode, duplicateTask, stored, confirmed, listVars, payloadVars, tidy, formActs>>

TaskFormNext ==
  \/ Populate \/ SelectAction \/ AddAnother \/ Collapse
  \/ \E n \in fetching : ActionFetched(n) \/ ActionFetchFails(n)
  \/ \E x \in Fields : EditForm(x) \/ EditRow(x)
  \/ \E i \in DOMAIN taskActions : RemoveAction(i) \/ Expand(i)
  \/ \E o \in Operators : ChooseOperator(o)
  \/ \E p \in Payloads : ChoosePayload(p)
  \/ ClearPayload \/ TypePayload
  \/ \E x \in lookups : ContentArrives(x) \/ ContentFails(x)
  \/ \E k \in Clicks : \/ Submit(k) \/ CheckAnswered(k) \/ CheckFails(k) \/ CreateAnyway(k)
                       \/ StoreTask(k) \/ Stored(k) \/ StoreFails(k)
  \/ KeepExisting

TaskFormSpec == TaskFormInit /\ [][TaskFormNext]_taskFormVars

-----------------------------------------------------------------------------
Values == [Fields -> 0..MaxFormActs]

TaskFormTypeOK ==
  /\ formMode \in {"create", "edit", "shut"}
  /\ taskActions \in Seq([action : 1..MaxActions, set : Values]) /\ Len(taskActions) <= MaxActions
  /\ draft \in Values /\ entered \in [1..MaxActions -> Values]
  /\ currentAction \in 0..MaxActions /\ expandedAction \in 0..MaxActions
  /\ payloadLaui \in Payloads \cup {Blank}
  /\ payloadText \in Payloads \cup Operators \cup {Typed, Blank}
  /\ sending \in [Clicks -> {"none", "check", "post", "answer"}]

(* For a user who ends one edit before the next, a submission sends the      *)
(* actions that were added and not removed, each with what was last entered  *)
(* for it, wherever it was entered and whatever was removed in between (the  *)
(* indices of the two editors follow their actions: handleRemoveTaskAction,  *)
(* handleExpandAction, the effect of the form, the packing in handleSubmit). *)
(* Exceptions: a connection entered in the row still expanded, and the saved *)
(* actions that the search has not returned, which no submission sends.      *)
SentAsEntered ==
  (tidy /\ formMode # "shut" /\ FormQuiet) =>
     /\ {Packed[i].action : i \in DOMAIN Packed} = (1..numbered) \ removed
     /\ \A i, j \in DOMAIN Packed : Packed[i].action = Packed[j].action => i = j
     /\ \A i \in DOMAIN Packed, x \in Fields :
          (i = expandedAction /\ x = "connection")
          \/ Packed[i].set[x] = entered[Packed[i].action][x]

(* The payload sent is the one chosen last: a catalog payload for every      *)
(* user; for one who waits also the operator's or a typed one (handleChange, *)
(* handleOperatorChange, handlePayloadChange).                               *)
SentPayloadIsChosen ==
  formMode # "shut" =>
     /\ payloadLaui # Blank => chosenPayload = payloadLaui
     /\ chosenPayload \in Payloads => PackedPayload = chosenPayload
     /\ (tidy /\ FormQuiet /\ formErrors = 0) => PackedPayload = chosenPayload

(* A user who waits, and retries after an error that may have come after the *)
(* task was stored, creates a second task of the name only when asked (the   *)
(* duplicate check of handleSubmit and skipDuplicateCheckRef).               *)
NoTwinUnasked ==
  (tidy /\ formErrors <= 1) => stored <= 1 + confirmed

(* "Skipped when the user has explicitly selected a catalog payload          *)
(* (payload_laui)" (loadOperatorPayload): the operator's payload does not    *)
(* replace that of the selected payload.                                     *)
SelectedPayloadIsShown ==
  (formMode # "shut" /\ payloadLaui # Blank) => payloadText \notin Operators

(* "Populate task actions from initialTaskData when available actions are    *)
(* loaded" (RunTaskModal): a form that edits a task and in which nothing was *)
(* touched sends the actions the task has.                                   *)
SavedActionsAreKept ==
  (formMode = "edit" /\ populated /\ formActs = 0) =>
     {Packed[i].action : i \in DOMAIN Packed} = 1..Saved

(* What the form sends is what the user entered, chose and asked for.        *)
FormIsFaithful == TaskFormTypeOK /\ SentAsEntered /\ SentPayloadIsChosen /\ NoTwinUnasked
=============================================================================
