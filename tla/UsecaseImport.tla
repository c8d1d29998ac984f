--------------------------- MODULE UsecaseImport ---------------------------
(* Importing a use case from the marketplace: the dialog in which its        *)
(* dependencies are looked up, selected or created (UsecaseDepsDialog), and  *)
(* the modal that imports its files and creates its tasks one after another  *)
(* (ImportModal), to which the dialog's results are handed at the click. The *)
(* same modal imports a single item, here a dependency. The fields of a form *)
(* are one flag, a laui is where it came from. The view shows one use case;  *)
(* MarketplaceLayout puts up a new one when another item is opened.          *)
EXTENDS Naturals, Sequences, SequencesExt

CONSTANTS
  LookedUp,      \* operators and actions: found by their marketplace_laui
  Picked,        \* connections and configs: selected or created by the user
  Required,      \* all but the configs
  FileOrder,     \* the files of the use case
  Needs,         \* the dependencies each names in its metadata
  MaxLookups, MaxOpenings   \* bounds: dependency checks, openings of the modal

Deps == LookedUp \cup Picked
PayloadFiles == Range(FileOrder)

ASSUME UsecaseImportAssumption ==
  /\ LookedUp \cap Picked = {} /\ LookedUp \subseteq Required /\ Required \subseteq Deps
  /\ {"closed", "usecase"} \cap Deps = {}
  /\ FileOrder \in Seq(PayloadFiles) /\ IsInjective(FileOrder)
  /\ Required # {} /\ Needs \in [PayloadFiles -> SUBSET Deps]
  /\ MaxLookups \in Nat /\ MaxOpenings \in Nat

VARIABLES
  installed,        \* looked-up dependencies that are in the local catalog
  depsOpen, depChecked, depChecking,   \* the dialog; hasInitRef
  depStatuses,      \* the laui found of each dependency, once listed
  depCache,         \* depCacheRef of the view
  depMode,          \* the control shown in each row
  depCreating, making,      \* the last creation started; those under way
  seeking,          \* dependencies whose import was clicked and is looked for
  modal,            \* what the modal imports: "closed", "usecase", a dependency
  modalCache, depsResolved,            \* what the modal was handed
  usecaseMode, filled,                 \* the modal's form
  importing, todo, lines,              \* the run under way, its lines so far
  taskResults,
  conflict, importedItem,              \* the single item's form
  shown, made,      \* what the dialog showed at the click; what the run stored
  lookedUp, openings

depsVars == <<installed, depsOpen, depChecked, depChecking, depStatuses, depCache, depMode,
              depCreating, making, lookedUp>>
formVars == <<usecaseMode, filled>>
runVars == <<importing, todo, lines, taskResults, made>>
handedVars == <<modal, modalCache, depsResolved, shown, openings>>
itemVars == <<conflict, importedItem>>

usecaseVars == <<depsVars, seeking, formVars, runVars, handedVars, itemVars>>

-----------------------------------------------------------------------------
Nowhere == "nowhere"
Lauis == {"catalog", "created"}
Unresolved == [d \in Deps |-> Nowhere]

AllRequired == \E d \in Deps : depStatuses[d] # "unlisted" /\ \A r \in Required : depStatuses[r] \in Lauis

(* A row of the dialog can be clicked. *)
InRow(d) == depsOpen /\ ~depChecking /\ depStatuses[d] # "unlisted"

UsecaseImportInit ==
  /\ installed \in SUBSET LookedUp
  /\ depsOpen = FALSE /\ depChecked = FALSE /\ depChecking = FALSE
  /\ depStatuses = [d \in Deps |-> "unlisted"] /\ depCache = Unresolved
  /\ depMode = [d \in Picked |-> "none"] /\ depCreating = "none" /\ making = {}
  /\ seeking = {}
  /\ modal = "closed" /\ modalCache = Unresolved /\ depsResolved = FALSE
  /\ usecaseMode = "none" /\ filled = FALSE
  /\ importing = "none" /\ todo = <<>> /\ lines = <<>> /\ taskResults = <<>>
  /\ conflict = FALSE /\ importedItem = FALSE
  /\ shown = Unresolved /\ made = {}
  /\ lookedUp = 0 /\ openings = 0

-----------------------------------------------------------------------------
(* The dialog. *)
StartsCheck ==
  /\ lookedUp < MaxLookups /\ lookedUp' = lookedUp + 1
  /\ depChecking' = TRUE

OpenDeps ==
  /\ modal = "closed" /\ ~depsOpen /\ depsOpen' = TRUE
  /\ IF depChecked THEN UNCHANGED <<depChecked, depChecking, lookedUp>>
     ELSE depChecked' = TRUE /\ StartsCheck
  /\ UNCHANGED <<installed, depStatuses, depCache, depMode, depCreating, making, seeking,
                 formVars, runVars, handedVars, itemVars>>

CloseDeps ==
  /\ depsOpen /\ depsOpen' = FALSE
  /\ UNCHANGED <<installed, depChecked, depChecking, depStatuses, depCache, depMode,
                 depCreating, making, lookedUp, seeking, formVars, runVars, handedVars, itemVars>>

Recheck ==
  /\ depsOpen /\ ~depChecking /\ StartsCheck
  /\ UNCHANGED <<installed, depsOpen, depChecked, depStatuses, depCache, depMode,
                 depCreating, making, seeking, formVars, runVars, handedVars, itemVars>>

(* checkDependencies: a search that fails finds nothing; what the user picks *)
(* is never looked up, so an earlier choice is gone.                         *)
FoundNow(missed) ==
  [d \in Deps |-> IF d \in installed \ missed THEN "catalog" ELSE Nowhere]

(* The modal is handed the cache itself and not a copy of it. *)
CheckClearsHanded ==
  /\ depChecking /\ depChecking' = FALSE
  /\ \E missed \in SUBSET LookedUp : depStatuses' = FoundNow(missed)
  /\ depCache' = depStatuses'
  /\ modalCache' = IF modal = "closed" THEN modalCache ELSE depCache'
  /\ UNCHANGED <<installed, depsOpen, depChecked, depMode, depCreating, making, lookedUp,
                 seeking, formVars, runVars, modal, depsResolved, shown, openings, itemVars>>

DepsChecked ==
  /\ depChecking /\ depChecking' = FALSE
  /\ \E missed \in SUBSET LookedUp : depStatuses' = FoundNow(missed)
  /\ depCache' = depStatuses'
  /\ UNCHANGED <<installed, depsOpen, depChecked, depMode, depCreating, making, lookedUp,
                 seeking, formVars, runVars, handedVars, itemVars>>

ShowControl(d) ==
  /\ InRow(d)
  /\ IF depMode[d] = "none"
       THEN /\ depStatuses[d] = Nowhere
            /\ \E m \in {"select", "manual"} : depMode' = [depMode EXCEPT ![d] = m]
       ELSE depMode' = [depMode EXCEPT ![d] = "none"]
  /\ UNCHANGED <<installed, depsOpen, depChecked, depChecking, depStatuses, depCache,
                 depCreating, making, lookedUp, seeking, formVars, runVars, handedVars, itemVars>>

Resolves(d, laui) ==
  /\ depCache' = [depCache EXCEPT ![d] = laui]
  /\ depStatuses' = IF depStatuses[d] = "unlisted" THEN depStatuses
                    ELSE [depStatuses EXCEPT ![d] = laui]

SelectDep(d) ==
  /\ InRow(d) /\ depMode[d] = "select"
  /\ Resolves(d, "catalog")
  /\ UNCHANGED <<installed, depsOpen, depChecked, depChecking, depMode, depCreating, making,
                 lookedUp, seeking, formVars, runVars, handedVars, itemVars>>

(* depCreating remembers the last creation only, and disables that button;  *)
(* creations of one dependency that are under way together count as one.     *)
CreateDep(d) ==
  /\ InRow(d) /\ depMode[d] = "manual" /\ depCreating # d
  /\ depCreating' = d /\ making' = making \cup {d}
  /\ UNCHANGED <<installed, depsOpen, depChecked, depChecking, depStatuses, depCache,
                 depMode, lookedUp, seeking, formVars, runVars, handedVars, itemVars>>

DepCreated(d) ==
  /\ d \in making /\ making' = making \ {d} /\ depCreating' = "none"
  /\ Resolves(d, "created") \/ UNCHANGED <<depCache, depStatuses>>
  /\ UNCHANGED <<installed, depsOpen, depChecked, depChecking, depMode, lookedUp, seeking,
                 formVars, runVars, handedVars, itemVars>>

(* A dependency is looked for in the marketplace; when it has come, the      *)
(* modal is opened for it, over whatever is open.                            *)
ImportDep(d) ==
  /\ InRow(d) /\ depStatuses[d] = Nowhere /\ seeking' = seeking \cup {d}
  /\ UNCHANGED <<depsVars, formVars, runVars, handedVars, itemVars>>

-----------------------------------------------------------------------------
(* The modal. Its init effect reads a schema that is part of the program and *)
(* so has ended before the next event.                                       *)

(* A button opens the modal for the use case: that of the tabs hands it the  *)
(* dialog's results, that of the sidebar nothing.                            *)
OpenImport ==
  /\ modal = "closed" /\ ~depsOpen /\ modal' = "usecase"
  /\ openings < MaxOpenings /\ openings' = openings + 1
  /\ \/ modalCache' = depCache /\ depsResolved' = AllRequired /\ shown' = depStatuses
     \/ depsResolved' = FALSE /\ UNCHANGED <<modalCache, shown>>
  /\ UNCHANGED <<formVars, depsVars, seeking, runVars, itemVars>>

DepFetched(d) ==
  /\ d \in seeking /\ seeking' = seeking \ {d}
  /\ \/ /\ depsOpen' = FALSE
        /\ openings < MaxOpenings /\ openings' = openings + 1
        /\ modal' = d /\ depsResolved' = FALSE
     \/ UNCHANGED <<depsOpen, openings, modal, depsResolved>>
  /\ UNCHANGED <<installed, depChecked, depChecking, depStatuses, depCache, depMode, depCreating,
                 making, lookedUp, formVars, runVars, modalCache, shown, itemVars>>

(* Another mode clears the additional fields, where it has any.              *)
SelectMode(m) ==
  /\ modal = "usecase" /\ ~importedItem /\ m # usecaseMode
  /\ m = "tasks" => depsResolved
  /\ usecaseMode' = m /\ filled' \in {filled, FALSE}
  /\ UNCHANGED <<depsVars, seeking, runVars, handedVars, itemVars>>

Fill ==
  /\ modal = "usecase" /\ ~importedItem /\ usecaseMode # "none"
  /\ filled' = TRUE
  /\ UNCHANGED <<usecaseMode, depsVars, seeking, runVars, handedVars, itemVars>>

(* handleClose, and the effect of a modal that is closed. *)
Close ==
  /\ modal # "closed" /\ importing = "none"
  /\ modal' = "closed" /\ depsResolved' = FALSE
  /\ modalCache' = Unresolved /\ shown' = Unresolved
  /\ usecaseMode' = "none" /\ filled' = FALSE
  /\ taskResults' = <<>> /\ lines' = <<>> /\ made' = {}
  /\ conflict' = FALSE /\ importedItem' = FALSE
  /\ UNCHANGED <<openings, importing, todo, depsVars, seeking>>

-----------------------------------------------------------------------------
(* The run: handleImportFilesOnly and handleCreateTasks. *)
Every(kind) == [i \in DOMAIN FileOrder |-> [kind |-> kind, file |-> FileOrder[i]]]
StepsOf(mode) ==
  Every("payload") \o (IF mode = "tasks" THEN Every("task") ELSE <<>>)

CanConfirm ==
  /\ modal # "closed" /\ importing = "none"
  /\ taskResults = <<>> /\ ~conflict /\ ~importedItem

ConfirmUsecase ==
  /\ modal = "usecase" /\ CanConfirm /\ filled
  /\ usecaseMode # "none" /\ (usecaseMode = "tasks" => depsResolved)
  /\ importing' = usecaseMode /\ todo' = StepsOf(usecaseMode)
  /\ lines' = <<>> /\ made' = {}
  /\ UNCHANGED <<taskResults, depsVars, seeking, formVars, handedVars, itemVars>>

(* What a task is created with: what the cache has of its needs. *)
DepsFor(f) == [d \in Needs[f] |-> modalCache[d]]
Resolved(f) == \A d \in Needs[f] \cap Required : modalCache[d] \in Lauis

Line(step, how) == [kind |-> step.kind, file |-> step.file, how |-> how]
StoredItem(step) ==
  [kind |-> step.kind, file |-> step.file,
   deps |-> IF step.kind = "task" THEN DepsFor(step.file) ELSE <<>>]

ReportedTasksOnly(step, how) ==
  IF step.kind = "payload" /\ importing = "tasks" THEN lines
  ELSE Append(lines, Line(step, how))

(* Payloads that were imported have no line among those of tasks. *)
Reported(step, how) ==
  IF step.kind = "payload" /\ how = "done" /\ importing = "tasks" THEN lines
  ELSE Append(lines, Line(step, how))

(* One item of the run: stored and answered, stored or not and failed, or,   *)
(* for a task that needs what the cache has not, given up.                   *)
RunStep ==
  /\ importing \in {"files", "tasks"} /\ todo # <<>> /\ todo' = Tail(todo)
  /\ LET step == Head(todo) IN
       IF step.kind = "task" /\ ~Resolved(step.file)
         THEN lines' = Reported(step, "unresolved") /\ UNCHANGED made
         ELSE \/ lines' = Reported(step, "done") /\ made' = made \cup {StoredItem(step)}
              \/ lines' = Reported(step, "failed") /\ made' \in {made, made \cup {StoredItem(step)}}
  /\ UNCHANGED <<importing, taskResults, depsVars, seeking, formVars, handedVars, itemVars>>

RunEnds ==
  /\ importing \in {"files", "tasks"} /\ todo = <<>>
  /\ importing' = "none" /\ taskResults' = lines
  /\ UNCHANGED <<todo, lines, made, depsVars, seeking, formVars, handedVars, itemVars>>

-----------------------------------------------------------------------------
(* The single item: handleConfirm and handleResolveConflict. *)
ItemStep(d) == [kind |-> "item", file |-> d]

ConfirmItem ==
  /\ modal \in Deps /\ CanConfirm
  /\ importing' = "item" /\ todo' = <<ItemStep(modal)>>
  /\ UNCHANGED <<lines, taskResults, made, depsVars, seeking, formVars, handedVars, itemVars>>

ResolveConflict ==
  /\ conflict /\ importing = "none" /\ importing' \in {"overwrite", "rename"}
  /\ todo' = <<ItemStep(modal)>>
  /\ UNCHANGED <<lines, taskResults, made, depsVars, seeking, formVars, handedVars, itemVars>>

(* The item is stored, found to be there already, or an error is swallowed.  *)
(* One that was renamed is not found by its name.                            *)
ItemAnswered ==
  /\ importing \in {"item", "overwrite", "rename"} /\ importing' = "none" /\ todo' = <<>>
  /\ \/ /\ importedItem' = TRUE /\ conflict' = FALSE
        /\ installed' = IF importing = "rename" THEN installed ELSE installed \cup {Head(todo).file}
     \/ importing = "item" /\ conflict' = TRUE /\ UNCHANGED <<importedItem, installed>>
     \/ conflict' = FALSE /\ UNCHANGED <<importedItem, installed>>
  /\ UNCHANGED <<lines, taskResults, made, depsOpen, depChecked, depChecking, depStatuses,
                 depCache, depMode, depCreating, making, lookedUp, seeking, formVars, handedVars>>

UsecaseImportNext ==
  \/ OpenDeps \/ CloseDeps \/ Recheck \/ DepsChecked
  \/ \E d \in Picked : ShowControl(d) \/ SelectDep(d) \/ CreateDep(d) \/ DepCreated(d)
  \/ \E d \in LookedUp : ImportDep(d) \/ DepFetched(d)
  \/ OpenImport \/ Fill \/ Close
  \/ \E m \in {"files", "tasks"} : SelectMode(m)
  \/ ConfirmUsecase \/ RunStep \/ RunEnds
  \/ ConfirmItem \/ ResolveConflict \/ ItemAnswered

UsecaseImportSpec == UsecaseImportInit /\ [][UsecaseImportNext]_usecaseVars

-----------------------------------------------------------------------------
UsecaseImportTypeOK ==
  /\ installed \subseteq LookedUp /\ making \subseteq Picked /\ seeking \subseteq LookedUp
  /\ depCache \in [Deps -> Lauis \cup {Nowhere}] /\ modalCache \in [Deps -> Lauis \cup {Nowhere}]
  /\ depStatuses \in [Deps -> Lauis \cup {Nowhere, "unlisted"}]
  /\ modal \in {"closed", "usecase"} \cup LookedUp
  /\ usecaseMode \in {"none", "files", "tasks"}
  /\ importing \in {"none", "files", "tasks", "item", "overwrite", "rename"}
  /\ importing # "none" => modal # "closed"

(* A task that was created has the operator, connection, actions and configs *)
(* the dialog showed when the modal was opened, whatever rechecks and        *)
(* creations have been answered since (the copy of depCacheRef, the snapshot *)
(* at the click, the effects of ImportModal).                                *)
TasksUseWhatWasShown ==
  \A s \in made : s.kind = "task" => \A d \in Needs[s.file] : s.deps[d] = shown[d]

(* The gate on allRequired, computed from the statuses, keeps every task of  *)
(* a run from failing for a dependency, looked up in the cache.              *)
GatedTasksResolve == \A i \in DOMAIN lines : lines[i].how # "unresolved"

(* The report of a run that ends, renderTaskResults: what it calls created   *)
(* is; a payload without a line was stored; no step has two lines, and each  *)
(* file has the one the mode asks for.                                       *)
ReportIsTrue ==
  (importing \in {"files", "tasks"} /\ todo = <<>>) =>
    /\ \A l \in Range(lines) : l.how = "done" => \E s \in made : s.kind = l.kind /\ s.file = l.file
    /\ \A f \in PayloadFiles :
         \/ \E s \in made : s.kind = "payload" /\ s.file = f
         \/ \E l \in Range(lines) : l.kind = "payload" /\ l.file = f
    /\ \A i, j \in DOMAIN lines :
         lines[i].kind = lines[j].kind /\ lines[i].file = lines[j].file => i = j
    /\ \A f \in PayloadFiles :
         \E l \in Range(lines) : l.file = f /\ (importing = "tasks" <=> l.kind = "task")

(* What an import reports and stores is what the dialog showed and the       *)
(* server took.                                                              *)
ImportIsRight ==
  UsecaseImportTypeOK /\ TasksUseWhatWasShown /\ GatedTasksResolve /\ ReportIsTrue
=============================================================================
