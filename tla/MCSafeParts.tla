----------------------------- MODULE MCSafeParts -----------------------------
(* Nine parts that share no state with one another and have safety            *)
(* properties only, checked in one run: a behaviour is one of the part that  *)
(* runs, the others stay at one of their initial states.                     *)
EXTENDS CatalogTree, ActionRuns, TaskOrder, LicenseSeats, BlueGreenDeploy, TaskForm,
        UsecaseImport, ItemEdits, RootSetup, TLC

CONSTANTS
  p1, p2, none,                               \* requests
  root, trash, f, g, c, t1, t2, t3,           \* catalog
  L1, L2, u1, u2, nolic, nouser,              \* seats
  blue, green, noslot,                        \* deploy
  pay, o1, typed, blank,                      \* task form
  opr, con, fl1, fl2,                         \* use case import
  body, keep, cleared, malformed, worker,     \* edits of one item
  sys                                         \* root setup

(* The account, the trash, a folder, a connection and two tasks that have    *)
(* the same primary key.                                                     *)
KindOf == [i \in Items |-> CASE i \in {root, trash, f, g} -> "folder"
                             [] i = c -> "holder"
                             [] OTHER -> "task"]
PkOf == [i \in Items |-> IF i = t3 THEN t2 ELSE i]
HomeIs == [i \in Settled |-> IF i = f THEN root ELSE f]
SeatsOf == [l \in Licenses |-> IF l = L1 THEN 1 ELSE 2]
Bare == [p \in 1..Queued |-> [field \in SortFields |-> Unset]]

FilesInOrder == <<fl1, fl2>>
NeedsOf == [x \in {fl1, fl2} |-> IF x = fl1 THEN {opr, con} ELSE {opr}]

Symmetry == Permutations({p1, p2})

-----------------------------------------------------------------------------
VARIABLE running

Part == {"catalog", "actions", "order", "seats", "deploy", "form", "import", "edits", "setup"}

partsVars == <<running, catalogVars, actionVars, orderVars, seatVars, deployVars, taskFormVars,
               usecaseVars, editVars, rootSetupVars>>

PartsInit ==
  /\ running \in Part
  /\ CatalogInit /\ ActionRunsInit /\ LicenseSeatsInit /\ DeployInit
  /\ TaskOrderInit
  /\ running # "order" => tasks = Bare /\ sort_dict = <<>>
  /\ TaskFormInit
  /\ running # "form" => tidy /\ formMode = "create" /\ chosenPayload = blank
  /\ UsecaseImportInit
  /\ running # "import" => installed = {}
  /\ ItemEditsInit
  /\ running # "edits" => item.release = cleared
  /\ RootSetupInit
  /\ running # "setup" => rootConfig = [email |-> 1, name |-> 1]

OthersRest ==
  /\ running # "catalog" => UNCHANGED catalogVars
  /\ running # "actions" => UNCHANGED actionVars
  /\ running # "order" => UNCHANGED orderVars
  /\ running # "seats" => UNCHANGED seatVars
  /\ running # "deploy" => UNCHANGED deployVars
  /\ running # "form" => UNCHANGED taskFormVars
  /\ running # "import" => UNCHANGED usecaseVars
  /\ running # "edits" => UNCHANGED editVars
  /\ running # "setup" => UNCHANGED rootSetupVars
  /\ UNCHANGED running

PartsNext ==
  /\ OthersRest
  /\ \/ running = "catalog" /\ CatalogNext
     \/ running = "actions" /\ ActionRunsNext
     \/ running = "order" /\ TaskOrderNext
     \/ running = "seats" /\ LicenseSeatsNext
     \/ running = "deploy" /\ DeployNext
     \/ running = "form" /\ TaskFormNext
     \/ running = "import" /\ UsecaseImportNext
     \/ running = "edits" /\ ItemEditsNext
     \/ running = "setup" /\ RootSetupNext

PartsSpec == PartsInit /\ [][PartsNext]_partsVars
=============================================================================
