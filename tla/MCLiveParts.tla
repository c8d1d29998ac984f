---------------------------- MODULE MCLiveParts ----------------------------
(* Five parts that share no state with one another and have liveness         *)
(* properties, checked in one run: a behaviour is one of the part that runs, *)
(* the others stay at one of their initial states. Fairness is that of the   *)
(* part that runs.                                                           *)
EXTENDS SidebarTree, ItemView, LogStream, AccessPipeline, AiSession

CONSTANTS
  root, trash, fa, fc, none,           \* sidebar
  i1, i2, f1, f2, nil,                 \* details pane
  l1, l2,                              \* logs
  d1, d2, x1, nodoc, noperson,         \* access
  nosession                            \* AI editor

HomeAtFirst == [f \in Folders |-> CASE f = root -> none [] f = fc -> none [] OTHER -> root]
ListOrder == <<fc, fa, trash>>
BoxIs == [x \in Leaves |-> f1]
WrittenAtFirst == [f \in Files |-> IF f = l1 THEN 3 ELSE 0]

-----------------------------------------------------------------------------
VARIABLE running

Part == {"sidebar", "pane", "logs", "access", "ai"}

partsVars ==
  <<running, sidebarVars, itemViewVars, logVars, accessVars, aiVars>>

(* One initial state for a part that does not run. *)
Still(part, state) == running # part => state

PartsInit ==
  /\ running \in Part
  /\ SidebarInit /\ Still("sidebar", patient)
  /\ ItemViewInit /\ Still("pane", calm /\ chosen = f1)
  /\ LogStreamInit /\ Still("logs", file = l1)
  /\ AccessPipelineInit
  /\ AiSessionInit /\ Still("ai", unhurried)

OthersRest ==
  /\ running # "sidebar" => UNCHANGED sidebarVars
  /\ running # "pane" => UNCHANGED itemViewVars
  /\ running # "logs" => UNCHANGED logVars
  /\ running # "access" => UNCHANGED accessVars
  /\ running # "ai" => UNCHANGED aiVars
  /\ UNCHANGED running

PartsNext ==
  /\ OthersRest
  /\ \/ running = "sidebar" /\ SidebarNext
     \/ running = "pane" /\ ItemViewNext
     \/ running = "logs" /\ LogStreamNext
     \/ running = "access" /\ AccessPipelineNext
     \/ running = "ai" /\ AiSessionNext

(* The fairness of each part asks nothing of it while it does not run. *)
PartsFairness ==
  /\ \A o \in Handlers : WF_sidebarVars(running = "sidebar" /\ Proceeds(o))
  /\ \A k \in Threads : WF_itemViewVars(running = "pane" /\ Answers(k))
  /\ WF_logVars(running = "logs" /\ TailStream)
  /\ WF_logVars(running = "logs" /\ OlderStream)
  /\ WF_accessVars(running = "access" /\ Watcher)
  /\ WF_accessVars(running = "access" /\ Writer)
  /\ \A e \in Editors : WF_aiVars(running = "ai" /\ SendProceeds(e))
  /\ WF_aiVars(running = "ai" /\ LoadProceeds)

PartsSpec == PartsInit /\ [][PartsNext]_partsVars /\ PartsFairness

(* LogStream!TailArrives (a file that has lines shows some when its stream   *)
(* has ended, if answers beat the polls), of the behaviours in which the log *)
(* viewer runs: it starts loading, and where it stands still it would load   *)
(* for ever.                                                                 *)
TailArrivesInLogs == running = "logs" => TailArrives

(* Nothing that was asked for is left unanswered: spinners stop, the address *)
(* and the view settle, older pages and tails arrive, changes reach Keto and *)
(* the send button comes back.                                               *)
NothingHangs ==
  /\ SpinnerStops /\ NavigationSettles /\ OlderPageEnds /\ TailArrivesInLogs
  /\ ChangesArrive /\ EditorUnlocks
=============================================================================
