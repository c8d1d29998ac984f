-------------------------- MODULE BlueGreenDeploy --------------------------
(* blue-green-run.sh: a deploy brings the slot that is not on record up      *)
(* beside the other, points the edge nginx at it, records it and drains the  *)
(* other. One step per command that changes something, since the script may  *)
(* be cut between any two of them (set -e, a signal, a lost terminal), and   *)
(* the next run knows only what the state file says.                         *)
EXTENDS Naturals, FiniteSets

CONSTANTS
  Slots,            \* blue and green
  FirstSlot,        \* slot of a first install
  NoSlot,           \* no state file; an edge that answers nothing
  MaxDeploys,       \* bound
  MaxMishaps        \* bound: failed waits and interruptions

ASSUME BlueGreenDeployAssumption ==
  /\ IsFiniteSet(Slots) /\ Cardinality(Slots) = 2 /\ FirstSlot \in Slots /\ NoSlot \notin Slots
  /\ MaxDeploys \in Nat /\ MaxMishaps \in Nat

Services == {"backend", "streams", "workers", "cron"}
Steps == {"idle", "clear", "up", "wait", "write", "edge", "reload", "verify", "rest", "setup",
          "record", "stop", "kill", "drain", "remove", "restore", "reread", "undo",
          "rewrite", "replace"}

VARIABLES
  stateFile,        \* .deploy_state
  conf,             \* slot named in .runtime/nginx/default.conf
  edge,             \* slot named in the configuration nginx has loaded
  up,               \* services of each slot that run
  deployStep,       \* next command of the script
  active, new_slot, \* locals of main_deploy
  agreed,           \* the edge served the recorded slot when this deploy began
  outcome,          \* how the last deploy ended
  deploys, mishaps

hostVars == <<stateFile, conf, edge, up>>
scriptVars == <<deployStep, active, new_slot, agreed, outcome, deploys, mishaps>>
deployVars == <<hostVars, scriptVars>>

DeployTypeOK ==
  /\ stateFile \in Slots \cup {NoSlot} /\ conf \in Slots \cup {NoSlot}
  /\ edge \in Slots \cup {NoSlot}
  /\ up \in [Slots -> SUBSET Services]
  /\ deployStep \in Steps
  /\ active \in Slots \cup {NoSlot} /\ new_slot \in Slots /\ new_slot # active
  /\ agreed \in BOOLEAN /\ outcome \in {"none", "done", "aborted", "gave_up", "cut"}
  /\ deploys \in 0..MaxDeploys /\ mishaps \in 0..MaxMishaps

DeployInit ==
  /\ stateFile = NoSlot /\ conf = NoSlot /\ edge = NoSlot
  /\ up = [s \in Slots |-> {}]
  /\ deployStep = "idle" /\ active = NoSlot /\ new_slot = FirstSlot
  /\ agreed = TRUE /\ outcome = "none" /\ deploys = 0 /\ mishaps = 0

-----------------------------------------------------------------------------
StepsTo(from, to) ==
  /\ deployStep = from /\ deployStep' = to
  /\ UNCHANGED <<active, new_slot, agreed, outcome, deploys, mishaps>>

Ends(from, how) ==
  /\ deployStep = from /\ deployStep' = "idle" /\ outcome' = how
  /\ UNCHANGED <<active, new_slot, agreed, deploys, mishaps>>

(* A wait or a check that fails leads to the rollback step `to`.             *)
Fails(from, to) ==
  /\ deployStep = from /\ mishaps < MaxMishaps
  /\ deployStep' = to /\ mishaps' = mishaps + 1
  /\ UNCHANGED <<active, new_slot, agreed, outcome, deploys>>

Runs(s, services) == up' = [up EXCEPT ![s] = services]
WritesConf(s) == conf' = s /\ UNCHANGED <<stateFile, edge, up>>
Reloads == edge' = conf /\ UNCHANGED <<stateFile, conf, up>>

(* `docker compose down` of a slot.                                          *)
StopBackend(s) == Runs(s, up[s] \ {"backend"})
Down(s) == Runs(s, {})

TargetUnset(s) == IF s = NoSlot THEN s ELSE CHOOSE t \in Slots : t # s
TargetOf(s) == IF s = NoSlot THEN FirstSlot ELSE CHOOSE t \in Slots : t # s

BeginsDeploy(first) ==
  /\ deployStep = "idle" /\ deploys < MaxDeploys
  /\ deployStep' = first /\ deploys' = deploys + 1
  /\ active' = stateFile /\ new_slot' = TargetOf(stateFile)
  /\ agreed' = (edge = stateFile /\ (edge = NoSlot \/ conf = edge)) /\ outcome' = "none"
  /\ UNCHANGED <<hostVars, mishaps>>

-----------------------------------------------------------------------------
(* The new slot: what is left of it goes, its backend and streams come up.   *)
StartDeploy == BeginsDeploy("clear")

ClearSlot == StepsTo("clear", "up") /\ Down(new_slot) /\ UNCHANGED <<stateFile, conf, edge>>

UpBackend ==
  /\ StepsTo("up", "wait") /\ Runs(new_slot, {"backend", "streams"})
  /\ UNCHANGED <<stateFile, conf, edge>>

BackendHealthy == StepsTo("wait", "write") /\ UNCHANGED hostVars
BackendUnhealthy == Fails("wait", "undo") /\ UNCHANGED hostVars

(* The edge. `up -d` recreates its container, which then reads the file,     *)
(* only when its image changed; a container that exists is told to reload.   *)
WriteConf == StepsTo("write", "edge") /\ WritesConf(new_slot)

UpEdge ==
  /\ edge' \in {edge, conf} \ {NoSlot}
  /\ StepsTo("edge", IF edge = NoSlot THEN "verify" ELSE "reload")
  /\ UNCHANGED <<stateFile, conf, up>>

(* err: the script exits and leaves the file and the new slot as they are;   *)
(* the container may still come up later, with that file.                    *)
EdgeUnhealthy ==
  /\ mishaps < MaxMishaps /\ mishaps' = mishaps + 1
  /\ deployStep \in {"edge", "replace"} /\ deployStep' = "idle" /\ outcome' = "gave_up"
  /\ edge' \in {conf, NoSlot}
  /\ UNCHANGED <<stateFile, conf, up, active, new_slot, agreed, deploys>>

ReloadEdge == StepsTo("reload", "verify") /\ Reloads

VerifiedRecords ==
  /\ StepsTo("verify", "rest") /\ "backend" \in up[edge]
  /\ stateFile' = new_slot /\ UNCHANGED <<conf, edge, up>>
EdgeVerified == StepsTo("verify", "rest") /\ "backend" \in up[edge] /\ UNCHANGED hostVars

FailsAndRemoves == Fails("verify", "undo") /\ UNCHANGED hostVars
EdgeNotVerified == Fails("verify", "restore") /\ UNCHANGED hostVars

(* Setup and the workers of the new slot, then the record.                   *)
UpAll == StepsTo("rest", "setup") /\ Runs(new_slot, Services) /\ UNCHANGED <<stateFile, conf, edge>>
SetupDone == StepsTo("setup", "record") /\ UNCHANGED hostVars
SetupFails == Fails("setup", "restore") /\ UNCHANGED hostVars

Record ==
  /\ \/ active # NoSlot /\ StepsTo("record", "stop")
     \/ active = NoSlot /\ Ends("record", "done")
  /\ stateFile' = new_slot /\ UNCHANGED <<conf, edge, up>>

-----------------------------------------------------------------------------
(* drain_old: streams stopped, the cron worker killed, the task and action   *)
(* workers left to finish (or killed when the timeout is reached), then the  *)
(* slot is removed.                                                          *)
StopStreams ==
  /\ StepsTo("stop", "kill") /\ Runs(active, up[active] \ {"streams"})
  /\ UNCHANGED <<stateFile, conf, edge>>
KillCron ==
  /\ StepsTo("kill", "drain") /\ Runs(active, up[active] \ {"cron"})
  /\ UNCHANGED <<stateFile, conf, edge>>
DrainWorkers ==
  /\ StepsTo("drain", "remove") /\ Runs(active, up[active] \ {"workers"})
  /\ UNCHANGED <<stateFile, conf, edge>>
RemoveOld == Ends("remove", "done") /\ Down(active) /\ UNCHANGED <<stateFile, conf, edge>>

(* The rollback gives the traffic back, or takes the edge of a first install *)
(* down, and only then removes the new slot.                                 *)
RestoreConf ==
  \/ active # NoSlot /\ StepsTo("restore", "reread") /\ WritesConf(active)
  \/ active = NoSlot /\ StepsTo("restore", "undo") /\ edge' = NoSlot /\ UNCHANGED <<stateFile, conf, up>>
RestoreEdge == StepsTo("reread", "undo") /\ Reloads
RemoveNew == Ends("undo", "aborted") /\ Down(new_slot) /\ UNCHANGED <<stateFile, conf, edge>>

-----------------------------------------------------------------------------
(* --frontend-only: the file for the recorded slot, then the container,      *)
(* without a reload.                                                         *)
StartFrontend == stateFile # NoSlot /\ BeginsDeploy("rewrite")
RewriteConf == StepsTo("rewrite", "replace") /\ WritesConf(active)
ReplaceEdge ==
  /\ deployStep = "replace" /\ deployStep' = "idle"
  /\ edge' \in {edge, conf} \ {NoSlot}
  /\ outcome' = IF "backend" \in up[edge'] THEN "none" ELSE "gave_up"
  /\ UNCHANGED <<stateFile, conf, up, active, new_slot, agreed, deploys, mishaps>>

(* The script is cut before its next command.                                *)
Interrupted ==
  /\ deployStep # "idle" /\ mishaps < MaxMishaps
  /\ deployStep' = "idle" /\ outcome' = "cut" /\ mishaps' = mishaps + 1
  /\ UNCHANGED <<hostVars, active, new_slot, agreed, deploys>>

(* The edge container restarts by itself and reads the file.                 *)
EdgeRestarts ==
  /\ edge \notin {NoSlot, conf} /\ edge' = conf
  /\ UNCHANGED <<stateFile, conf, up, scriptVars>>

DeployNext ==
  \/ StartDeploy \/ ClearSlot \/ UpBackend \/ BackendHealthy \/ BackendUnhealthy
  \/ WriteConf \/ UpEdge \/ EdgeUnhealthy \/ ReloadEdge \/ EdgeVerified \/ EdgeNotVerified
  \/ UpAll \/ SetupDone \/ SetupFails \/ Record
  \/ StopStreams \/ KillCron \/ DrainWorkers \/ RemoveOld
  \/ RestoreConf \/ RestoreEdge \/ RemoveNew
  \/ StartFrontend \/ RewriteConf \/ ReplaceEdge \/ Interrupted \/ EdgeRestarts

DeploySpec == DeployInit /\ [][DeployNext]_deployVars

-----------------------------------------------------------------------------
SlotsSettled ==
  /\ edge = stateFile /\ conf = stateFile
  /\ up = [s \in Slots |-> IF s = stateFile THEN Services ELSE {}]

(* A deploy that began with the edge on the recorded slot (blue-green-run.sh *)
(* 412-512) never leaves it on a slot whose backend is down, through every   *)
(* rollback, interruption and restart of the edge.                           *)
ServedThroughout == agreed /\ edge # NoSlot => "backend" \in up[edge]

(* The slot on record has everything running, whatever deploy was cut, so    *)
(* that it can always be given the traffic back (lines 495 and 341-362: the  *)
(* record moves after setup and before the drain).                           *)
RecordedIsComplete == stateFile # NoSlot => up[stateFile] = Services

(* A deploy that finishes leaves exactly the recorded slot running and the   *)
(* edge on it, whatever earlier deploys left behind; so does one that rolls  *)
(* back, when the edge was on the recorded slot at its start.                *)
EndsSettled ==
  \/ outcome = "done"
  \/ outcome = "aborted" /\ agreed /\ stateFile # NoSlot
  => SlotsSettled

(* "If a new version fails to come up, the active one just keeps serving"    *)
(* (deploy/README.md:7-8). Does not hold after an interruption between the   *)
(* switch of the traffic and the record: the next deploy clears the slot     *)
(* that serves, and on failure leaves the edge on it.                        *)
ActiveKeepsServing ==
  outcome = "aborted" /\ stateFile # NoSlot => edge \in {stateFile, NoSlot}

(* The types, the edge, the slot on record and how deploys end.              *)
SlotsAreSound ==
  DeployTypeOK /\ ServedThroughout /\ RecordedIsComplete /\ EndsSettled
=============================================================================
