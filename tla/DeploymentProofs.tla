-------------------------- MODULE DeploymentProofs --------------------------
(* Theorems about deploys: the two slots and their switch (BlueGreenDeploy)  *)
(* and the setup that every deploy runs (RootSetup), for any number of deploys, *)
(* failures and interruptions; and about what is set up from the marketplace *)
(* (UsecaseImport), for any use case.                                        *)
EXTENDS BlueGreenDeploy, RootSetup, UsecaseImport, FiniteSetTheorems, SequenceTheorems, TLAPS

-----------------------------------------------------------------------------
(* The slots of a deployment (BlueGreenDeploy)                               *)

(* There are two slots: the one a deploy does not go to is the other.        *)
LEMMA TwoSlots ==
  /\ \A s, t, u \in Slots : s # t => u = s \/ u = t
  /\ \A s \in Slots : \E t \in Slots : t # s
<1>1. IsFiniteSet(Slots) /\ Cardinality(Slots) = 2
  BY BlueGreenDeployAssumption
<1>2. ASSUME NEW s \in Slots, NEW t \in Slots, NEW u \in Slots, s # t, u # s, u # t
      PROVE  FALSE
  <2>1. IsFiniteSet({s}) /\ Cardinality({s}) = 1
    BY FS_Singleton
  <2>2. IsFiniteSet({s} \cup {t}) /\ Cardinality({s} \cup {t}) = 2
    BY <1>2, <2>1, FS_AddElement
  <2>3. Cardinality(({s} \cup {t}) \cup {u}) = 3
    BY <1>2, <2>2, FS_AddElement
  <2>4. ({s} \cup {t}) \cup {u} \subseteq Slots
    OBVIOUS
  <2>5. Cardinality(({s} \cup {t}) \cup {u}) <= Cardinality(Slots)
    BY ONLY <1>1, <2>4, FS_Subset
  <2>. QED BY <1>1, <2>3, <2>5
<1>3. ASSUME NEW s \in Slots, \A t \in Slots : t = s
      PROVE  FALSE
  <2>1. Slots = {s}
    BY <1>3
  <2>. QED BY <1>1, <2>1, FS_Singleton
<1>. QED BY <1>2, <1>3

(* A deploy goes to the slot that is not in use.                             *)
LEMMA TargetIsOther ==
  ASSUME NEW s \in Slots \cup {NoSlot}
  PROVE  TargetOf(s) \in Slots /\ TargetOf(s) # s /\ (s = NoSlot => TargetOf(s) = FirstSlot)
<1>1. CASE s = NoSlot
  BY <1>1, BlueGreenDeployAssumption DEF TargetOf
<1>2. CASE s \in Slots
  BY <1>2, TwoSlots, BlueGreenDeployAssumption DEF TargetOf
<1>. QED BY <1>1, <1>2

-----------------------------------------------------------------------------
(* The inductive invariant                                                 *)

Draining == {"stop", "kill", "drain", "remove"}
Switched == {"verify", "rest", "setup", "record", "restore"} \cup Draining

(* What the script's place says of its locals, the record and the services. *)
ScriptKnows ==
  /\ deployStep # "idle" => outcome = "none" /\ (active = NoSlot => new_slot = FirstSlot)
  /\ deployStep \notin {"idle"} \cup Draining => active = stateFile
  /\ deployStep \in Draining => active # NoSlot /\ stateFile = new_slot
  /\ deployStep \in {"reread", "rewrite", "replace"} => active # NoSlot
  /\ deployStep \in {"wait", "write", "edge", "reload", "reread"} \cup Switched =>
       "backend" \in up[new_slot]
  /\ deployStep \in {"setup", "record"} => up[new_slot] = Services

(* What it says of the edge: from verify on it is switched, and a deploy     *)
(* that began with the edge on the recorded slot knows where it is.          *)
EdgeIsKnown ==
  /\ deployStep \in {"edge", "reload"} \cup Switched => conf = new_slot
  /\ deployStep \in Switched => edge = new_slot
  /\ deployStep = "reread" => conf = active /\ edge \in {active, new_slot}
  /\ agreed /\ deployStep \in {"clear", "up", "wait", "write", "undo", "rewrite", "replace"} =>
       edge = active /\ (active # NoSlot => conf = active)
  /\ agreed /\ deployStep \in {"edge", "reload"} =>
       edge = active \/ (active # NoSlot /\ edge = new_slot)
  /\ agreed /\ deployStep = "idle" /\ edge # NoSlot =>
       "backend" \in up[edge] /\ (conf # NoSlot => "backend" \in up[conf])

(* Before the first record nothing but the first slot is ever started.       *)
OnlyFirstStarted ==
  stateFile = NoSlot => \A s \in Slots : s # FirstSlot => up[s] = {}

Progress == ScriptKnows /\ EdgeIsKnown /\ OnlyFirstStarted /\ RecordedIsComplete

DeployInv == DeployTypeOK /\ Progress /\ EndsSettled

\* A deploy that begins reads the record and finds out where the edge is.
LEMMA BeginsKeep ==
  ASSUME DeployInv, StartDeploy \/ StartFrontend
  PROVE  DeployInv'
<1> USE TwoSlots, BlueGreenDeployAssumption, TargetIsOther
    DEF DeployInv, Progress, DeployTypeOK, Draining, Switched, Services, Steps,
        hostVars, scriptVars, StepsTo, Ends, Fails, Runs, WritesConf, Reloads, Down, BeginsDeploy
<1>1. CASE StartDeploy
  <2>1. DeployTypeOK'
    BY <1>1 DEF StartDeploy
  <2>2. Progress'
    BY <1>1 DEF StartDeploy, ScriptKnows, EdgeIsKnown, OnlyFirstStarted, RecordedIsComplete
  <2>3. EndsSettled'
    BY <1>1 DEF StartDeploy, EndsSettled, SlotsSettled, ScriptKnows, EdgeIsKnown,
       OnlyFirstStarted, RecordedIsComplete
  <2>. QED BY <2>1, <2>2, <2>3
<1>2. CASE StartFrontend
  <2>1. DeployTypeOK'
    BY <1>2 DEF StartFrontend
  <2>2. Progress'
    BY <1>2 DEF StartFrontend, ScriptKnows, EdgeIsKnown, OnlyFirstStarted, RecordedIsComplete
  <2>3. EndsSettled'
    BY <1>2 DEF StartFrontend, EndsSettled, SlotsSettled, ScriptKnows, EdgeIsKnown,
       OnlyFirstStarted, RecordedIsComplete
  <2>. QED BY <2>1, <2>2, <2>3
<1>. QED BY <1>1, <1>2

\* Bringing the new slot up leaves the recorded one alone.
LEMMA NewSlotKeeps ==
  ASSUME DeployInv, ClearSlot \/ UpBackend \/ BackendHealthy \/ BackendUnhealthy
  PROVE  DeployInv'
<1> USE TwoSlots, BlueGreenDeployAssumption
    DEF DeployInv, Progress, DeployTypeOK, Draining, Switched, Services, Steps,
        hostVars, scriptVars, StepsTo, Ends, Fails, Runs, WritesConf, Reloads, Down,
        ScriptKnows, EdgeIsKnown, OnlyFirstStarted, RecordedIsComplete, EndsSettled, SlotsSettled
<1>1. CASE ClearSlot
  BY <1>1 DEF ClearSlot
<1>2. CASE UpBackend
  BY <1>2 DEF UpBackend
<1>3. CASE BackendHealthy
  BY <1>3 DEF BackendHealthy
<1>4. CASE BackendUnhealthy
  BY <1>4 DEF BackendUnhealthy
<1>. QED BY <1>1, <1>2, <1>3, <1>4

\* The edge is switched from one slot whose backend runs to another.
LEMMA EdgeKeeps ==
  ASSUME DeployInv,
         WriteConf \/ UpEdge \/ EdgeUnhealthy \/ ReloadEdge \/ EdgeVerified \/ EdgeNotVerified
  PROVE  DeployInv'
<1> USE TwoSlots, BlueGreenDeployAssumption
    DEF DeployInv, Progress, DeployTypeOK, Draining, Switched, Services, Steps,
        hostVars, scriptVars, StepsTo, Ends, Fails, Runs, WritesConf, Reloads, Down,
        ScriptKnows, EdgeIsKnown, OnlyFirstStarted, RecordedIsComplete, EndsSettled, SlotsSettled
<1>1. CASE WriteConf
  BY <1>1 DEF WriteConf
<1>2. CASE UpEdge
  BY <1>2 DEF UpEdge
<1>3. CASE EdgeUnhealthy
  BY <1>3 DEF EdgeUnhealthy
<1>4. CASE ReloadEdge
  BY <1>4 DEF ReloadEdge
<1>5. CASE EdgeVerified
  BY <1>5 DEF EdgeVerified
<1>6. CASE EdgeNotVerified
  BY <1>6 DEF EdgeNotVerified
<1>. QED BY <1>1, <1>2, <1>3, <1>4, <1>5, <1>6

\* The record moves to a slot that is complete.
LEMMA RecordKeeps ==
  ASSUME DeployInv, UpAll \/ SetupDone \/ SetupFails \/ Record
  PROVE  DeployInv'
<1> USE TwoSlots, BlueGreenDeployAssumption
    DEF DeployInv, Progress, DeployTypeOK, Draining, Switched, Services, Steps,
        hostVars, scriptVars, StepsTo, Ends, Fails, Runs, WritesConf, Reloads, Down,
        ScriptKnows, EdgeIsKnown, OnlyFirstStarted, RecordedIsComplete, EndsSettled, SlotsSettled
<1>1. CASE UpAll
  BY <1>1 DEF UpAll
<1>2. CASE SetupDone
  BY <1>2 DEF SetupDone
<1>3. CASE SetupFails
  BY <1>3 DEF SetupFails
<1>4. CASE Record
  BY <1>4 DEF Record
<1>. QED BY <1>1, <1>2, <1>3, <1>4

\* Draining takes services from the slot that is off record.
LEMMA DrainKeeps ==
  ASSUME DeployInv, StopStreams \/ KillCron \/ DrainWorkers \/ RemoveOld
  PROVE  DeployInv'
<1> USE TwoSlots, BlueGreenDeployAssumption
    DEF DeployInv, Progress, DeployTypeOK, Draining, Switched, Services, Steps,
        hostVars, scriptVars, StepsTo, Ends, Fails, Runs, WritesConf, Reloads, Down,
        ScriptKnows, EdgeIsKnown, OnlyFirstStarted, RecordedIsComplete, EndsSettled, SlotsSettled
<1>1. CASE StopStreams
  BY <1>1 DEF StopStreams
<1>2. CASE KillCron
  BY <1>2 DEF KillCron
<1>3. CASE DrainWorkers
  BY <1>3 DEF DrainWorkers
<1>4. CASE RemoveOld
  <2>1. DeployTypeOK'
    BY <1>4 DEF RemoveOld
  <2>2. Progress'
    BY <1>4 DEF RemoveOld
  <2>3. SUFFICES SlotsSettled'
    BY <2>1, <2>2
  <2>4. /\ new_slot \in Slots /\ stateFile' = new_slot /\ edge' = new_slot /\ conf' = new_slot
        /\ up[new_slot] = Services /\ up' = [up EXCEPT ![active] = {}]
    BY <1>4 DEF RemoveOld
  <2>5. \A s \in Slots : up'[s] = IF s = new_slot THEN Services ELSE {}
    BY <1>4, <2>4 DEF RemoveOld
  <2>6. up' = [s \in Slots |-> IF s = stateFile' THEN Services ELSE {}]
    BY <2>4, <2>5
  <2>. QED BY <2>4, <2>6
<1>. QED BY <1>1, <1>2, <1>3, <1>4

\* The rollback removes the new slot after the edge has left it.
LEMMA RollbackKeeps ==
  ASSUME DeployInv, RestoreConf \/ RestoreEdge \/ RemoveNew
  PROVE  DeployInv'
<1> USE TwoSlots, BlueGreenDeployAssumption
    DEF DeployInv, Progress, DeployTypeOK, Draining, Switched, Services, Steps,
        hostVars, scriptVars, StepsTo, Ends, Fails, Runs, WritesConf, Reloads, Down,
        ScriptKnows, EdgeIsKnown, OnlyFirstStarted, RecordedIsComplete, EndsSettled, SlotsSettled
<1>1. CASE RestoreConf
  BY <1>1 DEF RestoreConf
<1>2. CASE RestoreEdge
  BY <1>2 DEF RestoreEdge
<1>3. CASE RemoveNew
  <2>1. DeployTypeOK'
    BY <1>3 DEF RemoveNew
  <2>2. Progress'
    BY <1>3 DEF RemoveNew
  <2>3. SUFFICES ASSUME agreed, stateFile # NoSlot PROVE SlotsSettled'
    BY <1>3, <2>1, <2>2 DEF RemoveNew
  <2>4. /\ active \in Slots /\ stateFile' = active /\ edge' = active /\ conf' = active
        /\ up[active] = Services /\ up' = [up EXCEPT ![new_slot] = {}]
    BY <1>3, <2>3 DEF RemoveNew
  <2>5. \A s \in Slots : up'[s] = IF s = active THEN Services ELSE {}
    BY <1>3, <2>4 DEF RemoveNew
  <2>6. up' = [s \in Slots |-> IF s = stateFile' THEN Services ELSE {}]
    BY <2>4, <2>5
  <2>. QED BY <2>4, <2>6
<1>. QED BY <1>1, <1>2, <1>3

\* A front-end deploy, a cut and a restart of the edge leave it on a backend that runs.
LEMMA FrontendKeeps ==
  ASSUME DeployInv, RewriteConf \/ ReplaceEdge \/ Interrupted \/ EdgeRestarts
  PROVE  DeployInv'
<1> USE TwoSlots, BlueGreenDeployAssumption
    DEF DeployInv, Progress, DeployTypeOK, Draining, Switched, Services, Steps,
        hostVars, scriptVars, StepsTo, Ends, Fails, Runs, WritesConf, Reloads, Down,
        ScriptKnows, EdgeIsKnown, OnlyFirstStarted, RecordedIsComplete, EndsSettled, SlotsSettled
<1>1. CASE RewriteConf
  BY <1>1 DEF RewriteConf
<1>2. CASE ReplaceEdge
  BY <1>2 DEF ReplaceEdge
<1>3. CASE Interrupted
  BY <1>3 DEF Interrupted
<1>4. CASE EdgeRestarts
  BY <1>4 DEF EdgeRestarts
<1>. QED BY <1>1, <1>2, <1>3, <1>4

\* The invariant holds before the first deploy.
LEMMA DeployStarts == DeployInit => DeployInv
  BY BlueGreenDeployAssumption, TwoSlots
  DEF DeployInit, DeployInv, Progress, DeployTypeOK, RecordedIsComplete, EndsSettled,
      ScriptKnows, EdgeIsKnown, OnlyFirstStarted, Draining, Switched, Steps, Services

\* The edge is on a slot whose backend runs at every place in the script.
LEMMA ServedInside == DeployInv => ServedThroughout
<1> SUFFICES ASSUME DeployInv, agreed, edge # NoSlot PROVE "backend" \in up[edge]
  BY DEF ServedThroughout
<1>1. edge \in Slots /\ deployStep \in Steps
  BY DEF DeployInv, DeployTypeOK
<1>2. edge = stateFile => up[edge] = Services
  BY <1>1, BlueGreenDeployAssumption DEF DeployInv, Progress, RecordedIsComplete
<1>. QED BY <1>1, <1>2
         DEF DeployInv, Progress, ScriptKnows, EdgeIsKnown, Steps, Draining, Switched, Services

\* The script's place, the record, the edge and the services fit together after any
\* number of deploys, failed waits, cuts and restarts of the edge.
THEOREM DeployInvHolds == DeploySpec => []DeployInv
<1>1. DeployInv /\ UNCHANGED deployVars => DeployInv'
  BY DEF deployVars, hostVars, scriptVars, DeployInv, Progress, DeployTypeOK,
         RecordedIsComplete, EndsSettled, SlotsSettled, ScriptKnows, EdgeIsKnown, OnlyFirstStarted
<1>2. DeployInv /\ [DeployNext]_deployVars => DeployInv'
  BY <1>1, BeginsKeep, NewSlotKeeps, EdgeKeeps, RecordKeeps, DrainKeeps, RollbackKeeps,
     FrontendKeeps DEF DeployNext
<1>. QED BY <1>2, DeployStarts, PTL DEF DeploySpec

\* A deploy that began with the edge on the recorded slot never leaves it on a slot whose
\* backend is down; the slot on record is always complete; a deploy that ends, or rolls
\* back from there, leaves exactly that slot running.
THEOREM SlotsAreSoundHolds == DeploySpec => []SlotsAreSound
<1>1. DeployInv => SlotsAreSound
  BY ServedInside DEF SlotsAreSound, DeployInv, Progress
<1>. QED BY <1>1, DeployInvHolds, PTL

-----------------------------------------------------------------------------
(* The setup and the root user (RootSetup)                                   *)

(* Once a setup has found or made the root user, and while no user is        *)
(* created or deleted, the root user is the one of the configuration.        *)
ConfiguredRoot == RootUser # NoOne /\ Matches(RootUser, rootConfig)
Clash ==
  \E u \in LiveUsers : /\ ~Matches(u, rootConfig)
                       /\ accounts[u].email = rootConfig.email \/ accounts[u].name = rootConfig.name
NoneMatches == \A u \in LiveUsers : ~Matches(u, rootConfig)

OneRoot ==
  \A u, v \in DOMAIN accounts : accounts[u].type = "root" /\ accounts[v].type = "root" => u = v

SetupTypes ==
  /\ RootSetupTypeOK /\ Len(accounts) <= MaxUsers
  /\ endedInCreate \in BOOLEAN /\ runs \in Nat /\ setupMishaps \in Nat
  /\ deployed => runs > 0

Done == setupStep = "done" /\ runs > 0
InCatalog == setupStep = "catalog" \/ Done
AtGrant == setupStep = "grant" \/ InCatalog
PastGroup == setupStep \in {"owner", "account"} \/ AtGrant
PastRoot == setupStep = "group" \/ PastGroup

Built ==
  /\ PastGroup => groupOwners # {}
  /\ AtGrant => accountThere
  /\ InCatalog => granted

(* What a run without a mishap knows of the accounts at its second attempt.  *)
SecondAttempt ==
  /\ attempt = 2 /\ setupStep \in {"system", "root"} => RootUser = NoOne \/ ConfiguredRoot
  /\ attempt = 2 /\ setupStep \in {"unset", "create"} => NoneMatches
  /\ setupStep = "failed" => RootUser # NoOne \/ Clash

RootFollows ==
  /\ PastRoot => ConfiguredRoot
  /\ setupStep = "unset" => ~ConfiguredRoot
  /\ RootUser \in {NoOne, rootThen} \/ ConfiguredRoot
  /\ rootThen # NoOne /\ RootUser = NoOne => endedInCreate \/ setupStep = "create"
  /\ setupMishaps = 0 => SecondAttempt
  /\ deployed /\ setupStep # "failed" =>
       knownRoot \in {NoOne, rootThen} \/ (ConfiguredRoot /\ knownRoot = RootUser)

SetupInv ==
  /\ SetupTypes /\ OneRoot /\ Built
  /\ setupStep = "create" => RootUser = NoOne
  /\ ~touched /\ runs > 0 => RootFollows
-----------------------------------------------------------------------------
UserRecords == [email : Emails, name : Names, type : {"user", "root", "deleted"}]

(* RootUser of any accounts.                                                 *)
RootOf(a) ==
  IF \E u \in DOMAIN a : a[u].type # "deleted" /\ a[u].type = "root"
  THEN CHOOSE u \in {v \in DOMAIN a : a[v].type # "deleted"} : a[u].type = "root"
  ELSE NoOne

(* RootUser in this state and in the next.                                   *)
LEMMA RootUserIs == RootUser = RootOf(accounts) /\ RootUser' = RootOf(accounts')
<1>1. RootUser = RootOf(accounts)
  BY DEF RootUser, RootOf, LiveUsers, Live
<1>2. RootUser' = RootOf(accounts')
  BY DEF RootUser, RootOf, LiveUsers, Live
<1>. QED BY <1>1, <1>2

(* The root user of accounts of which at most one has the type.              *)
LEMMA RootOfIs ==
  ASSUME NEW a \in Seq(UserRecords), Len(a) <= MaxUsers,
         \A u, v \in DOMAIN a : a[u].type = "root" /\ a[v].type = "root" => u = v
  PROVE  /\ DOMAIN a = 1..Len(a) /\ DOMAIN a \subseteq UserLauis /\ NoOne \notin UserLauis
         /\ RootOf(a) \in DOMAIN a \cup {NoOne}
         /\ \A u \in DOMAIN a : a[u].type = "root" <=> RootOf(a) = u
<1>1. /\ DOMAIN a = 1..Len(a) /\ Len(a) \in Nat /\ MaxUsers \in Nat /\ NoOne \notin Nat
  BY RootSetupAssumption
<1>2. DOMAIN a \subseteq UserLauis /\ NoOne \notin UserLauis
  BY <1>1 DEF UserLauis
<1>3. CASE \E u \in DOMAIN a : a[u].type = "root"
  <2>1. /\ RootOf(a) = CHOOSE u \in {v \in DOMAIN a : a[v].type # "deleted"} : a[u].type = "root"
        /\ \E u \in {v \in DOMAIN a : a[v].type # "deleted"} : a[u].type = "root"
    BY <1>3 DEF RootOf
  <2>2. RootOf(a) \in DOMAIN a /\ a[RootOf(a)].type = "root"
    BY <2>1
  <2>. QED BY <1>1, <1>2, <2>2
<1>4. CASE ~\E u \in DOMAIN a : a[u].type = "root"
  <2>1. RootOf(a) = NoOne
    BY <1>4 DEF RootOf
  <2>. QED BY <1>1, <1>2, <1>4, <2>1
<1>. QED BY <1>3, <1>4

(* The same of the accounts that are stored.                                 *)
LEMMA RootIs ==
  ASSUME SetupTypes, OneRoot
  PROVE  /\ DOMAIN accounts = 1..Len(accounts) /\ Len(accounts) \in Nat
         /\ DOMAIN accounts \subseteq UserLauis /\ NoOne \notin UserLauis
         /\ RootUser \in DOMAIN accounts \cup {NoOne}
         /\ \A u \in DOMAIN accounts : accounts[u] \in UserRecords
         /\ \A u \in DOMAIN accounts : accounts[u].type = "root" <=> RootUser = u
<1>1. accounts \in Seq(UserRecords) /\ Len(accounts) <= MaxUsers
  BY DEF SetupTypes, RootSetupTypeOK, UserRecords
<1>2. \A u, v \in DOMAIN accounts :
         accounts[u].type = "root" /\ accounts[v].type = "root" => u = v
  BY DEF OneRoot
<1>3. /\ DOMAIN accounts = 1..Len(accounts)
      /\ DOMAIN accounts \subseteq UserLauis /\ NoOne \notin UserLauis
      /\ RootOf(accounts) \in DOMAIN accounts \cup {NoOne}
      /\ \A u \in DOMAIN accounts : accounts[u].type = "root" <=> RootOf(accounts) = u
  BY <1>1, <1>2, RootOfIs
<1>4. Len(accounts) \in Nat /\ \A u \in DOMAIN accounts : accounts[u] \in UserRecords
  BY <1>1
<1>. QED BY <1>3, <1>4, RootUserIs

(* Where the accounts and the configuration stay, so does the root user.     *)
LEMMA AccountsStay ==
  ASSUME UNCHANGED <<accounts, rootConfig>>
  PROVE  /\ RootUser' = RootUser /\ (ConfiguredRoot' <=> ConfiguredRoot)
         /\ (Clash' <=> Clash) /\ (NoneMatches' <=> NoneMatches) /\ (OneRoot' <=> OneRoot)
<1>1. RootUser' = RootUser
  BY RootUserIs
<1>2. LiveUsers' = LiveUsers /\ \A u : Matches(u, rootConfig)' <=> Matches(u, rootConfig)
  BY DEF LiveUsers, Live, Matches
<1>. QED BY <1>1, <1>2 DEF ConfiguredRoot, Clash, NoneMatches, OneRoot, Matches
-----------------------------------------------------------------------------
(* An attempt that fails starts the next, or ends the run.                   *)
LEMMA FailureKeeps ==
  ASSUME SetupInv, AttemptFails, UNCHANGED storedVars,
         setupMishaps' \in Nat, setupStep \notin {"done", "failed"},
         ~touched /\ runs > 0 /\ setupMishaps' = 0 =>
           /\ setupMishaps = 0
           /\ attempt = 1 => RootUser = NoOne \/ ConfiguredRoot
           /\ attempt # 1 => RootUser # NoOne \/ Clash
  PROVE  SetupInv'
<1>0. /\ UNCHANGED <<accounts, systemThere, groupOwners, ketoKnows, accountThere, granted>>
      /\ UNCHANGED <<rootConfig, deployed, runs, rootThen, touched, formerRoot>>
      /\ endedInCreate' = (endedInCreate \/ setupStep = "create")
      /\ IF attempt = 1
         THEN setupStep' = "system" /\ attempt' = 2 /\ UNCHANGED knownRoot
         ELSE /\ setupStep' = "failed" /\ UNCHANGED attempt
              /\ knownRoot' = IF deployed THEN formerRoot ELSE knownRoot
  BY DEF AttemptFails, storedVars, serverVars, setupRunVars
<1>1. /\ RootUser' = RootUser /\ (ConfiguredRoot' <=> ConfiguredRoot)
      /\ (Clash' <=> Clash) /\ (NoneMatches' <=> NoneMatches) /\ (OneRoot' <=> OneRoot)
  BY <1>0, AccountsStay
<1>2. SetupTypes'
  BY <1>0 DEF SetupInv, SetupTypes, RootSetupTypeOK
<1>3. setupStep' \in {"system", "failed"}
  BY <1>0
<1>4. Built' /\ (setupStep' = "create" => RootUser' = NoOne)
  BY <1>3 DEF Built, PastGroup, AtGrant, InCatalog, Done
<1>5. ASSUME ~touched', runs' > 0 PROVE RootFollows'
  <2>1. RootFollows
    BY <1>0, <1>5 DEF SetupInv
  <2>2. ~PastRoot' /\ setupStep' # "unset" /\ setupStep' # "create"
    BY <1>3 DEF PastRoot, PastGroup, AtGrant, InCatalog, Done
  <2>3. RootUser' \in {NoOne, rootThen'} \/ ConfiguredRoot'
    BY <1>0, <1>1, <2>1 DEF RootFollows
  <2>4. rootThen' # NoOne /\ RootUser' = NoOne => endedInCreate'
    BY <1>0, <1>1, <2>1 DEF RootFollows
  <2>5. ASSUME setupMishaps' = 0 PROVE SecondAttempt'
    <3>1. /\ attempt = 1 => RootUser' = NoOne \/ ConfiguredRoot'
          /\ attempt # 1 => RootUser' # NoOne \/ Clash'
      BY <1>0, <1>1, <1>5, <2>5
    <3>2. /\ setupStep' \in {"system", "root"} => attempt = 1
          /\ setupStep' = "failed" => attempt # 1
      BY <1>0
    <3>3. setupStep' \notin {"unset", "create"}
      BY <1>3
    <3>. QED BY <3>1, <3>2, <3>3 DEF SecondAttempt
  <2>6. deployed' /\ setupStep' # "failed" =>
          knownRoot' \in {NoOne, rootThen'} \/ (ConfiguredRoot' /\ knownRoot' = RootUser')
    <3>1. setupStep' # "failed" => UNCHANGED knownRoot
      BY <1>0
    <3>2. setupStep # "failed"
      OBVIOUS
    <3>. QED BY <1>0, <1>1, <2>1, <3>1, <3>2 DEF RootFollows
  <2>. QED BY <2>2, <2>3, <2>4, <2>5, <2>6 DEF RootFollows
<1>. QED BY <1>1, <1>2, <1>4, <1>5 DEF SetupInv

(* Every way in which an attempt fails preserves the invariant.              *)
LEMMA FailuresKeep ==
  ASSUME SetupInv, IsRefused \/ NotGranted \/ StepFails
  PROVE  SetupInv'
<1>0. setupMishaps \in Nat /\ attempt \in 1..2
  BY DEF SetupInv, SetupTypes, RootSetupTypeOK
<1>1. CASE IsRefused
  <2>1. /\ setupStep = "create" /\ ~CanBeStored /\ AttemptFails
        /\ UNCHANGED storedVars /\ UNCHANGED setupMishaps
    BY <1>1 DEF IsRefused, AtStep
  <2>2. RootUser = NoOne
    BY <2>1 DEF SetupInv
  <2>3. ASSUME ~touched, runs > 0, setupMishaps' = 0, attempt # 1 PROVE Clash
    <3>1. NoneMatches
      BY <1>0, <2>1, <2>3 DEF SetupInv, RootFollows, SecondAttempt
    <3>2. Taken(rootConfig)
      BY <2>1, <2>2 DEF CanBeStored
    <3>. QED BY <3>1, <3>2 DEF Taken, NoneMatches, Clash
  <2>. QED BY <1>0, <2>1, <2>2, <2>3, FailureKeeps
<1>2. CASE NotGranted
  <2>1. setupStep = "grant" /\ AttemptFails /\ UNCHANGED storedVars /\ UNCHANGED setupMishaps
    BY <1>2 DEF NotGranted, AtStep
  <2>2. ASSUME ~touched, runs > 0 PROVE ConfiguredRoot /\ RootUser # NoOne
    BY <2>1, <2>2 DEF SetupInv, RootFollows, PastRoot, PastGroup, AtGrant, ConfiguredRoot
  <2>. QED BY <1>0, <2>1, <2>2, FailureKeeps
<1>3. CASE StepFails
  <2>1. /\ setupStep \notin {"done", "failed"} /\ AttemptFails /\ UNCHANGED storedVars
        /\ setupMishaps' = setupMishaps + 1
    BY <1>3 DEF StepFails
  <2>2. setupMishaps' \in Nat /\ setupMishaps' # 0
    BY <1>0, <2>1
  <2>. QED BY <2>1, <2>2, FailureKeeps
<1>. QED BY <1>1, <1>2, <1>3

(* A step that goes on to the next and leaves the accounts as they are.      *)
LEMMA StepKeeps ==
  ASSUME SetupInv, SetupTypes', Built',
         UNCHANGED <<accounts, rootConfig, deployed, runs, rootThen, touched, attempt,
                     endedInCreate, knownRoot, setupMishaps>>,
         setupStep \notin {"create", "failed"}, setupStep' \notin {"create", "failed"},
         PastRoot' => PastRoot,
         setupStep' \in {"system", "root"} => setupStep \in {"system", "root"},
         setupStep' = "unset" /\ ~touched /\ runs > 0 =>
           /\ ~ConfiguredRoot
           /\ setupMishaps = 0 /\ attempt = 2 => NoneMatches
  PROVE  SetupInv'
<1>1. /\ RootUser' = RootUser /\ (ConfiguredRoot' <=> ConfiguredRoot)
      /\ (Clash' <=> Clash) /\ (NoneMatches' <=> NoneMatches) /\ (OneRoot' <=> OneRoot)
  BY AccountsStay
<1>2. ASSUME ~touched', runs' > 0 PROVE RootFollows'
  <2>1. RootFollows
    BY <1>2 DEF SetupInv
  <2>2. setupMishaps' = 0 => SecondAttempt'
    BY <1>1, <1>2, <2>1 DEF RootFollows, SecondAttempt
  <2>. QED BY <1>1, <1>2, <2>1, <2>2 DEF RootFollows
<1>. QED BY <1>1, <1>2 DEF SetupInv

(* Every step that leaves the accounts as they are preserves it.             *)
LEMMA StepsKeep ==
  ASSUME SetupInv,
         \/ EnsuresSystemUser \/ FindsNoRoot \/ GroupIsThere \/ CreatesGroup \/ AddsOwner
         \/ EnsuresAccount \/ GrantsGroup \/ FillsCatalog
  PROVE  SetupInv'
<1>. USE DEF Reaches, AtStep, GoesTo, storedVars, serverVars, setupRunVars
<1>0. /\ SetupTypes /\ Built
      /\ RootUser \in UserLauis \cup {NoOne}
  BY RootIs DEF SetupInv
<1>1. CASE EnsuresSystemUser
  <2>1. SetupTypes' /\ Built'
    BY <1>0, <1>1 DEF EnsuresSystemUser, SetupTypes, RootSetupTypeOK, Built, PastGroup, AtGrant,
                      InCatalog, Done
  <2>2. ~PastRoot'
    BY <1>1 DEF EnsuresSystemUser, PastRoot, PastGroup, AtGrant, InCatalog, Done
  <2>. QED BY <1>1, <2>1, <2>2, StepKeeps DEF EnsuresSystemUser
<1>2. CASE FindsNoRoot
  <2>1. SetupTypes' /\ Built'
    BY <1>0, <1>2 DEF FindsNoRoot, SetupTypes, RootSetupTypeOK, Built, PastGroup, AtGrant,
                      InCatalog, Done
  <2>2. ~PastRoot'
    BY <1>2 DEF FindsNoRoot, PastRoot, PastGroup, AtGrant, InCatalog, Done
  <2>3. ~ConfiguredRoot
    <3>1. \A u \in DOMAIN accounts : ~CanBeRoot(u)
      BY <1>2 DEF FindsNoRoot
    <3>2. ASSUME ConfiguredRoot PROVE FALSE
      <4>1. RootUser \in DOMAIN accounts /\ Matches(RootUser, rootConfig)
            /\ accounts[RootUser].type = "root"
        BY <3>2, RootIs DEF ConfiguredRoot, SetupInv
      <4>2. CanBeRoot(RootUser)
        BY <4>1 DEF CanBeRoot, LiveUsers, Live, IsConfigured
      <4>. QED BY <3>1, <4>1, <4>2
    <3>. QED BY <3>2
  <2>4. ASSUME ~touched, runs > 0, setupMishaps = 0, attempt = 2 PROVE NoneMatches
    <3>1. RootUser = NoOne
      BY <1>2, <2>3, <2>4 DEF FindsNoRoot, SetupInv, RootFollows, SecondAttempt
    <3>2. \A u \in LiveUsers : u \in DOMAIN accounts
      BY DEF LiveUsers
    <3>. QED BY <1>2, <3>1, <3>2 DEF FindsNoRoot, CanBeRoot, IsConfigured, NoneMatches
  <2>. QED BY <1>2, <2>1, <2>2, <2>3, <2>4, StepKeeps DEF FindsNoRoot
<1>3. CASE GroupIsThere
  <2>1. SetupTypes' /\ Built'
    BY <1>0, <1>3 DEF GroupIsThere, SetupTypes, RootSetupTypeOK, Built, PastGroup, AtGrant,
                      InCatalog, Done
  <2>2. PastRoot
    BY <1>3 DEF GroupIsThere, PastRoot
  <2>. QED BY <1>3, <2>1, <2>2, StepKeeps DEF GroupIsThere
<1>4. CASE CreatesGroup
  <2>1. SetupTypes' /\ Built'
    BY <1>0, <1>4 DEF CreatesGroup, SetupTypes, RootSetupTypeOK, Built, PastGroup, AtGrant,
                      InCatalog, Done
  <2>2. PastRoot
    BY <1>4 DEF CreatesGroup, PastRoot
  <2>. QED BY <1>4, <2>1, <2>2, StepKeeps DEF CreatesGroup
<1>5. CASE AddsOwner
  <2>1. groupOwners # {} /\ groupOwners \subseteq UserLauis \cup {System}
    BY <1>0, <1>5 DEF AddsOwner, Built, PastGroup, SetupTypes, RootSetupTypeOK
  <2>2. groupOwners' # {} /\ groupOwners' \subseteq UserLauis \cup {System}
    BY <1>0, <1>5, <2>1 DEF AddsOwner
  <2>3. SetupTypes' /\ Built'
    BY <1>0, <1>5, <2>2 DEF AddsOwner, SetupTypes, RootSetupTypeOK, Built, PastGroup, AtGrant,
                            InCatalog, Done
  <2>4. PastRoot
    BY <1>5 DEF AddsOwner, PastRoot, PastGroup
  <2>. QED BY <1>5, <2>3, <2>4, StepKeeps DEF AddsOwner
<1>6. CASE EnsuresAccount
  <2>1. SetupTypes' /\ Built'
    BY <1>0, <1>6 DEF EnsuresAccount, SetupTypes, RootSetupTypeOK, Built, PastGroup, AtGrant,
                      InCatalog, Done
  <2>2. PastRoot
    BY <1>6 DEF EnsuresAccount, PastRoot, PastGroup
  <2>. QED BY <1>6, <2>1, <2>2, StepKeeps DEF EnsuresAccount
<1>7. CASE GrantsGroup
  <2>1. SetupTypes' /\ Built'
    BY <1>0, <1>7 DEF GrantsGroup, SetupTypes, RootSetupTypeOK, Built, PastGroup, AtGrant,
                      InCatalog, Done
  <2>2. PastRoot
    BY <1>7 DEF GrantsGroup, PastRoot, PastGroup, AtGrant
  <2>. QED BY <1>7, <2>1, <2>2, StepKeeps DEF GrantsGroup
<1>8. CASE FillsCatalog
  <2>1. SetupTypes' /\ Built'
    BY <1>0, <1>8 DEF FillsCatalog, SetupTypes, RootSetupTypeOK, Built, PastGroup, AtGrant,
                      InCatalog, Done
  <2>2. PastRoot
    BY <1>8 DEF FillsCatalog, PastRoot, PastGroup, AtGrant, InCatalog
  <2>. QED BY <1>8, <2>1, <2>2, StepKeeps DEF FillsCatalog
<1>. QED BY <1>1, <1>2, <1>3, <1>4, <1>5, <1>6, <1>7, <1>8
(* The writer catches up, and the API answers.                               *)
LEMMA OthersKeep ==
  ASSUME SetupInv, (\E x \in {"group", "account"} : KetoCatchesUp(x)) \/ ApiAnswers
  PROVE  SetupInv'
<1>1. /\ UNCHANGED <<accounts, systemThere, groupOwners, accountThere, granted, formerRoot,
                     setupStep, attempt, setupMishaps, touched, endedInCreate>>
      /\ UNCHANGED <<rootConfig, deployed, runs, rootThen>>
      /\ ketoKnows' \subseteq {"group", "account"}
      /\ knownRoot' = knownRoot \/ (knownRoot # NoApi /\ knownRoot' = KnownNow)
  BY DEF KetoCatchesUp, ApiAnswers, storedVars, serverVars, setupRunVars, SetupInv, SetupTypes,
         RootSetupTypeOK
<1>2. /\ RootUser' = RootUser /\ (ConfiguredRoot' <=> ConfiguredRoot)
      /\ (Clash' <=> Clash) /\ (NoneMatches' <=> NoneMatches) /\ (OneRoot' <=> OneRoot)
  BY <1>1, AccountsStay
<1>3. RootUser \in UserLauis \cup {NoOne}
  BY RootIs DEF SetupInv
<1>4. /\ knownRoot' \in UserLauis \cup {NoOne, NoApi}
      /\ knownRoot' = knownRoot \/ (knownRoot = NoOne /\ knownRoot' = RootUser)
  BY <1>1, <1>3 DEF KnownNow, SetupInv, SetupTypes, RootSetupTypeOK
<1>5. SetupTypes' /\ Built'
  BY <1>1, <1>4 DEF SetupInv, SetupTypes, RootSetupTypeOK, Built, PastGroup, AtGrant, InCatalog,
                    Done
<1>6. ASSUME ~touched', runs' > 0 PROVE RootFollows'
  <2>1. RootFollows
    BY <1>1, <1>6 DEF SetupInv
  <2>2. PastRoot' <=> PastRoot
    BY <1>1 DEF PastRoot, PastGroup, AtGrant, InCatalog, Done
  <2>3. SecondAttempt' <=> SecondAttempt
    BY <1>1, <1>2 DEF SecondAttempt
  <2>4. deployed' /\ setupStep' # "failed" =>
          knownRoot' \in {NoOne, rootThen'} \/ (ConfiguredRoot' /\ knownRoot' = RootUser')
    BY <1>1, <1>2, <1>4, <2>1 DEF RootFollows
  <2>. QED BY <1>1, <1>2, <2>1, <2>2, <2>3, <2>4 DEF RootFollows
<1>. QED BY <1>1, <1>2, <1>5, <1>6 DEF SetupInv

(* A run begins. *)
LEMMA BeginsKeeps ==
  ASSUME SetupInv, NEW s \in Settings, Deploys(s) \/ RunsAgain(s)
  PROVE  SetupInv'
<1>1. /\ setupStep' = "system" /\ attempt' = 1 /\ rootConfig' = s /\ runs' = runs + 1
      /\ rootThen' = RootUser /\ touched' = FALSE /\ endedInCreate' = FALSE
      /\ UNCHANGED <<accounts, systemThere, groupOwners, ketoKnows, accountThere, granted,
                     setupMishaps>>
      /\ \/ deployed' = TRUE /\ knownRoot' = NoOne /\ formerRoot' = knownRoot
         \/ deployed' = FALSE /\ UNCHANGED <<knownRoot, formerRoot>>
  BY DEF Deploys, RunsAgain, Begins, storedVars, serverVars
<1>2. RootUser' = RootUser /\ (OneRoot' <=> OneRoot)
  BY <1>1, RootUserIs DEF OneRoot
<1>3. RootUser \in UserLauis \cup {NoOne}
  BY RootIs DEF SetupInv
<1>4. SetupTypes' /\ Built'
  <2>1. SetupTypes /\ runs + 1 \in Nat /\ runs + 1 > 0
    BY DEF SetupInv, SetupTypes
  <2>2. RootSetupTypeOK'
    <3>1. {knownRoot', formerRoot'} \subseteq UserLauis \cup {NoOne, NoApi}
      BY <1>1, <2>1 DEF SetupTypes, RootSetupTypeOK
    <3>2. rootThen' \in UserLauis \cup {NoOne}
      BY <1>1, <1>3
    <3>3. deployed' \in BOOLEAN /\ touched' \in BOOLEAN
      BY <1>1
    <3>6. attempt' \in 1..2
      BY <1>1
    <3>4. rootConfig' \in Settings
      BY <1>1
    <3>5. setupStep' = "system"
      BY <1>1
    <3>. QED BY <1>1, <2>1, <3>1, <3>2, <3>3, <3>4, <3>5, <3>6
              DEF SetupTypes, RootSetupTypeOK
  <2>3. SetupTypes'
    BY <1>1, <2>1, <2>2 DEF SetupTypes
  <2>4. Built'
    BY <1>1 DEF Built, PastGroup, AtGrant, InCatalog, Done
  <2>. QED BY <2>3, <2>4
<1>5. RootFollows'
  BY <1>1, <1>2 DEF RootFollows, SecondAttempt, PastRoot, PastGroup, AtGrant, InCatalog, Done
<1>. QED BY <1>1, <1>2, <1>4, <1>5 DEF SetupInv

-----------------------------------------------------------------------------
(* One account changes its type, or one is added.                            *)
LEMMA TypeChanges ==
  ASSUME SetupTypes, OneRoot, NEW u \in DOMAIN accounts, NEW t \in {"user", "root", "deleted"},
         t = "root" => RootUser \in {u, NoOne},
         accounts' = [accounts EXCEPT ![u].type = t]
  PROVE  /\ accounts' \in Seq(UserRecords) /\ Len(accounts') = Len(accounts) /\ OneRoot'
         /\ RootUser' = IF t = "root" THEN u ELSE IF RootUser = u THEN NoOne ELSE RootUser
         /\ \A v \in DOMAIN accounts : /\ accounts'[v].email = accounts[v].email
                                      /\ accounts'[v].name = accounts[v].name
         /\ DOMAIN accounts' = DOMAIN accounts
         /\ \A v \in DOMAIN accounts : v # u => accounts'[v] = accounts[v]
<1>1. accounts \in Seq(UserRecords) /\ Len(accounts) <= MaxUsers
  BY DEF SetupTypes, RootSetupTypeOK, UserRecords
<1>2. /\ accounts' \in Seq(UserRecords) /\ Len(accounts') = Len(accounts)
      /\ DOMAIN accounts' = DOMAIN accounts
      /\ accounts'[u].type = t
      /\ \A v \in DOMAIN accounts : v # u => accounts'[v] = accounts[v]
      /\ accounts'[u].email = accounts[u].email /\ accounts'[u].name = accounts[u].name
  <2>0. accounts[u] \in UserRecords
    BY <1>1
  <2>1. [accounts[u] EXCEPT !.type = t] \in UserRecords
    BY <2>0 DEF UserRecords
  <2>2. accounts' = [accounts EXCEPT ![u] = [accounts[u] EXCEPT !.type = t]]
    OBVIOUS
  <2>. DEFINE r == [accounts[u] EXCEPT !.type = t]
  <2>4. r.type = t /\ r.email = accounts[u].email /\ r.name = accounts[u].name
    BY <2>0 DEF UserRecords
  <2>. HIDE DEF r
  <2>5. accounts' = [accounts EXCEPT ![u] = r] /\ r \in UserRecords
    BY <2>1, <2>2 DEF r
  <2>. QED BY <1>1, <2>4, <2>5
<1>3. /\ \A v \in DOMAIN accounts : accounts[v].type = "root" <=> RootUser = v
      /\ NoOne \notin DOMAIN accounts
  BY RootIs
<1>4. \A v \in DOMAIN accounts' :
         accounts'[v].type = "root" <=> IF t = "root" THEN v = u ELSE v # u /\ RootUser = v
  <2>. SUFFICES ASSUME NEW v \in DOMAIN accounts
                PROVE  accounts'[v].type = "root"
                         <=> IF t = "root" THEN v = u ELSE v # u /\ RootUser = v
    BY <1>2
  <2>1. CASE v = u
    BY <1>2, <2>1
  <2>2. CASE v # u
    <3>1. accounts'[v].type = "root" <=> RootUser = v
      BY <1>2, <1>3, <2>2
    <3>2. t = "root" => RootUser # v
      BY <1>3, <2>2
    <3>. QED BY <2>2, <3>1, <3>2
  <2>. QED BY <2>1, <2>2
<1>5. \A v, w \in DOMAIN accounts' :
         accounts'[v].type = "root" /\ accounts'[w].type = "root" => v = w
  BY <1>4
<1>6. /\ RootUser' \in DOMAIN accounts' \cup {NoOne} /\ NoOne \notin UserLauis
      /\ DOMAIN accounts' \subseteq UserLauis
      /\ \A v \in DOMAIN accounts' : accounts'[v].type = "root" <=> RootUser' = v
  BY <1>1, <1>2, <1>5, RootOfIs, RootUserIs
<1>7. RootUser \in DOMAIN accounts \cup {NoOne}
  BY RootIs
<1>8. RootUser' = IF t = "root" THEN u ELSE IF RootUser = u THEN NoOne ELSE RootUser
  BY <1>2, <1>4, <1>6, <1>7
<1>. QED BY <1>2, <1>5, <1>8 DEF OneRoot

(* An account is added, as root only when no other is.                       *)
LEMMA AccountIsAdded ==
  ASSUME SetupTypes, OneRoot, NEW r \in UserRecords, Len(accounts) < MaxUsers,
         r.type = "root" => RootUser = NoOne,
         accounts' = Append(accounts, r)
  PROVE  /\ accounts' \in Seq(UserRecords) /\ Len(accounts') <= MaxUsers /\ OneRoot'
         /\ RootUser' = IF r.type = "root" THEN Len(accounts) + 1 ELSE RootUser
         /\ accounts'[Len(accounts) + 1] = r
<1>. DEFINE n == Len(accounts)
<1>1. accounts \in Seq(UserRecords) /\ n \in Nat /\ MaxUsers \in Nat
  BY RootSetupAssumption DEF SetupTypes, RootSetupTypeOK, UserRecords
<1>2. /\ accounts' \in Seq(UserRecords) /\ Len(accounts') = n + 1 /\ n + 1 <= MaxUsers
      /\ DOMAIN accounts' = 1..n + 1 /\ DOMAIN accounts = 1..n
      /\ accounts'[n + 1] = r /\ \A v \in 1..n : accounts'[v] = accounts[v]
  BY <1>1
<1>3. /\ \A v \in 1..n : accounts[v].type = "root" <=> RootUser = v
      /\ RootUser \in 1..n \cup {NoOne} /\ NoOne \notin UserLauis
  BY RootIs
<1>4. /\ \A v \in 1..n + 1 : v \in 1..n \/ v = n + 1
      /\ n + 1 \notin 1..n /\ \A v \in 1..n : v \in 1..n + 1 /\ n + 1 \in 1..n + 1
  BY <1>1
<1>. HIDE DEF n
<1>5. \A v \in 1..n + 1 :
         accounts'[v].type = "root" <=> IF r.type = "root" THEN v = n + 1 ELSE RootUser = v
  <2>. SUFFICES ASSUME NEW v \in 1..n + 1
                PROVE  accounts'[v].type = "root"
                         <=> IF r.type = "root" THEN v = n + 1 ELSE RootUser = v
    OBVIOUS
  <2>1. NoOne # n + 1
    BY <1>1, RootSetupAssumption
  <2>2. CASE v = n + 1
    BY <2>1, <2>2, <1>2, <1>3, <1>4
  <2>3. CASE v \in 1..n
    <3>1. v # n + 1
      BY <1>4, <2>3
    <3>2. v # NoOne
      <4>1. v \in Nat
        BY <1>1, <2>3
      <4>. QED BY <4>1, RootSetupAssumption
    <3>. QED BY <2>3, <3>1, <3>2, <1>2, <1>3
  <2>. QED BY <1>4, <2>2, <2>3
<1>6. \A v, w \in DOMAIN accounts' :
         accounts'[v].type = "root" /\ accounts'[w].type = "root" => v = w
  BY <1>2, <1>5
<1>7. /\ RootUser' \in DOMAIN accounts' \cup {NoOne}
      /\ \A v \in DOMAIN accounts' : accounts'[v].type = "root" <=> RootUser' = v
      /\ NoOne \notin DOMAIN accounts'
  BY <1>2, <1>6, RootOfIs, RootUserIs
<1>8. RootUser' = IF r.type = "root" THEN n + 1 ELSE RootUser
  <2>1. CASE r.type = "root"
    BY <1>2, <1>4, <1>5, <1>7, <2>1
  <2>2. CASE r.type # "root"
    BY <1>2, <1>3, <1>4, <1>5, <1>7, <2>2
  <2>. QED BY <2>1, <2>2
<1>9. OneRoot'
  BY <1>6 DEF OneRoot
<1>. QED BY <1>2, <1>8, <1>9 DEF n

(* What the steps that change the accounts leave as it is.                   *)
LEMMA AccountsTyped ==
  ASSUME SetupInv, accounts' \in Seq(UserRecords), Len(accounts') <= MaxUsers,
         UNCHANGED <<systemThere, groupOwners, ketoKnows, accountThere, granted, formerRoot,
                     attempt, rootConfig, deployed, runs, rootThen, endedInCreate, setupMishaps>>,
         touched' \in BOOLEAN, knownRoot' \in UserLauis \cup {NoOne, NoApi},
         \/ setupStep' \in {"group", "create"}
         \/ setupStep' = setupStep
  PROVE  SetupTypes' /\ Built'
<1>1. SetupTypes /\ Built
  BY DEF SetupInv
<1>2. setupStep' \in {"system", "root", "unset", "create", "group", "owner", "account", "grant",
                      "catalog", "done", "failed"}
  BY <1>1 DEF SetupTypes, RootSetupTypeOK
<1>3. {knownRoot', formerRoot'} \subseteq UserLauis \cup {NoOne, NoApi}
  BY <1>1 DEF SetupTypes, RootSetupTypeOK
<1>4. RootSetupTypeOK'
  BY <1>1, <1>2, <1>3 DEF SetupTypes, RootSetupTypeOK, UserRecords
<1>5. SetupTypes'
  BY <1>1, <1>4 DEF SetupTypes
<1>6. CASE setupStep' \in {"group", "create"}
  BY <1>5, <1>6 DEF Built, PastGroup, AtGrant, InCatalog, Done
<1>7. CASE setupStep' = setupStep
  BY <1>1, <1>5, <1>7 DEF Built, PastGroup, AtGrant, InCatalog, Done
<1>. QED BY <1>6, <1>7

(* The user of the configured address is the root user or becomes it.        *)
LEMMA FindsRootKeeps ==
  ASSUME SetupInv, FindsRoot
  PROVE  SetupInv'
<1>0. SetupTypes /\ OneRoot
  BY DEF SetupInv
<1>1. /\ setupStep = "root" /\ setupStep' = "group"
      /\ UNCHANGED <<systemThere, groupOwners, ketoKnows, accountThere, granted, formerRoot,
                     knownRoot, attempt, rootConfig, deployed, runs, rootThen, endedInCreate,
                     setupMishaps, touched>>
  BY DEF FindsRoot, Reaches, AtStep, GoesTo, serverVars, setupRunVars
<1>2. PICK u \in DOMAIN accounts : CanBeRoot(u) /\ accounts' = [accounts EXCEPT ![u].type = "root"]
  BY DEF FindsRoot
<1>3. RootUser \in {u, NoOne} /\ Matches(u, rootConfig) /\ u # NoOne
  BY <1>0, <1>2, RootIs DEF CanBeRoot, IsConfigured
<1>4. /\ accounts' \in Seq(UserRecords) /\ Len(accounts') = Len(accounts) /\ OneRoot'
      /\ RootUser' = u
      /\ accounts'[u].email = accounts[u].email /\ accounts'[u].name = accounts[u].name
  BY <1>0, <1>2, <1>3, TypeChanges
<1>5. ConfiguredRoot'
  BY <1>1, <1>3, <1>4 DEF ConfiguredRoot, Matches
<1>6. SetupTypes' /\ Built'
  BY <1>0, <1>1, <1>4, AccountsTyped DEF SetupTypes, RootSetupTypeOK
<1>7. ASSUME ~touched', runs' > 0 PROVE RootFollows'
  <2>1. RootFollows
    BY <1>1, <1>7 DEF SetupInv
  <2>2. deployed' => knownRoot' \in {NoOne, rootThen'} \/ knownRoot' = RootUser'
    BY <1>1, <1>3, <1>4, <2>1 DEF RootFollows, ConfiguredRoot
  <2>3. RootUser' # NoOne
    BY <1>3, <1>4
  <2>. QED BY <1>1, <1>5, <2>2, <2>3 DEF RootFollows, SecondAttempt
<1>. QED BY <1>1, <1>4, <1>5, <1>6, <1>7 DEF SetupInv

(* The root user who is not the configured one becomes a user again.         *)
LEMMA UnsetsRootKeeps ==
  ASSUME SetupInv, UnsetsRoot
  PROVE  SetupInv'
<1>0. SetupTypes /\ OneRoot
  BY DEF SetupInv
<1>1. /\ setupStep = "unset" /\ setupStep' = "create"
      /\ UNCHANGED <<systemThere, groupOwners, ketoKnows, accountThere, granted, formerRoot,
                     knownRoot, attempt, rootConfig, deployed, runs, rootThen, endedInCreate,
                     setupMishaps, touched>>
      /\ accounts' = WithoutRoot
  BY DEF UnsetsRoot, Reaches, AtStep, GoesTo, serverVars, setupRunVars
<1>2. /\ accounts' \in Seq(UserRecords) /\ Len(accounts') = Len(accounts) /\ OneRoot'
      /\ RootUser' = NoOne /\ LiveUsers' \subseteq LiveUsers
      /\ \A v \in LiveUsers : /\ accounts'[v].email = accounts[v].email
                              /\ accounts'[v].name = accounts[v].name
  <2>0. /\ accounts \in Seq(UserRecords) /\ RootUser \in DOMAIN accounts \cup {NoOne}
        /\ NoOne \notin DOMAIN accounts
        /\ accounts = [v \in DOMAIN accounts |-> accounts[v]]
        /\ LiveUsers \subseteq DOMAIN accounts
    BY <1>0, RootIs DEF SetupTypes, RootSetupTypeOK, UserRecords, LiveUsers
  <2>1. CASE RootUser = NoOne
    <3>1. accounts' = accounts
      BY <1>1, <2>0, <2>1 DEF WithoutRoot
    <3>. QED BY <1>0, <2>0, <2>1, <3>1, RootUserIs DEF OneRoot, LiveUsers, Live
  <2>2. CASE RootUser \in DOMAIN accounts
    <3>1. accounts' = [accounts EXCEPT ![RootUser].type = "user"]
      BY <1>1, <2>0, <2>2 DEF WithoutRoot
    <3>2. accounts[RootUser].type = "root"
      BY <1>0, <2>2, RootIs
    <3>3. /\ accounts' \in Seq(UserRecords) /\ Len(accounts') = Len(accounts) /\ OneRoot'
          /\ RootUser' = NoOne
          /\ \A v \in DOMAIN accounts : /\ accounts'[v].email = accounts[v].email
                                       /\ accounts'[v].name = accounts[v].name
          /\ DOMAIN accounts' = DOMAIN accounts
          /\ \A v \in DOMAIN accounts : v # RootUser => accounts'[v] = accounts[v]
      BY <1>0, <2>2, <3>1, TypeChanges
    <3>4. LiveUsers' \subseteq LiveUsers
      BY <3>2, <3>3 DEF LiveUsers, Live
    <3>. QED BY <2>0, <3>3, <3>4
  <2>. QED BY <2>0, <2>1, <2>2
<1>3. SetupTypes' /\ Built'
  BY <1>0, <1>1, <1>2, AccountsTyped DEF SetupTypes, RootSetupTypeOK
<1>4. NoneMatches => NoneMatches'
  BY <1>1, <1>2 DEF NoneMatches, Matches
<1>5. ASSUME ~touched', runs' > 0 PROVE RootFollows'
  <2>1. RootFollows
    BY <1>1, <1>5 DEF SetupInv
  <2>2. deployed' => knownRoot' \in {NoOne, rootThen'}
    BY <1>1, <2>1 DEF RootFollows
  <2>3. setupMishaps' = 0 => SecondAttempt'
    BY <1>1, <1>4, <2>1 DEF RootFollows, SecondAttempt
  <2>4. ~PastRoot'
    BY <1>1 DEF PastRoot, PastGroup, AtGrant, InCatalog, Done
  <2>. QED BY <1>1, <1>2, <2>2, <2>3, <2>4 DEF RootFollows
<1>. QED BY <1>1, <1>2, <1>3, <1>5 DEF SetupInv

(* The configured root user is created.                                      *)
LEMMA CreatesRootKeeps ==
  ASSUME SetupInv, CreatesRoot
  PROVE  SetupInv'
<1>0. SetupTypes /\ OneRoot /\ rootConfig \in Settings
  BY DEF SetupInv, SetupTypes, RootSetupTypeOK
<1>1. /\ setupStep = "create" /\ setupStep' = "group"
      /\ UNCHANGED <<systemThere, groupOwners, ketoKnows, accountThere, granted, formerRoot,
                     knownRoot, attempt, rootConfig, deployed, runs, rootThen, endedInCreate,
                     setupMishaps, touched>>
      /\ RootUser = NoOne /\ Len(accounts) < MaxUsers
  BY DEF CreatesRoot, CanBeStored, Reaches, AtStep, GoesTo, serverVars, setupRunVars
<1>. DEFINE r == Account(rootConfig, "root")
<1>2. /\ r \in UserRecords /\ r.type = "root"
      /\ r.email = rootConfig.email /\ r.name = rootConfig.name
      /\ accounts' = Append(accounts, r)
  BY <1>0 DEF CreatesRoot, Account, UserRecords, Settings
<1>. HIDE DEF r
<1>3. /\ accounts' \in Seq(UserRecords) /\ Len(accounts') <= MaxUsers /\ OneRoot'
      /\ RootUser' = Len(accounts) + 1 /\ accounts'[RootUser'] = r
  BY <1>0, <1>1, <1>2, AccountIsAdded
<1>4. RootUser' # NoOne
  <2>1. RootUser' \in Nat
    <3>1. Len(accounts) \in Nat
      BY <1>0, RootIs
    <3>. QED BY <1>3, <3>1
  <2>. QED BY <2>1, RootSetupAssumption
<1>5. ConfiguredRoot'
  BY <1>1, <1>2, <1>3, <1>4 DEF ConfiguredRoot, Matches
<1>6. SetupTypes' /\ Built'
  BY <1>0, <1>1, <1>3, AccountsTyped DEF SetupTypes, RootSetupTypeOK
<1>7. ASSUME ~touched', runs' > 0 PROVE RootFollows'
  <2>1. RootFollows
    BY <1>1, <1>7 DEF SetupInv
  <2>2. deployed' => knownRoot' \in {NoOne, rootThen'}
    BY <1>1, <2>1 DEF RootFollows, ConfiguredRoot
  <2>. QED BY <1>1, <1>4, <1>5, <2>2 DEF RootFollows, SecondAttempt
<1>. QED BY <1>1, <1>3, <1>5, <1>6, <1>7 DEF SetupInv

(* A user is created or deleted through the API meanwhile.                   *)
LEMMA AdminsKeep ==
  ASSUME SetupInv,
         (\E s \in Settings : AdminCreates(s)) \/ (\E u \in DOMAIN accounts : AdminDeletes(u))
  PROVE  SetupInv'
<1>0. SetupTypes /\ OneRoot
  BY DEF SetupInv
<1>1. /\ UNCHANGED <<systemThere, groupOwners, ketoKnows, accountThere, granted, formerRoot,
                     setupStep, attempt, setupMishaps, endedInCreate>>
      /\ UNCHANGED <<rootConfig, deployed, runs, rootThen>>
      /\ knownRoot' = KnownNow /\ touched' = TRUE
  BY DEF AdminCreates, AdminDeletes, ChangesUsers, setupRunVars
<1>2. RootUser \in UserLauis \cup {NoOne}
  BY <1>0, RootIs
<1>3. knownRoot' \in UserLauis \cup {NoOne, NoApi}
  BY <1>0, <1>1, <1>2 DEF KnownNow, SetupTypes, RootSetupTypeOK
<1>4. /\ accounts' \in Seq(UserRecords) /\ Len(accounts') <= MaxUsers /\ OneRoot'
      /\ RootUser' \in {RootUser, NoOne}
  <2>1. CASE \E s \in Settings : AdminCreates(s)
    <3>1. PICK s \in Settings : AdminCreates(s)
      BY <2>1
    <3>. DEFINE r == Account(s, "user")
    <3>2. /\ r \in UserRecords /\ r.type = "user"
          /\ accounts' = Append(accounts, r) /\ Len(accounts) < MaxUsers
      BY <3>1 DEF AdminCreates, Account, UserRecords, Settings
    <3>. HIDE DEF r
    <3>. QED BY <1>0, <3>2, AccountIsAdded
  <2>2. CASE \E u \in DOMAIN accounts : AdminDeletes(u)
    <3>1. PICK u \in DOMAIN accounts : AdminDeletes(u)
      BY <2>2
    <3>2. accounts' = [accounts EXCEPT ![u].type = "deleted"]
      BY <3>1 DEF AdminDeletes
    <3>. QED BY <1>0, <3>2, TypeChanges DEF SetupTypes
  <2>. QED BY <2>1, <2>2
<1>5. SetupTypes' /\ Built'
  BY <1>0, <1>1, <1>3, <1>4, AccountsTyped
<1>. QED BY <1>1, <1>4, <1>5 DEF SetupInv
-----------------------------------------------------------------------------
(* The invariant holds of every installation.                                *)
LEMMA SetupKeeps == RootSetupSpec => []SetupInv
<1>1. RootSetupInit => SetupInv
  <2>. SUFFICES ASSUME RootSetupInit PROVE SetupInv
    OBVIOUS
  <2>. USE DEF RootSetupInit
  <2>0. accounts = <<>> /\ DOMAIN accounts = {} /\ Len(accounts) = 0 /\ MaxUsers \in Nat
    BY RootSetupAssumption
  <2>1. accounts \in Seq([email : Emails, name : Names, type : {"user", "root", "deleted"}])
    BY <2>0
  <2>2. rootConfig \in Settings /\ 1 \in 1..2 /\ 0 \in Nat /\ ~(0 > 0)
    OBVIOUS
  <2>3. RootSetupTypeOK
    BY <2>1, <2>2 DEF RootSetupTypeOK
  <2>4. SetupTypes
    <3>1. endedInCreate \in BOOLEAN /\ ~deployed
      OBVIOUS
    <3>2. Len(accounts) <= MaxUsers /\ runs \in Nat /\ setupMishaps \in Nat
      BY <2>0
    <3>. QED BY <2>3, <3>1, <3>2 DEF SetupTypes
  <2>5. OneRoot
    BY <2>0 DEF OneRoot
  <2>6. Built
    BY <2>2 DEF Built, PastGroup, AtGrant, InCatalog, Done
  <2>. QED BY <2>2, <2>4, <2>5, <2>6 DEF SetupInv
<1>2. SetupInv /\ [RootSetupNext]_rootSetupVars => SetupInv'
  <2>. SUFFICES ASSUME SetupInv, [RootSetupNext]_rootSetupVars PROVE SetupInv'
    OBVIOUS
  <2>1. CASE \E s \in Settings : Deploys(s) \/ RunsAgain(s)
    BY <2>1, BeginsKeeps
  <2>2. CASE (\E s \in Settings : AdminCreates(s)) \/ (\E u \in DOMAIN accounts : AdminDeletes(u))
    BY <2>2, AdminsKeep
  <2>3. CASE \/ EnsuresSystemUser \/ FindsNoRoot \/ GroupIsThere \/ CreatesGroup \/ AddsOwner
             \/ EnsuresAccount \/ GrantsGroup \/ FillsCatalog
    BY <2>3, StepsKeep
  <2>4. CASE FindsRoot
    BY <2>4, FindsRootKeeps
  <2>5. CASE UnsetsRoot
    BY <2>5, UnsetsRootKeeps
  <2>6. CASE CreatesRoot
    BY <2>6, CreatesRootKeeps
  <2>7. CASE IsRefused \/ NotGranted \/ StepFails
    BY <2>7, FailuresKeep
  <2>8. CASE (\E x \in {"group", "account"} : KetoCatchesUp(x)) \/ ApiAnswers
    BY <2>8, OthersKeep
  <2>9. CASE UNCHANGED rootSetupVars
    <3>1. UNCHANGED <<accounts, systemThere, groupOwners, ketoKnows, accountThere, granted,
                      knownRoot, formerRoot, setupStep, attempt, rootConfig, deployed, runs,
                      setupMishaps, rootThen, touched, endedInCreate>>
      BY <2>9 DEF rootSetupVars
    <3>2. /\ RootUser' = RootUser /\ (ConfiguredRoot' <=> ConfiguredRoot)
          /\ (Clash' <=> Clash) /\ (NoneMatches' <=> NoneMatches) /\ (OneRoot' <=> OneRoot)
      BY <3>1, AccountsStay
    <3>3. SetupTypes' /\ Built'
      BY <3>1 DEF SetupInv, SetupTypes, RootSetupTypeOK, Built, PastGroup, AtGrant, InCatalog,
                  Done
    <3>4. RootFollows => RootFollows'
      BY <3>1, <3>2 DEF RootFollows, SecondAttempt, PastRoot, PastGroup, AtGrant, InCatalog, Done
    <3>. QED BY <3>1, <3>2, <3>3, <3>4 DEF SetupInv
  <2>. QED BY <2>1, <2>2, <2>3, <2>4, <2>5, <2>6, <2>7, <2>8, <2>9 DEF RootSetupNext
<1>. QED BY <1>1, <1>2, PTL DEF RootSetupSpec

(* However the deploys, the failures of their steps and the changes of users *)
(* through the API interleave, a setup that succeeds leaves the configured   *)
(* user as the only root user, one that ends without a root user ended where *)
(* it makes one, by a mishap or a clash of address and name, and a deployed  *)
(* API knows a root user that the setup did not have to change.              *)
THEOREM SetupIsAlwaysRight == RootSetupSpec => []SetupIsRight
<1>1. SetupInv => SetupIsRight
  <2>. SUFFICES ASSUME SetupInv PROVE SetupIsRight
    OBVIOUS
  <2>1. RootSetupTypeOK
    BY DEF SetupInv, SetupTypes
  <2>2. ASSUME setupStep = "done" \/ setupStep = "failed", runs > 0, ~touched PROVE RootFollows
    BY <2>2 DEF SetupInv
  <2>3. RootIsConfigured
    BY <2>2 DEF RootIsConfigured, SetupInv, Built, RootFollows, ConfiguredRoot, PastRoot,
                PastGroup, AtGrant, InCatalog, Done
  <2>4. RootIsLostToClash
    <3>. SUFFICES ASSUME Ended, rootThen # NoOne, ~touched, RootUser = NoOne
                  PROVE  /\ endedInCreate
                         /\ setupMishaps = 0 => Clash
      BY DEF RootIsLostToClash, Clash
    <3>1. RootFollows /\ setupStep \in {"done", "failed"} /\ setupStep # "create"
      BY <2>2 DEF Ended
    <3>2. setupStep = "failed"
      BY <3>1 DEF RootFollows, ConfiguredRoot, PastRoot, PastGroup, AtGrant, InCatalog, Done,
                  Ended
    <3>. QED BY <3>1, <3>2 DEF RootFollows, SecondAttempt
  <2>5. ApiKnowsRootKept
    BY <2>2 DEF ApiKnowsRootKept, SetupInv, RootFollows, SetupTypes, RootSetupTypeOK
  <2>. QED BY <2>1, <2>3, <2>4, <2>5 DEF SetupIsRight
<1>. QED BY <1>1, SetupKeeps, PTL

-----------------------------------------------------------------------------
(* The import of a use case (UsecaseImport)                                  *)

ImportSteps == [kind : {"payload", "task"}, file : PayloadFiles]
ImportLines ==
  [kind : {"payload", "task"}, file : PayloadFiles, how : {"done", "failed", "unresolved"}]

ImportTypes ==
  /\ UsecaseImportTypeOK
  /\ lines \in Seq(ImportLines)
  /\ importing \in {"files", "tasks"} => todo \in Seq(ImportSteps)
  /\ depsResolved \in BOOLEAN

(* A check lists every dependency as the cache has it.                       *)
ListedAsCached ==
  \/ \A d \in Deps : depStatuses[d] = "unlisted"
  \/ \A d \in Deps : depStatuses[d] = depCache[d]

(* What tasks are created from is what was shown, and complete.              *)
HandedOver ==
  depsResolved \/ importing = "tasks" =>
    /\ \A d \in Deps : modalCache[d] = shown[d]
    /\ \A d \in Required : modalCache[d] \in Lauis

MadeAsShown ==
  \A s \in made : s.kind = "task" =>
    s.file \in PayloadFiles /\ \A d \in Needs[s.file] : s.deps[d] = shown[d]

ClosedIsEmpty == modal = "closed" => importing = "none" /\ made = {} /\ lines = <<>>

(* A single item that is imported, or in conflict, is a looked-up dependency.  *)
ItemAsked ==
  /\ conflict \in BOOLEAN
  /\ conflict \/ importing \in {"item", "overwrite", "rename"} => modal \in LookedUp
  /\ importing \in {"item", "overwrite", "rename"} =>
       \E d \in LookedUp : todo = <<ItemStep(d)>>

(* Steps, lines and items are of one file and one kind.                      *)
SameItem(a, b) == a.kind = b.kind /\ a.file = b.file
Waits(steps, kind, f) == \E k \in DOMAIN steps : steps[k].kind = kind /\ steps[k].file = f
HasLine(report, kind, f) == \E i \in DOMAIN report : report[i].kind = kind /\ report[i].file = f
IsMade(items, kind, f) == \E s \in items : s.kind = kind /\ s.file = f

(* A run whose lines are report and whose steps are still to be done: each   *)
(* is done once, and what is not waiting has been done.                      *)
RunIsExact(steps, report, items, mode) ==
  /\ \A j, k \in DOMAIN steps : SameItem(steps[j], steps[k]) => j = k
  /\ \A i \in DOMAIN report, k \in DOMAIN steps : ~SameItem(report[i], steps[k])
  /\ \A i, j \in DOMAIN report : SameItem(report[i], report[j]) => i = j
  /\ mode = "files" => \A k \in DOMAIN steps : steps[k].kind = "payload"
  /\ \A i \in DOMAIN report :
       report[i].how = "done" => IsMade(items, report[i].kind, report[i].file)
  /\ \A f \in PayloadFiles :
       Waits(steps, "payload", f) \/ IsMade(items, "payload", f) \/ HasLine(report, "payload", f)
  /\ \A f \in PayloadFiles :
       LET kind == IF mode = "tasks" THEN "task" ELSE "payload"
       IN Waits(steps, kind, f) \/ HasLine(report, kind, f)

ImportInv ==
  /\ ImportTypes /\ ListedAsCached /\ HandedOver /\ MadeAsShown /\ ClosedIsEmpty
  /\ GatedTasksResolve /\ ItemAsked
  /\ importing \in {"files", "tasks"} => RunIsExact(todo, lines, made, importing)
-----------------------------------------------------------------------------
(* The steps of a run.                                                       *)
LEMMA EveryIs ==
  ASSUME NEW kind \in {"payload", "task"}
  PROVE  /\ Every(kind) \in Seq(ImportSteps) /\ Len(Every(kind)) = Len(FileOrder)
         /\ \A i \in 1..Len(FileOrder) :
              Every(kind)[i].kind = kind /\ Every(kind)[i].file = FileOrder[i]
<1>1. FileOrder \in Seq(PayloadFiles)
  BY UsecaseImportAssumption
<1>2. /\ DOMAIN FileOrder = 1..Len(FileOrder) /\ Len(FileOrder) \in Nat
      /\ \A i \in 1..Len(FileOrder) : FileOrder[i] \in PayloadFiles
  BY <1>1
<1>3. /\ Every(kind) = [i \in 1..Len(FileOrder) |-> [kind |-> kind, file |-> FileOrder[i]]]
      /\ \A i \in 1..Len(FileOrder) : [kind |-> kind, file |-> FileOrder[i]] \in ImportSteps
  BY <1>2 DEF Every, ImportSteps
<1>. QED BY <1>2, <1>3

(* The steps of a run: each once, payloads only unless tasks are created.    *)
LEMMA StepsAre ==
  ASSUME NEW mode \in {"files", "tasks"}
  PROVE  /\ StepsOf(mode) \in Seq(ImportSteps)
         /\ \A j, k \in DOMAIN StepsOf(mode) :
              SameItem(StepsOf(mode)[j], StepsOf(mode)[k]) => j = k
         /\ mode = "files" => \A k \in DOMAIN StepsOf(mode) : StepsOf(mode)[k].kind = "payload"
         /\ \A f \in PayloadFiles : Waits(StepsOf(mode), "payload", f)
         /\ mode = "tasks" => \A f \in PayloadFiles : Waits(StepsOf(mode), "task", f)
<1>. DEFINE n == Len(FileOrder)
            P == Every("payload")
            T == IF mode = "tasks" THEN Every("task") ELSE <<>>
            S == StepsOf(mode)
<1>1. /\ n \in Nat /\ DOMAIN FileOrder = 1..n
      /\ \A i, j \in 1..n : FileOrder[i] = FileOrder[j] => i = j
      /\ \A f \in PayloadFiles : \E i \in 1..n : FileOrder[i] = f
  BY UsecaseImportAssumption DEF IsInjective, PayloadFiles, Range
<1>2. /\ P \in Seq(ImportSteps) /\ Len(P) = n
      /\ \A i \in 1..n : P[i].kind = "payload" /\ P[i].file = FileOrder[i]
  BY EveryIs
<1>3. /\ T \in Seq(ImportSteps) /\ Len(T) = (IF mode = "tasks" THEN n ELSE 0)
      /\ \A i \in 1..Len(T) : T[i].kind = "task" /\ T[i].file = FileOrder[i]
  <2>1. CASE mode = "tasks"
    BY <2>1, EveryIs
  <2>2. CASE mode = "files"
    BY <2>2
  <2>. QED BY <2>1, <2>2
<1>4. S = P \o T
  BY DEF StepsOf
<1>. HIDE DEF n, P, T, S
<1>5. /\ S \in Seq(ImportSteps) /\ Len(S) = n + Len(T)
      /\ \A i \in 1..n : S[i] = P[i]
      /\ \A i \in 1..Len(T) : S[n + i] = T[i]
  <2>0. P \in Seq(ImportSteps) /\ T \in Seq(ImportSteps)
    BY <1>2, <1>3
  <2>1. /\ P \o T \in Seq(ImportSteps) /\ Len(P \o T) = Len(P) + Len(T)
        /\ \A i \in 1..Len(P) + Len(T) :
             (P \o T)[i] = IF i <= Len(P) THEN P[i] ELSE T[i - Len(P)]
    BY <2>0, ConcatProperties
  <2>2. Len(P) = n /\ n \in Nat /\ Len(T) \in Nat
    BY <1>1, <1>2, <1>3
  <2>3. \A i \in 1..n : i \in 1..n + Len(T) /\ i <= n
    BY <2>2
  <2>4. \A i \in 1..Len(T) : n + i \in 1..n + Len(T) /\ ~(n + i <= n) /\ (n + i) - n = i
    BY <2>2
  <2>5. \A i \in 1..n : S[i] = P[i]
    BY <1>4, <2>1, <2>2, <2>3
  <2>6. \A i \in 1..Len(T) : S[n + i] = T[i]
    BY <1>4, <2>1, <2>2, <2>4
  <2>. QED BY <1>4, <2>1, <2>2, <2>5, <2>6
<1>6. /\ DOMAIN S = 1..n + Len(T) /\ Len(T) \in Nat /\ Len(T) <= n
      /\ \A i \in DOMAIN S : i \in 1..n \/ \E k \in 1..Len(T) : i = n + k
  <2>1. DOMAIN S = 1..n + Len(T) /\ Len(T) \in Nat /\ Len(T) <= n
    BY <1>1, <1>3, <1>5
  <2>2. ASSUME NEW i \in 1..n + Len(T), i \notin 1..n PROVE i - n \in 1..Len(T) /\ i = n + (i - n)
    BY <1>1, <2>1, <2>2
  <2>. QED BY <2>1, <2>2
<1>7. /\ \A i \in 1..n : i \in DOMAIN S /\ S[i].kind = "payload" /\ S[i].file = FileOrder[i]
      /\ \A i \in 1..Len(T) :
           n + i \in DOMAIN S /\ S[n + i].kind = "task" /\ S[n + i].file = FileOrder[i]
      /\ \A i \in 1..Len(T) : i \in 1..n
  <2>1. \A i \in 1..n : i \in DOMAIN S
    BY <1>1, <1>6
  <2>2. \A i \in 1..Len(T) : n + i \in DOMAIN S /\ i \in 1..n
    BY <1>1, <1>6
  <2>. QED BY <1>2, <1>3, <1>5, <2>1, <2>2
<1>8. \A j, k \in DOMAIN S : SameItem(S[j], S[k]) => j = k
  <2>. SUFFICES ASSUME NEW j \in DOMAIN S, NEW k \in DOMAIN S, SameItem(S[j], S[k])
                PROVE  j = k
    OBVIOUS
  <2>1. CASE j \in 1..n
    BY <1>1, <1>6, <1>7, <2>1 DEF SameItem
  <2>2. CASE \E i \in 1..Len(T) : j = n + i
    <3>1. PICK i \in 1..Len(T) : j = n + i
      BY <2>2
    <3>2. PICK m \in 1..Len(T) : k = n + m
      BY <1>6, <1>7, <3>1 DEF SameItem
    <3>3. FileOrder[i] = FileOrder[m]
      BY <1>7, <3>1, <3>2 DEF SameItem
    <3>. QED BY <1>1, <1>7, <3>1, <3>2, <3>3
  <2>. QED BY <1>6, <2>1, <2>2
<1>9. mode = "files" => \A k \in DOMAIN S : S[k].kind = "payload"
  BY <1>1, <1>3, <1>6, <1>7
<1>10. \A f \in PayloadFiles : Waits(S, "payload", f)
  BY <1>1, <1>7 DEF Waits
<1>11. mode = "tasks" => \A f \in PayloadFiles : Waits(S, "task", f)
  BY <1>1, <1>3, <1>7 DEF Waits
<1>. QED BY <1>5, <1>8, <1>9, <1>10, <1>11 DEF S

(* The first step of a run, and those after it.                              *)
LEMMA TailIs ==
  ASSUME NEW S, NEW s \in Seq(S), s # <<>>
  PROVE  /\ Head(s) \in S /\ Tail(s) \in Seq(S)
         /\ 1 \in DOMAIN s /\ Head(s) = s[1]
         /\ \A k \in DOMAIN Tail(s) :
              k + 1 \in DOMAIN s /\ k + 1 # 1 /\ Tail(s)[k] = s[k + 1] /\ k \in Nat
         /\ \A k \in DOMAIN s :
              k = 1 \/ \E j \in DOMAIN Tail(s) : Tail(s)[j] = s[k]
<1>1. /\ Head(s) \in S /\ Tail(s) \in Seq(S) /\ Head(s) = s[1]
      /\ Len(s) \in Nat /\ Len(s) >= 1 /\ Len(Tail(s)) = Len(s) - 1
      /\ DOMAIN s = 1..Len(s) /\ DOMAIN Tail(s) = 1..Len(s) - 1
      /\ \A k \in 1..Len(s) - 1 : Tail(s)[k] = s[k + 1]
  OBVIOUS
<1>2. \A k \in 1..Len(s) - 1 : k + 1 \in 1..Len(s) /\ k + 1 # 1 /\ k \in Nat
  BY <1>1
<1>3. ASSUME NEW k \in 1..Len(s), k # 1
      PROVE  k - 1 \in 1..Len(s) - 1 /\ (k - 1) + 1 = k
  BY <1>1, <1>3
<1>4. \A k \in DOMAIN s : k = 1 \/ \E j \in DOMAIN Tail(s) : Tail(s)[j] = s[k]
  <2>. SUFFICES ASSUME NEW k \in DOMAIN s, k # 1
                PROVE  \E j \in DOMAIN Tail(s) : Tail(s)[j] = s[k]
    OBVIOUS
  <2>1. k - 1 \in DOMAIN Tail(s) /\ Tail(s)[k - 1] = s[(k - 1) + 1] /\ (k - 1) + 1 = k
    BY <1>1, <1>3
  <2>. QED BY <2>1
<1>. QED BY <1>1, <1>2, <1>4

(* What an append adds is last, and the rest stays where it was.             *)
LEMMA AppendIs ==
  ASSUME NEW S, NEW s \in Seq(S), NEW x \in S
  PROVE  /\ Append(s, x) \in Seq(S)
         /\ \A i \in DOMAIN s : i \in DOMAIN Append(s, x) /\ Append(s, x)[i] = s[i]
         /\ \E n \in DOMAIN Append(s, x) :
              /\ Append(s, x)[n] = x /\ n \notin DOMAIN s
              /\ \A i \in DOMAIN Append(s, x) : i = n \/ i \in DOMAIN s
<1>1. /\ Append(s, x) \in Seq(S) /\ Len(s) \in Nat /\ DOMAIN s = 1..Len(s)
      /\ DOMAIN Append(s, x) = 1..Len(s) + 1
      /\ Append(s, x)[Len(s) + 1] = x
      /\ \A i \in 1..Len(s) : Append(s, x)[i] = s[i]
  OBVIOUS
<1>2. /\ \A i \in 1..Len(s) : i \in 1..Len(s) + 1
      /\ \A i \in 1..Len(s) + 1 : i = Len(s) + 1 \/ i \in 1..Len(s)
      /\ Len(s) + 1 \in 1..Len(s) + 1 /\ Len(s) + 1 \notin 1..Len(s)
  BY <1>1
<1>. QED BY <1>1, <1>2

(* A run of which nothing has been done.                                     *)
LEMMA RunStartsExact ==
  ASSUME NEW mode \in {"files", "tasks"}
  PROVE  RunIsExact(StepsOf(mode), <<>>, {}, mode)
<1>. DEFINE S == StepsOf(mode)
<1>1. /\ \A j, k \in DOMAIN S : SameItem(S[j], S[k]) => j = k
      /\ mode = "files" => \A k \in DOMAIN S : S[k].kind = "payload"
      /\ \A f \in PayloadFiles : Waits(S, "payload", f)
      /\ mode = "tasks" => \A f \in PayloadFiles : Waits(S, "task", f)
  BY StepsAre
<1>. HIDE DEF S
<1>3. \A f \in PayloadFiles :
        LET kind == IF mode = "tasks" THEN "task" ELSE "payload" IN Waits(S, kind, f)
  <2>1. CASE mode = "tasks"
    <3>1. \A f \in PayloadFiles : Waits(S, "task", f)
      BY <1>1, <2>1
    <3>. QED BY <2>1, <3>1
  <2>2. CASE mode = "files"
    <3>1. \A f \in PayloadFiles : Waits(S, "payload", f)
      BY <1>1
    <3>. QED BY <2>2, <3>1
  <2>. QED BY <2>1, <2>2
<1>4. \A f \in PayloadFiles : Waits(S, "payload", f)
  BY <1>1
<1>. DEFINE none == <<>>
<1>5. DOMAIN none = {}
  OBVIOUS
<1>. HIDE DEF none
<1>6. RunIsExact(S, none, {}, mode)
  <2>1. /\ \A i \in DOMAIN none, k \in DOMAIN S : ~SameItem(none[i], S[k])
        /\ \A i, j \in DOMAIN none : SameItem(none[i], none[j]) => i = j
        /\ \A i \in DOMAIN none :
             none[i].how = "done" => IsMade({}, none[i].kind, none[i].file)
    BY <1>5
  <2>. QED BY <1>1, <1>3, <1>4, <2>1 DEF RunIsExact
<1>. QED BY <1>6 DEF S, none

(* One step more of a run is done: with a line, or without when it is a      *)
(* payload among tasks that was stored.                                      *)
LEMMA RunStaysExact ==
  ASSUME NEW steps \in Seq(ImportSteps), steps # <<>>, NEW report \in Seq(ImportLines),
         NEW items, NEW items2, items \subseteq items2, NEW mode \in {"files", "tasks"},
         RunIsExact(steps, report, items, mode),
         NEW how \in {"done", "failed"}, NEW report2,
         how = "done" => IsMade(items2, Head(steps).kind, Head(steps).file),
         \/ report2 = Append(report, Line(Head(steps), how))
         \/ report2 = report /\ mode = "tasks" /\ how = "done" /\ Head(steps).kind = "payload"
  PROVE  RunIsExact(Tail(steps), report2, items2, mode) /\ report2 \in Seq(ImportLines)
<1>. DEFINE h == Head(steps)
            l == Line(h, how)
            rest == Tail(steps)
<1>1. /\ h \in ImportSteps /\ rest \in Seq(ImportSteps)
      /\ 1 \in DOMAIN steps /\ h = steps[1]
      /\ \A k \in DOMAIN rest : k + 1 \in DOMAIN steps /\ k + 1 # 1 /\ rest[k] = steps[k + 1]
                               /\ k \in Nat
      /\ \A k \in DOMAIN steps : k = 1 \/ \E j \in DOMAIN rest : rest[j] = steps[k]
  BY TailIs
<1>2. l \in ImportLines /\ SameItem(l, h) /\ l.how = how /\ h.kind \in {"payload", "task"}
  BY <1>1 DEF Line, ImportLines, ImportSteps, SameItem
<1>3. /\ report2 \in Seq(ImportLines)
      /\ \A i \in DOMAIN report : i \in DOMAIN report2 /\ report2[i] = report[i]
      /\ \/ \E n \in DOMAIN report2 : /\ report2[n] = l /\ n \notin DOMAIN report
                                      /\ \A i \in DOMAIN report2 : i = n \/ i \in DOMAIN report
         \/ report2 = report /\ mode = "tasks" /\ how = "done" /\ h.kind = "payload"
  <2>1. CASE report2 = Append(report, l)
    BY <1>2, <2>1, AppendIs
  <2>2. CASE report2 = report /\ mode = "tasks" /\ how = "done" /\ h.kind = "payload"
    BY <2>2
  <2>. QED BY <2>1, <2>2
<1>4. how = "done" => IsMade(items2, h.kind, h.file)
  OBVIOUS
<1>. HIDE DEF h, l, rest
<1>. USE DEF RunIsExact
<1>5. \A j, k \in DOMAIN rest : SameItem(rest[j], rest[k]) => j = k
  <2>. SUFFICES ASSUME NEW j \in DOMAIN rest, NEW k \in DOMAIN rest, SameItem(rest[j], rest[k])
                PROVE  j = k
    OBVIOUS
  <2>1. j + 1 = k + 1
    BY <1>1
  <2>. QED BY <1>1, <2>1
<1>6. \A i \in DOMAIN report2 : report2[i] = l \/ (i \in DOMAIN report /\ report2[i] = report[i])
  BY <1>3
<1>7. \A i \in DOMAIN report, k \in DOMAIN steps : ~SameItem(report[i], steps[k])
  OBVIOUS
<1>8. \A k \in DOMAIN rest : ~SameItem(h, rest[k])
  BY <1>1
<1>9. \A i \in DOMAIN report2, k \in DOMAIN rest : ~SameItem(report2[i], rest[k])
  <2>. SUFFICES ASSUME NEW i \in DOMAIN report2, NEW k \in DOMAIN rest
                PROVE  ~SameItem(report2[i], rest[k])
    OBVIOUS
  <2>1. CASE report2[i] = l
    BY <1>2, <1>8, <2>1 DEF SameItem
  <2>2. CASE i \in DOMAIN report /\ report2[i] = report[i]
    BY <1>1, <1>7, <2>2
  <2>. QED BY <1>6, <2>1, <2>2
<1>10. \A i, j \in DOMAIN report2 : SameItem(report2[i], report2[j]) => i = j
  <2>1. \A i, j \in DOMAIN report : SameItem(report[i], report[j]) => i = j
    OBVIOUS
  <2>2. \A i \in DOMAIN report : ~SameItem(report[i], l) /\ ~SameItem(l, report[i])
    BY <1>1, <1>2, <1>7 DEF SameItem
  <2>. QED BY <1>3, <2>1, <2>2
<1>11. mode = "files" => \A k \in DOMAIN rest : rest[k].kind = "payload"
  BY <1>1
<1>12. \A kind, f : IsMade(items, kind, f) => IsMade(items2, kind, f)
  BY DEF IsMade
<1>13. \A i \in DOMAIN report2 :
         report2[i].how = "done" => IsMade(items2, report2[i].kind, report2[i].file)
  <2>. SUFFICES ASSUME NEW i \in DOMAIN report2, report2[i].how = "done"
                PROVE  IsMade(items2, report2[i].kind, report2[i].file)
    OBVIOUS
  <2>1. CASE report2[i] = l
    BY <1>2, <1>4, <2>1 DEF SameItem
  <2>2. CASE i \in DOMAIN report /\ report2[i] = report[i]
    BY <1>12, <2>2
  <2>. QED BY <1>6, <2>1, <2>2
<1>14. \A kind, f : Waits(steps, kind, f) =>
         Waits(rest, kind, f) \/ (kind = h.kind /\ f = h.file)
  BY <1>1 DEF Waits
<1>15. \A kind, f : HasLine(report, kind, f) => HasLine(report2, kind, f)
  BY <1>3 DEF HasLine
<1>16. \/ HasLine(report2, h.kind, h.file)
       \/ mode = "tasks" /\ h.kind = "payload" /\ IsMade(items2, h.kind, h.file)
  BY <1>2, <1>3, <1>4 DEF HasLine, SameItem
<1>17. \A f \in PayloadFiles :
         Waits(rest, "payload", f) \/ IsMade(items2, "payload", f) \/ HasLine(report2, "payload", f)
  BY <1>12, <1>14, <1>15, <1>16
<1>18. \A f \in PayloadFiles :
         LET kind == IF mode = "tasks" THEN "task" ELSE "payload"
         IN Waits(rest, kind, f) \/ HasLine(report2, kind, f)
  BY <1>14, <1>15, <1>16
<1>19. RunIsExact(rest, report2, items2, mode)
  BY <1>5, <1>9, <1>10, <1>11, <1>13, <1>17, <1>18
<1>. QED BY <1>3, <1>19 DEF rest
-----------------------------------------------------------------------------
(* The dialog. Its actions leave what the modal was handed and the run alone. *)
HandedAndRun == <<handedVars, importing, todo, lines, made, conflict>>

(* An action that leaves the statuses and the cache alone too, and keeps its  *)
(* types, keeps the invariant.                                               *)
LEMMA DialogKeeps ==
  ASSUME ImportInv, UNCHANGED <<HandedAndRun, depStatuses, depCache>>,
         installed' \subseteq LookedUp, making' \subseteq Picked, seeking' \subseteq LookedUp,
         usecaseMode' \in {"none", "files", "tasks"}
  PROVE  ImportInv'
<1>1. ImportTypes'
  BY DEF ImportInv, ImportTypes, UsecaseImportTypeOK, HandedAndRun, handedVars
<1>2. ListedAsCached' /\ HandedOver' /\ MadeAsShown' /\ ClosedIsEmpty' /\ ItemAsked'
  BY DEF ImportInv, ListedAsCached, HandedOver, MadeAsShown, ClosedIsEmpty, ItemAsked,
         HandedAndRun, handedVars
<1>3. GatedTasksResolve'
  BY DEF ImportInv, GatedTasksResolve, HandedAndRun
<1>4. (importing \in {"files", "tasks"} => RunIsExact(todo, lines, made, importing))'
  BY DEF ImportInv, HandedAndRun
<1>. QED BY <1>1, <1>2, <1>3, <1>4 DEF ImportInv

(* An answer to the dialog changes the statuses and the cache together.      *)
LEMMA AnswersKeep ==
  ASSUME ImportInv, UNCHANGED <<HandedAndRun, installed, seeking, usecaseMode>>,
         making' \subseteq Picked,
         depCache' \in [Deps -> Lauis \cup {Nowhere}],
         depStatuses' \in [Deps -> Lauis \cup {Nowhere, "unlisted"}],
         ListedAsCached'
  PROVE  ImportInv'
<1>1. ImportTypes'
  BY DEF ImportInv, ImportTypes, UsecaseImportTypeOK, HandedAndRun, handedVars
<1>2. HandedOver' /\ MadeAsShown' /\ ClosedIsEmpty' /\ ItemAsked'
  BY DEF ImportInv, HandedOver, MadeAsShown, ClosedIsEmpty, ItemAsked, HandedAndRun, handedVars
<1>3. GatedTasksResolve'
  BY DEF ImportInv, GatedTasksResolve, HandedAndRun
<1>4. (importing \in {"files", "tasks"} => RunIsExact(todo, lines, made, importing))'
  BY DEF ImportInv, HandedAndRun
<1>. QED BY <1>1, <1>2, <1>3, <1>4 DEF ImportInv

(* A check lists every dependency, and caches what it listed.                *)
LEMMA CheckKeeps == ImportInv /\ DepsChecked => ImportInv'
<1>. SUFFICES ASSUME ImportInv, DepsChecked PROVE ImportInv'
  OBVIOUS
<1>1. PICK missed \in SUBSET LookedUp : depStatuses' = FoundNow(missed)
  BY DEF DepsChecked
<1>2. FoundNow(missed) \in [Deps -> Lauis \cup {Nowhere}]
  BY DEF FoundNow, Lauis
<1>3. /\ depStatuses' \in [Deps -> Lauis \cup {Nowhere, "unlisted"}]
      /\ depCache' \in [Deps -> Lauis \cup {Nowhere}] /\ ListedAsCached'
  BY <1>1, <1>2 DEF DepsChecked, ListedAsCached
<1>4. /\ UNCHANGED <<HandedAndRun, installed, seeking, usecaseMode>>
      /\ making' \subseteq Picked
  BY DEF DepsChecked, HandedAndRun, handedVars, runVars, itemVars, formVars, ImportInv,
         ImportTypes, UsecaseImportTypeOK
<1>. QED BY <1>3, <1>4, AnswersKeep

(* A dependency that is selected or created is both listed and cached, or,   *)
(* while a check is under way for the first time, cached only.               *)
LEMMA ResolvesKeeps ==
  ASSUME ImportInv, NEW d \in Picked, NEW laui \in Lauis, Resolves(d, laui)
  PROVE  /\ depCache' \in [Deps -> Lauis \cup {Nowhere}]
         /\ depStatuses' \in [Deps -> Lauis \cup {Nowhere, "unlisted"}]
         /\ ListedAsCached'
<1>1. /\ depCache \in [Deps -> Lauis \cup {Nowhere}] /\ d \in Deps
      /\ depStatuses \in [Deps -> Lauis \cup {Nowhere, "unlisted"}]
  BY DEF ImportInv, ImportTypes, UsecaseImportTypeOK, Deps
<1>2. /\ depCache' \in [Deps -> Lauis \cup {Nowhere}]
      /\ depStatuses' \in [Deps -> Lauis \cup {Nowhere, "unlisted"}]
  BY <1>1 DEF Resolves
<1>3. "unlisted" \notin Lauis \cup {Nowhere}
  BY DEF Lauis, Nowhere
<1>4. CASE \A e \in Deps : depStatuses[e] = "unlisted"
  BY <1>1, <1>2, <1>4 DEF Resolves, ListedAsCached
<1>5. CASE \A e \in Deps : depStatuses[e] = depCache[e]
  <2>1. depStatuses[d] # "unlisted"
    BY <1>1, <1>3, <1>5
  <2>2. \A e \in Deps : depStatuses'[e] = depCache'[e]
    BY <1>1, <1>5, <2>1 DEF Resolves
  <2>. QED BY <1>2, <2>2 DEF ListedAsCached
<1>. QED BY <1>2, <1>4, <1>5 DEF ImportInv, ListedAsCached

(* The two actions that resolve a dependency.                                *)
LEMMA SelectKeeps == ASSUME NEW d \in Picked PROVE ImportInv /\ SelectDep(d) => ImportInv'
<1>. SUFFICES ASSUME ImportInv, SelectDep(d) PROVE ImportInv'
  OBVIOUS
<1>1. "catalog" \in Lauis /\ Resolves(d, "catalog")
  BY DEF SelectDep, Lauis
<1>2. /\ UNCHANGED <<HandedAndRun, installed, seeking, usecaseMode>>
      /\ making' \subseteq Picked
  BY DEF SelectDep, HandedAndRun, handedVars, runVars, itemVars, formVars, ImportInv,
         ImportTypes, UsecaseImportTypeOK
<1>. QED BY <1>1, <1>2, ResolvesKeeps, AnswersKeep

(* See SelectKeeps.                                                          *)
LEMMA CreatedKeeps == ASSUME NEW d \in Picked PROVE ImportInv /\ DepCreated(d) => ImportInv'
<1>. SUFFICES ASSUME ImportInv, DepCreated(d) PROVE ImportInv'
  OBVIOUS
<1>1. /\ UNCHANGED <<HandedAndRun, installed, seeking, usecaseMode>>
      /\ making' \subseteq Picked
  BY DEF DepCreated, HandedAndRun, handedVars, runVars, itemVars, formVars, ImportInv,
         ImportTypes, UsecaseImportTypeOK
<1>2. CASE Resolves(d, "created")
  <2>1. "created" \in Lauis
    BY DEF Lauis
  <2>. QED BY <1>1, <1>2, <2>1, ResolvesKeeps, AnswersKeep
<1>3. CASE UNCHANGED <<depCache, depStatuses>>
  BY <1>1, <1>3, DialogKeeps DEF ImportInv, ImportTypes, UsecaseImportTypeOK
<1>. QED BY <1>2, <1>3 DEF DepCreated

(* The other actions of the dialog, and those of the modal's form.           *)
LEMMA FormKeeps ==
  ASSUME ImportInv,
         \/ OpenDeps \/ CloseDeps \/ Recheck \/ Fill
         \/ \E m \in {"files", "tasks"} : SelectMode(m)
         \/ \E d \in Picked : ShowControl(d) \/ CreateDep(d)
         \/ \E d \in LookedUp : ImportDep(d)
  PROVE  ImportInv'
<1>. USE DEF HandedAndRun, handedVars, runVars, itemVars, formVars, depsVars
<1>1. /\ installed \subseteq LookedUp /\ making \subseteq Picked /\ seeking \subseteq LookedUp
      /\ usecaseMode \in {"none", "files", "tasks"}
  BY DEF ImportInv, ImportTypes, UsecaseImportTypeOK
<1>2. CASE OpenDeps \/ CloseDeps \/ Recheck
  BY <1>1, <1>2, DialogKeeps DEF OpenDeps, CloseDeps, Recheck
<1>3. CASE Fill
  BY <1>1, <1>3, DialogKeeps DEF Fill
<1>4. ASSUME NEW m \in {"files", "tasks"}, SelectMode(m) PROVE ImportInv'
  BY <1>1, <1>4, DialogKeeps DEF SelectMode
<1>5. ASSUME NEW d \in Picked, ShowControl(d) \/ CreateDep(d) PROVE ImportInv'
  BY <1>1, <1>5, DialogKeeps DEF ShowControl, CreateDep
<1>6. ASSUME NEW d \in LookedUp, ImportDep(d) PROVE ImportInv'
  BY <1>1, <1>6, DialogKeeps DEF ImportDep
<1>. QED BY <1>2, <1>3, <1>4, <1>5, <1>6
-----------------------------------------------------------------------------
(* The modal. Opened for the use case, it is handed what the dialog showed,  *)
(* complete when the gate says so.                                           *)
LEMMA OpenKeeps == ImportInv /\ OpenImport => ImportInv'
<1>. SUFFICES ASSUME ImportInv, OpenImport PROVE ImportInv'
  OBVIOUS
<1>. USE DEF depsVars, runVars, itemVars, formVars
<1>1. importing = "none" /\ importing' = importing /\ made' = {} /\ lines' = lines /\ lines = <<>>
  BY DEF OpenImport, ImportInv, ClosedIsEmpty
<1>2. AllRequired => /\ \A d \in Deps : depCache[d] = depStatuses[d]
                     /\ \A d \in Required : depCache[d] \in Lauis
  BY UsecaseImportAssumption DEF AllRequired, ImportInv, ListedAsCached
<1>3. ImportTypes'
  BY <1>1 DEF OpenImport, ImportInv, ImportTypes, UsecaseImportTypeOK, AllRequired
<1>4. HandedOver'
  BY <1>1, <1>2 DEF OpenImport, HandedOver
<1>5. MadeAsShown'
  BY <1>1 DEF MadeAsShown
<1>6. ListedAsCached' /\ ClosedIsEmpty' /\ GatedTasksResolve'
  BY <1>1 DEF OpenImport, ImportInv, ListedAsCached, ClosedIsEmpty, GatedTasksResolve
<1>7. ItemAsked'
  BY <1>1, UsecaseImportAssumption DEF OpenImport, ImportInv, ItemAsked, Deps
<1>. QED BY <1>1, <1>3, <1>4, <1>5, <1>6, <1>7 DEF ImportInv

(* Opened for a dependency, it is handed nothing that tasks may be made of.  *)
LEMMA FetchedKeeps == ASSUME NEW d \in LookedUp PROVE ImportInv /\ DepFetched(d) => ImportInv'
<1>. SUFFICES ASSUME ImportInv, DepFetched(d) PROVE ImportInv'
  OBVIOUS
<1>. USE DEF runVars, itemVars, formVars
<1>1. /\ UNCHANGED <<installed, making, depStatuses, depCache, modalCache, shown, usecaseMode>>
      /\ UNCHANGED <<importing, todo, lines, made, conflict>> /\ seeking' \subseteq seeking
      /\ modal' = modal \/ modal' = d
      /\ depsResolved' = depsResolved \/ depsResolved' = FALSE
  BY DEF DepFetched
<1>2. modal' = "closed" => modal = "closed"
  BY <1>1, UsecaseImportAssumption DEF Deps
<1>3. ImportTypes'
  BY <1>1, <1>2 DEF ImportInv, ImportTypes, UsecaseImportTypeOK
<1>4. HandedOver' /\ MadeAsShown' /\ ListedAsCached' /\ ClosedIsEmpty' /\ ItemAsked'
  BY <1>1, <1>2 DEF ImportInv, HandedOver, MadeAsShown, ListedAsCached, ClosedIsEmpty, ItemAsked
<1>5. GatedTasksResolve'
  BY <1>1 DEF ImportInv, GatedTasksResolve
<1>6. (importing \in {"files", "tasks"} => RunIsExact(todo, lines, made, importing))'
  BY <1>1 DEF ImportInv
<1>. QED BY <1>3, <1>4, <1>5, <1>6 DEF ImportInv

(* Closed, it forgets everything.                                            *)
LEMMA CloseKeeps == ImportInv /\ Close => ImportInv'
<1>. SUFFICES ASSUME ImportInv, Close PROVE ImportInv'
  OBVIOUS
<1>. USE DEF depsVars
<1>1. /\ importing' = "none" /\ made' = {} /\ lines' = <<>> /\ depsResolved' = FALSE
      /\ UNCHANGED <<installed, making, depStatuses, depCache, seeking>>
      /\ modal' = "closed" /\ conflict' = FALSE /\ usecaseMode' = "none"
      /\ modalCache' = Unresolved
  BY DEF Close
<1>2. Unresolved \in [Deps -> Lauis \cup {Nowhere}]
  BY DEF Unresolved
<1>3. ImportTypes'
  <2>1. lines' \in Seq(ImportLines)
    BY <1>1
  <2>2. UsecaseImportTypeOK'
    BY <1>1, <1>2 DEF ImportInv, ImportTypes, UsecaseImportTypeOK
  <2>. QED BY <1>1, <2>1, <2>2 DEF ImportTypes
<1>4. HandedOver' /\ MadeAsShown' /\ ListedAsCached' /\ ClosedIsEmpty' /\ ItemAsked'
  BY <1>1 DEF ImportInv, HandedOver, MadeAsShown, ListedAsCached, ClosedIsEmpty, ItemAsked
<1>5. GatedTasksResolve'
  BY <1>1 DEF GatedTasksResolve
<1>. QED BY <1>1, <1>3, <1>4, <1>5 DEF ImportInv
-----------------------------------------------------------------------------
(* The run. What only touches the run leaves the dialog and what was handed. *)
OutsideRun == <<depStatuses, depCache, making, seeking, usecaseMode, handedVars>>

(* A run starts with every step to do and nothing done, and for tasks only   *)
(* where the gate let it.                                                    *)
LEMMA ConfirmKeeps == ImportInv /\ ConfirmUsecase => ImportInv'
<1>. SUFFICES ASSUME ImportInv, ConfirmUsecase PROVE ImportInv'
  OBVIOUS
<1>1. /\ usecaseMode \in {"files", "tasks"} /\ importing' = usecaseMode
      /\ todo' = StepsOf(usecaseMode) /\ lines' = <<>> /\ made' = {}
      /\ usecaseMode = "tasks" => depsResolved
      /\ modal = "usecase" /\ ~conflict
      /\ UNCHANGED <<OutsideRun, conflict, installed>>
  BY DEF ConfirmUsecase, CanConfirm, OutsideRun, depsVars, formVars, handedVars, itemVars,
         ImportInv, ImportTypes, UsecaseImportTypeOK
<1>2. /\ todo' \in Seq(ImportSteps)
      /\ RunIsExact(todo', lines', made', importing')
  BY <1>1, StepsAre, RunStartsExact
<1>3. ImportTypes'
  <2>1. lines' \in Seq(ImportLines)
    BY <1>1
  <2>2. UsecaseImportTypeOK'
    BY <1>1 DEF ImportInv, ImportTypes, UsecaseImportTypeOK, OutsideRun, handedVars
  <2>. QED BY <1>1, <1>2, <2>1, <2>2 DEF ImportTypes, ImportInv, OutsideRun, handedVars
<1>4. HandedOver' /\ MadeAsShown' /\ ListedAsCached' /\ ClosedIsEmpty'
  BY <1>1 DEF ImportInv, HandedOver, MadeAsShown, ListedAsCached, ClosedIsEmpty, OutsideRun,
              handedVars
<1>5. ItemAsked'
  BY <1>1 DEF ImportInv, ItemAsked
<1>6. GatedTasksResolve'
  BY <1>1 DEF GatedTasksResolve
<1>. QED BY <1>2, <1>3, <1>4, <1>5, <1>6 DEF ImportInv

(* Every task of a run has what it needs in the cache.                       *)
LEMMA StepResolves ==
  ASSUME ImportInv, importing \in {"files", "tasks"}, todo # <<>>
  PROVE  /\ todo \in Seq(ImportSteps) /\ Head(todo) \in ImportSteps
         /\ Head(todo).kind = "task" =>
              /\ importing = "tasks" /\ Resolved(Head(todo).file)
              /\ \A d \in Needs[Head(todo).file] : DepsFor(Head(todo).file)[d] = shown[d]
<1>1. /\ todo \in Seq(ImportSteps) /\ Head(todo) \in ImportSteps
      /\ 1 \in DOMAIN todo /\ Head(todo) = todo[1]
  BY TailIs DEF ImportInv, ImportTypes
<1>2. Head(todo).kind = "task" => importing = "tasks"
  BY <1>1 DEF ImportInv, RunIsExact
<1>3. Head(todo).file \in PayloadFiles /\ Needs[Head(todo).file] \subseteq Deps
  BY <1>1, UsecaseImportAssumption DEF ImportSteps
<1>4. importing = "tasks" => /\ Resolved(Head(todo).file)
                             /\ \A d \in Needs[Head(todo).file] :
                                  DepsFor(Head(todo).file)[d] = shown[d]
  BY <1>3 DEF ImportInv, HandedOver, Resolved, DepsFor
<1>. QED BY <1>1, <1>2, <1>4

(* What a step makes: the item of it or, when it failed, perhaps nothing.    *)
LEMMA StepMakes ==
  ASSUME NEW step \in ImportSteps, NEW items, MadeAsShown,
         step.kind = "task" => \A d \in Needs[step.file] : DepsFor(step.file)[d] = shown[d],
         items \in {made, made \cup {StoredItem(step)}}
  PROVE  /\ made \subseteq items
         /\ \A s \in items : s.kind = "task" =>
              s.file \in PayloadFiles /\ \A d \in Needs[s.file] : s.deps[d] = shown[d]
         /\ items = made \cup {StoredItem(step)} => IsMade(items, step.kind, step.file)
<1>1. /\ StoredItem(step).kind = step.kind /\ StoredItem(step).file = step.file
      /\ step.kind = "task" => StoredItem(step).deps = DepsFor(step.file)
  BY DEF StoredItem
<1>2. step.file \in PayloadFiles
  BY DEF ImportSteps
<1>. HIDE DEF StoredItem
<1>. QED BY <1>1, <1>2 DEF MadeAsShown, IsMade

(* A step of the run: its line, if it has one, is new, and no task fails for  *)
(* want of a dependency.                                                     *)
LEMMA RunStepKeeps == ImportInv /\ RunStep => ImportInv'
<1>. SUFFICES ASSUME ImportInv, RunStep PROVE ImportInv'
  OBVIOUS
<1>. DEFINE step == Head(todo)
<1>1. /\ importing \in {"files", "tasks"} /\ todo # <<>> /\ todo' = Tail(todo)
      /\ UNCHANGED <<OutsideRun, conflict, importing, installed>>
  BY DEF RunStep, OutsideRun, depsVars, formVars, handedVars, itemVars
<1>2. /\ todo \in Seq(ImportSteps) /\ step \in ImportSteps
      /\ step.kind = "task" =>
           /\ importing = "tasks" /\ Resolved(step.file)
           /\ \A d \in Needs[step.file] : DepsFor(step.file)[d] = shown[d]
  BY <1>1, StepResolves
<1>3. PICK how \in {"done", "failed"} :
        /\ lines' = Reported(step, how)
        /\ made' \in {made, made \cup {StoredItem(step)}}
        /\ how = "done" => made' = made \cup {StoredItem(step)}
  BY <1>2 DEF RunStep
<1>4. /\ made \subseteq made' /\ MadeAsShown'
      /\ how = "done" => IsMade(made', step.kind, step.file)
  <2>1. MadeAsShown
    BY DEF ImportInv
  <2>2. /\ made \subseteq made'
        /\ \A s \in made' : s.kind = "task" =>
             s.file \in PayloadFiles /\ \A d \in Needs[s.file] : s.deps[d] = shown[d]
        /\ made' = made \cup {StoredItem(step)} => IsMade(made', step.kind, step.file)
    BY <1>2, <1>3, <2>1, StepMakes
  <2>. QED BY <1>1, <1>3, <2>2 DEF MadeAsShown, OutsideRun, handedVars
<1>5. \/ lines' = Append(lines, Line(step, how))
      \/ lines' = lines /\ importing = "tasks" /\ how = "done" /\ step.kind = "payload"
  BY <1>3 DEF Reported
<1>6. lines \in Seq(ImportLines) /\ RunIsExact(todo, lines, made, importing)
  BY <1>1 DEF ImportInv, ImportTypes
<1>7. RunIsExact(todo', lines', made', importing') /\ lines' \in Seq(ImportLines)
  <2>1. RunIsExact(Tail(todo), lines', made', importing) /\ lines' \in Seq(ImportLines)
    BY <1>1, <1>2, <1>4, <1>5, <1>6, RunStaysExact
  <2>. QED BY <1>1, <2>1
<1>8. GatedTasksResolve'
  <2>1. GatedTasksResolve /\ Line(step, how).how # "unresolved" /\ Line(step, how) \in ImportLines
    BY <1>2 DEF ImportInv, Line, ImportLines, ImportSteps
  <2>2. CASE lines' = Append(lines, Line(step, how))
    BY <1>6, <2>1, <2>2, AppendIs DEF GatedTasksResolve
  <2>3. CASE lines' = lines
    BY <2>1, <2>3 DEF GatedTasksResolve
  <2>. QED BY <1>5, <2>2, <2>3
<1>9. todo' \in Seq(ImportSteps)
  BY <1>1, <1>2, TailIs
<1>10. ImportTypes'
  <2>1. UsecaseImportTypeOK'
    BY <1>1 DEF ImportInv, ImportTypes, UsecaseImportTypeOK, OutsideRun, handedVars
  <2>. QED BY <1>1, <1>7, <1>9, <2>1 DEF ImportTypes, ImportInv, OutsideRun, handedVars
<1>11. HandedOver' /\ ListedAsCached' /\ ClosedIsEmpty' /\ ItemAsked'
  BY <1>1 DEF ImportInv, ImportTypes, UsecaseImportTypeOK, HandedOver, ListedAsCached,
              ClosedIsEmpty, ItemAsked, OutsideRun, handedVars
<1>. QED BY <1>4, <1>7, <1>8, <1>10, <1>11 DEF ImportInv

(* What ends or answers a run that is not of the use case, or starts one.    *)
LEMMA IdleKeeps ==
  ASSUME ImportInv, UNCHANGED <<OutsideRun, lines, made>>, modal # "closed",
         importing' \in {"none", "item", "overwrite", "rename"},
         installed' \subseteq LookedUp, ItemAsked'
  PROVE  ImportInv'
<1>1. ImportTypes'
  BY DEF ImportInv, ImportTypes, UsecaseImportTypeOK, OutsideRun, handedVars
<1>2. HandedOver' /\ MadeAsShown' /\ ListedAsCached' /\ ClosedIsEmpty'
  BY DEF ImportInv, HandedOver, MadeAsShown, ListedAsCached, ClosedIsEmpty, OutsideRun,
         handedVars
<1>3. GatedTasksResolve'
  BY DEF ImportInv, GatedTasksResolve
<1>. QED BY <1>1, <1>2, <1>3 DEF ImportInv

(* The end of a run, and the single item.                                    *)
LEMMA ItemKeeps ==
  ASSUME ImportInv, RunEnds \/ ConfirmItem \/ ResolveConflict \/ ItemAnswered
  PROVE  ImportInv'
<1>1. /\ installed \subseteq LookedUp
      /\ importing # "none" => modal # "closed"
      /\ modal \in {"closed", "usecase"} \cup LookedUp
      /\ ItemAsked
  BY DEF ImportInv, ImportTypes, UsecaseImportTypeOK
<1>2. \A d \in LookedUp : d # "closed" /\ d # "usecase" /\ d \in Deps
  BY UsecaseImportAssumption DEF Deps
<1>3. CASE RunEnds
  <2>1. ItemAsked'
    BY <1>1, <1>3 DEF RunEnds, ItemAsked, handedVars, itemVars
  <2>2. UNCHANGED <<OutsideRun, lines, made>> /\ installed' = installed
    BY <1>3 DEF RunEnds, OutsideRun, depsVars, formVars
  <2>3. modal # "closed" /\ importing' = "none"
    BY <1>1, <1>3 DEF RunEnds
  <2>. QED BY <1>1, <2>1, <2>2, <2>3, IdleKeeps
<1>4. CASE ConfirmItem
  <2>1. modal \in LookedUp
    BY <1>1, <1>4, UsecaseImportAssumption DEF ConfirmItem
  <2>2. ItemAsked'
    BY <1>1, <1>4, <2>1 DEF ConfirmItem, ItemAsked, handedVars, itemVars
  <2>3. UNCHANGED <<OutsideRun, lines, made>> /\ installed' = installed
    BY <1>4 DEF ConfirmItem, OutsideRun, depsVars, formVars
  <2>4. modal # "closed" /\ importing' = "item"
    BY <1>2, <1>4, <2>1 DEF ConfirmItem
  <2>. QED BY <1>1, <2>2, <2>3, <2>4, IdleKeeps
<1>5. CASE ResolveConflict
  <2>1. modal \in LookedUp
    BY <1>1, <1>5 DEF ResolveConflict, ItemAsked
  <2>2. ItemAsked'
    BY <1>1, <1>5, <2>1 DEF ResolveConflict, ItemAsked, handedVars, itemVars
  <2>3. UNCHANGED <<OutsideRun, lines, made>> /\ installed' = installed
    BY <1>5 DEF ResolveConflict, OutsideRun, depsVars, formVars
  <2>4. modal # "closed" /\ importing' \in {"overwrite", "rename"}
    BY <1>2, <1>5, <2>1 DEF ResolveConflict
  <2>. QED BY <1>1, <2>2, <2>3, <2>4, IdleKeeps
<1>6. CASE ItemAnswered
  <2>1. PICK d \in LookedUp : todo = <<ItemStep(d)>>
    BY <1>1, <1>6 DEF ItemAnswered, ItemAsked
  <2>2. Head(todo).file = d
    BY <2>1 DEF ItemStep
  <2>3. /\ importing \in {"item", "overwrite", "rename"} /\ importing' = "none"
        /\ UNCHANGED <<OutsideRun, lines, made>> /\ modal' = modal
        /\ installed' = installed \/ installed' = installed \cup {Head(todo).file}
        /\ conflict' \in {TRUE, FALSE, conflict}
    BY <1>6 DEF ItemAnswered, OutsideRun, formVars, handedVars
  <2>4. ItemAsked'
    BY <1>1, <2>3 DEF ItemAsked
  <2>5. modal # "closed" /\ installed' \subseteq LookedUp
    BY <1>1, <2>2, <2>3
  <2>. QED BY <2>3, <2>4, <2>5, IdleKeeps
<1>. QED BY <1>3, <1>4, <1>5, <1>6
-----------------------------------------------------------------------------
(* The view starts with nothing listed, handed or imported.                  *)
LEMMA ImportStarts == UsecaseImportInit => ImportInv
<1>. SUFFICES ASSUME UsecaseImportInit PROVE ImportInv
  OBVIOUS
<1>1. ImportTypes
  <2>1. lines \in Seq(ImportLines)
    BY DEF UsecaseImportInit
  <2>2. UsecaseImportTypeOK
    BY DEF UsecaseImportInit, UsecaseImportTypeOK, Unresolved
  <2>. QED BY <2>1, <2>2 DEF UsecaseImportInit, ImportTypes
<1>2. ListedAsCached /\ HandedOver /\ MadeAsShown /\ ClosedIsEmpty /\ ItemAsked
  BY DEF UsecaseImportInit, ListedAsCached, HandedOver, MadeAsShown, ClosedIsEmpty, ItemAsked
<1>3. GatedTasksResolve
  BY DEF UsecaseImportInit, GatedTasksResolve
<1>. QED BY <1>1, <1>2, <1>3 DEF UsecaseImportInit, ImportInv

(* Every step keeps the invariant.                                           *)
LEMMA ImportKeeps == ImportInv /\ [UsecaseImportNext]_usecaseVars => ImportInv'
<1>. SUFFICES ASSUME ImportInv, [UsecaseImportNext]_usecaseVars PROVE ImportInv'
  OBVIOUS
<1>1. CASE UNCHANGED usecaseVars
  BY <1>1, DialogKeeps DEF usecaseVars, depsVars, formVars, runVars, handedVars, itemVars,
     HandedAndRun, ImportInv, ImportTypes, UsecaseImportTypeOK
<1>2. CASE UsecaseImportNext
  BY <1>2, FormKeeps, CheckKeeps, SelectKeeps, CreatedKeeps, OpenKeeps, FetchedKeeps, CloseKeeps,
     ConfirmKeeps, RunStepKeeps, ItemKeeps DEF UsecaseImportNext
<1>. QED BY <1>1, <1>2

(* A run with nothing left to do reports what it did.                        *)
LEMMA ImportInvIsRight == ImportInv => ImportIsRight
<1>. SUFFICES ASSUME ImportInv PROVE ImportIsRight
  OBVIOUS
<1>1. UsecaseImportTypeOK /\ TasksUseWhatWasShown /\ GatedTasksResolve
  BY DEF ImportInv, ImportTypes, MadeAsShown, TasksUseWhatWasShown
<1>2. ReportIsTrue
  <2>. SUFFICES ASSUME importing \in {"files", "tasks"}, todo = <<>> PROVE ReportIsTrue
    BY DEF ReportIsTrue
  <2>1. RunIsExact(todo, lines, made, importing) /\ lines \in Seq(ImportLines)
    BY DEF ImportInv, ImportTypes
  <2>2. DOMAIN todo = {}
    OBVIOUS
  <2>3. /\ Range(lines) = {lines[i] : i \in DOMAIN lines}
        /\ \A i \in DOMAIN lines : lines[i] \in ImportLines
    BY <2>1 DEF Range
  <2>4. \A l \in Range(lines) : l.how = "done" => \E s \in made : s.kind = l.kind /\ s.file = l.file
    BY <2>1, <2>3 DEF RunIsExact, IsMade
  <2>5. \A f \in PayloadFiles :
          \/ \E s \in made : s.kind = "payload" /\ s.file = f
          \/ \E l \in Range(lines) : l.kind = "payload" /\ l.file = f
    BY <2>1, <2>2, <2>3 DEF RunIsExact, IsMade, Waits, HasLine
  <2>6. \A i, j \in DOMAIN lines :
          lines[i].kind = lines[j].kind /\ lines[i].file = lines[j].file => i = j
    BY <2>1 DEF RunIsExact, SameItem
  <2>7. \A f \in PayloadFiles :
          \E l \in Range(lines) : l.file = f /\ (importing = "tasks" <=> l.kind = "task")
    <3>1. \A f \in PayloadFiles :
            HasLine(lines, IF importing = "tasks" THEN "task" ELSE "payload", f)
      BY <2>1, <2>2 DEF RunIsExact, Waits
    <3>2. CASE importing = "tasks"
      BY <2>3, <3>1, <3>2 DEF HasLine
    <3>3. CASE importing = "files"
      BY <2>3, <3>1, <3>3 DEF HasLine
    <3>. QED BY <3>2, <3>3
  <2>. QED BY <2>4, <2>5, <2>6, <2>7 DEF ReportIsTrue
<1>. QED BY <1>1, <1>2 DEF ImportIsRight

(* What an import reports and stores is what the dialog showed and the       *)
(* server took (UsecaseDepsDialog.tsx and ImportModal.tsx): tasks are made   *)
(* of the dependencies shown at the click, none is given up for one that is   *)
(* missing, and the report of a run that ends names each file once.          *)
THEOREM ImportIsAlwaysRight == UsecaseImportSpec => []ImportIsRight
<1>1. UsecaseImportSpec => []ImportInv
  BY ImportStarts, ImportKeeps, PTL DEF UsecaseImportSpec
<1>. QED BY <1>1, ImportInvIsRight, PTL
=============================================================================
