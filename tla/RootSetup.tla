------------------------------ MODULE RootSetup ------------------------------
(* setup.py, which every deploy runs once and whose failure takes the deploy *)
(* back: the root user as ROOT_EMAIL and ROOT_USERNAME name him, the group   *)
(* of administrators, the account, and the shipped catalog. The API, which   *)
(* answers meanwhile, finds the root user once and keeps him in memory.      *)
EXTENDS Naturals, Sequences

CONSTANTS
  Emails, Names,
  NoOne, System,          \* no user; the system user
  NoApi,                   \* no API runs
  MaxUsers, MaxRuns, MaxSetupMishaps   \* bounds

ASSUME RootSetupAssumption ==
  /\ {NoOne, System, NoApi} \cap Nat = {}
  /\ NoOne # System /\ NoOne # NoApi /\ System # NoApi
  /\ MaxUsers \in Nat /\ MaxRuns \in Nat /\ MaxSetupMishaps \in Nat

VARIABLES
  accounts,        \* of users, numbered by their laui; deleted ones are marked
  systemThere,     \* the system user is stored
  groupOwners,     \* of the admins group; {} until it is created
  ketoKnows,       \* "group", "account": the writer has passed on who owns it
  accountThere, granted,   \* the account folder; the group owns it
  knownRoot,           \* root_user of the API's UserRepository
  formerRoot,          \* that of the API which a failed deploy goes back to
  setupStep, attempt, rootConfig, deployed,   \* the run of setup.py; is it a deploy's?
  runs, setupMishaps,
  \* history of the run:
  rootThen, touched,   \* root at its start; users were created or deleted
  endedInCreate        \* an attempt ended where the root user is created

rootSetupVars ==
  <<accounts, systemThere, groupOwners, ketoKnows, accountThere, granted, knownRoot,
    formerRoot, setupStep, attempt, rootConfig, deployed, runs, setupMishaps, rootThen,
    touched, endedInCreate>>
storedVars == <<accounts, systemThere, groupOwners, ketoKnows, accountThere, granted>>
serverVars == <<knownRoot, formerRoot>>
setupRunVars == <<rootConfig, deployed, runs, rootThen>>

-----------------------------------------------------------------------------
Settings == [email : Emails, name : Names]
UserLauis == 1..MaxUsers
Live(u) == accounts[u].type # "deleted"
LiveUsers == {u \in DOMAIN accounts : Live(u)}

(* find_root_user, on the database; user_type is unique. *)
RootUser ==
  IF \E u \in LiveUsers : accounts[u].type = "root"
  THEN CHOOSE u \in LiveUsers : accounts[u].type = "root"
  ELSE NoOne

Matches(u, s) == accounts[u].email = s.email /\ accounts[u].name = s.name
Taken(s) == \E u \in LiveUsers : accounts[u].email = s.email \/ accounts[u].name = s.name
Account(s, type) == [email |-> s.email, name |-> s.name, type |-> type]

RootSetupInit ==
  /\ accounts = <<>> /\ systemThere = FALSE
  /\ groupOwners = {} /\ ketoKnows = {} /\ accountThere = FALSE /\ granted = FALSE
  /\ knownRoot = NoApi /\ formerRoot = NoApi
  /\ setupStep = "done" /\ attempt = 1 /\ rootConfig \in Settings /\ deployed = FALSE
  /\ runs = 0 /\ setupMishaps = 0
  /\ rootThen = NoOne /\ touched = FALSE /\ endedInCreate = FALSE

-----------------------------------------------------------------------------
Begins(s) ==
  /\ setupStep \in {"done", "failed"} /\ runs < MaxRuns
  /\ setupStep' = "system" /\ attempt' = 1 /\ rootConfig' = s /\ runs' = runs + 1
  /\ rootThen' = RootUser /\ touched' = FALSE /\ endedInCreate' = FALSE
  /\ UNCHANGED <<storedVars, setupMishaps>>

(* A deploy starts another API and switches to it; on one host, setup-helper *)
(* is run again beside the API that is there.                                *)
Deploys(s) ==
  /\ Begins(s) /\ deployed' = TRUE
  /\ knownRoot' = NoOne /\ formerRoot' = knownRoot
RunsAgain(s) ==
  /\ knownRoot # NoApi /\ Begins(s) /\ deployed' = FALSE
  /\ UNCHANGED serverVars

-----------------------------------------------------------------------------
GoesTo(next) ==
  setupStep' = next /\ UNCHANGED <<attempt, setupRunVars, endedInCreate, touched>>

(* setup_with_retry tries twice; a deploy whose setup fails is taken back.   *)
FailsAtOnce ==
  /\ endedInCreate' = (endedInCreate \/ setupStep = "create")
  /\ setupStep' = "failed" /\ UNCHANGED <<attempt, formerRoot>>
  /\ knownRoot' = IF deployed THEN formerRoot ELSE knownRoot
  /\ UNCHANGED <<setupRunVars, touched>>
AttemptFails ==
  /\ endedInCreate' = (endedInCreate \/ setupStep = "create")
  /\ IF attempt = 1
     THEN setupStep' = "system" /\ attempt' = 2 /\ UNCHANGED serverVars
     ELSE /\ setupStep' = "failed" /\ UNCHANGED <<attempt, formerRoot>>
          /\ knownRoot' = IF deployed THEN formerRoot ELSE knownRoot
  /\ UNCHANGED <<setupRunVars, touched>>

AtStep(this) == setupStep = this
Reaches(this, next) == AtStep(this) /\ GoesTo(next) /\ UNCHANGED <<serverVars, setupMishaps>>

EnsuresSystemUser ==
  /\ Reaches("system", "root") /\ systemThere' = TRUE
  /\ UNCHANGED <<accounts, groupOwners, ketoKnows, accountThere, granted>>

(* The user of that e-mail address is the root user, or becomes it; any      *)
(* exception, a second root user included, is passed over.                   *)
MatchesEmail(u) == accounts[u].email = rootConfig.email
IsConfigured(u) == Matches(u, rootConfig)
CanBeRoot(u) == u \in LiveUsers /\ IsConfigured(u) /\ RootUser \in {u, NoOne}

FindsRoot ==
  /\ \E u \in DOMAIN accounts :
       CanBeRoot(u) /\ accounts' = [accounts EXCEPT ![u].type = "root"]
  /\ Reaches("root", "group")
  /\ UNCHANGED <<systemThere, groupOwners, ketoKnows, accountThere, granted>>
FindsNoRoot ==
  /\ ~\E u \in DOMAIN accounts : CanBeRoot(u)
  /\ Reaches("root", "unset") /\ UNCHANGED storedVars

LeftAsTheyAre == accounts
WithoutRoot ==
  [u \in DOMAIN accounts |->
     IF u = RootUser THEN [accounts[u] EXCEPT !.type = "user"] ELSE accounts[u]]
UnsetsRoot ==
  /\ Reaches("unset", "create") /\ accounts' = WithoutRoot
  /\ UNCHANGED <<systemThere, groupOwners, ketoKnows, accountThere, granted>>

CanBeStored == ~Taken(rootConfig) /\ RootUser = NoOne
CreatesRoot ==
  /\ CanBeStored /\ Len(accounts) < MaxUsers
  /\ Reaches("create", "group")
  /\ accounts' = Append(accounts, Account(rootConfig, "root"))
  /\ UNCHANGED <<systemThere, groupOwners, ketoKnows, accountThere, granted>>
IsRefused ==
  /\ AtStep("create") /\ ~CanBeStored
  /\ AttemptFails /\ UNCHANGED <<storedVars, setupMishaps>>

-----------------------------------------------------------------------------
GroupIsThere == Reaches("group", "account") /\ groupOwners # {} /\ UNCHANGED storedVars
CreatesGroup ==
  /\ Reaches("group", "owner") /\ groupOwners = {}
  /\ groupOwners' = {System} /\ ketoKnows' = ketoKnows \ {"group"}
  /\ UNCHANGED <<accounts, systemThere, accountThere, granted>>

(* Only an owner may add one, and Keto must know by now that the system user *)
(* is: the answer is not looked at. (A root user deleted meanwhile is left   *)
(* out.)                                                                     *)
AddsOwner ==
  /\ Reaches("owner", "account")
  /\ groupOwners' = IF "group" \in ketoKnows
                     THEN groupOwners \cup ({RootUser} \ {NoOne}) ELSE groupOwners
  /\ UNCHANGED <<accounts, systemThere, ketoKnows, accountThere, granted>>

EnsuresAccount ==
  /\ Reaches("account", "grant") /\ accountThere' = TRUE
  /\ UNCHANGED <<accounts, systemThere, groupOwners, ketoKnows, granted>>
GrantsGroup ==
  /\ "account" \in ketoKnows
  /\ Reaches("grant", "catalog") /\ granted' = TRUE
  /\ UNCHANGED <<accounts, systemThere, groupOwners, ketoKnows, accountThere>>
GrantPassedOver ==
  /\ AtStep("grant") /\ "account" \notin ketoKnows
  /\ GoesTo("catalog") /\ UNCHANGED <<storedVars, setupMishaps, serverVars>>
NotGranted ==
  /\ AtStep("grant") /\ "account" \notin ketoKnows
  /\ AttemptFails /\ UNCHANGED <<storedVars, setupMishaps>>

(* Folders, shipped items and sample tasks; what a user has moved to the     *)
(* trash is refused, and a task whose operator was refused fails as well.    *)
FillsCatalog == Reaches("catalog", "done") /\ UNCHANGED storedVars

(* A command or a request fails at any step.                                 *)
StepFails ==
  /\ setupStep \notin {"done", "failed"} /\ setupMishaps < MaxSetupMishaps
  /\ setupMishaps' = setupMishaps + 1
  /\ AttemptFails /\ UNCHANGED storedVars

-----------------------------------------------------------------------------
(* The access writer passes on who owns what was created. *)
KetoCatchesUp(x) ==
  /\ x \notin ketoKnows /\ CASE x = "group" -> groupOwners # {} [] OTHER -> accountThere
  /\ ketoKnows' = ketoKnows \cup {x}
  /\ UNCHANGED <<accounts, systemThere, groupOwners, accountThere, granted, serverVars,
                 setupStep, attempt, setupRunVars, setupMishaps, touched, endedInCreate>>

(* Each request asks the repository for the root user first. *)
KnownNow == IF knownRoot = NoOne THEN RootUser ELSE knownRoot

ApiAnswers ==
  /\ knownRoot # NoApi /\ knownRoot' = KnownNow
  /\ UNCHANGED <<storedVars, formerRoot, setupStep, attempt, setupRunVars, setupMishaps,
                 touched, endedInCreate>>

ChangesUsers ==
  /\ knownRoot # NoApi /\ systemThere /\ knownRoot' = KnownNow /\ touched' = TRUE
  /\ UNCHANGED <<systemThere, groupOwners, ketoKnows, accountThere, granted, formerRoot,
                 setupStep, attempt, setupRunVars, setupMishaps, endedInCreate>>
AdminCreates(s) ==
  /\ ChangesUsers /\ LiveUsers # {} /\ ~Taken(s) /\ Len(accounts) < MaxUsers
  /\ accounts' = Append(accounts, Account(s, "user"))
AdminDeletes(u) ==
  /\ ChangesUsers /\ u \in LiveUsers /\ u # KnownNow /\ LiveUsers # {u}
  /\ accounts' = [accounts EXCEPT ![u].type = "deleted"]

RootSetupNext ==
  \/ \E s \in Settings : Deploys(s) \/ RunsAgain(s) \/ AdminCreates(s)
  \/ EnsuresSystemUser \/ FindsRoot \/ FindsNoRoot \/ UnsetsRoot \/ CreatesRoot \/ IsRefused
  \/ GroupIsThere \/ CreatesGroup \/ AddsOwner \/ EnsuresAccount \/ GrantsGroup \/ NotGranted
  \/ FillsCatalog \/ StepFails
  \/ \E x \in {"group", "account"} : KetoCatchesUp(x)
  \/ ApiAnswers
  \/ \E u \in DOMAIN accounts : AdminDeletes(u)

RootSetupSpec == RootSetupInit /\ [][RootSetupNext]_rootSetupVars

-----------------------------------------------------------------------------
RootSetupTypeOK ==
  /\ accounts \in Seq([email : Emails, name : Names, type : {"user", "root", "deleted"}])
  /\ systemThere \in BOOLEAN /\ accountThere \in BOOLEAN /\ granted \in BOOLEAN
  /\ groupOwners \subseteq UserLauis \cup {System} /\ ketoKnows \subseteq {"group", "account"}
  /\ {knownRoot, formerRoot} \subseteq UserLauis \cup {NoOne, NoApi}
  /\ rootThen \in UserLauis \cup {NoOne}
  /\ setupStep \in {"system", "root", "unset", "create", "group", "owner", "account", "grant",
                    "catalog", "done", "failed"}
  /\ attempt \in 1..2 /\ rootConfig \in Settings /\ deployed \in BOOLEAN /\ touched \in BOOLEAN

Ended == setupStep \in {"done", "failed"} /\ runs > 0

(* A setup that succeeds leaves the configured user as root, the only one,   *)
(* and the administrators' group owned and owning the account.               *)
RootIsConfigured ==
  setupStep = "done" /\ runs > 0 =>
    /\ groupOwners # {} /\ accountThere /\ granted
    /\ ~touched => RootUser # NoOne /\ Matches(RootUser, rootConfig)

(* A setup leaves no installation without its root user, unless it failed    *)
(* where it makes one; and there it fails by itself only when the address    *)
(* and the name in the configuration do not belong together.                 *)
RootIsLostToClash ==
  Ended /\ rootThen # NoOne /\ ~touched /\ RootUser = NoOne =>
    /\ endedInCreate
    /\ setupMishaps = 0 => \E u \in LiveUsers : ~Matches(u, rootConfig)
         /\ (accounts[u].email = rootConfig.email \/ accounts[u].name = rootConfig.name)

(* The API's root user is the stored one after a setup that did not have to  *)
(* change it, and after a deploy before the first request reached the API.   *)
ApiKnowsRootKept ==
  setupStep = "done" /\ ~touched /\ deployed /\ rootThen \in {NoOne, RootUser} =>
    knownRoot \in {NoOne, RootUser}

SetupIsRight == RootSetupTypeOK /\ RootIsConfigured /\ RootIsLostToClash /\ ApiKnowsRootKept

(* Not so: the API's root user is the stored one.                            *)
ApiKnowsRoot == setupStep = "done" /\ ~touched => knownRoot \in {NoOne, NoApi, RootUser}

(* Not so: a setup keeps a root user ("Any failure rolls back to the old     *)
(* slot automatically", docs/02-installation/03-production-blue-green.md:37).*)
RootIsKept == Ended /\ rootThen # NoOne /\ ~touched /\ setupMishaps = 0 => RootUser # NoOne

(* Not so: the root user is never deleted.                                   *)
RootIsNotDeleted == [][\A u \in DOMAIN accounts : Live(u) /\ ~Live(u)' => u # RootUser]_accounts

(* Not so: "ensure only the root user is an owner" (setup.py:205).           *)
RootOwnsGroup == setupStep = "done" /\ runs > 0 /\ ~touched => RootUser \in groupOwners
=============================================================================
