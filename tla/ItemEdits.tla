------------------------------ MODULE ItemEdits ------------------------------
(* Edits of one item that exists. A request takes the redis lock of the      *)
(* item's primary key, reads the item, checks the release it brings and, in  *)
(* a transaction of its own, archives what it read and writes the whole item *)
(* back. The scheduler, the workers and the connection queue write the       *)
(* item's system fields meanwhile and take no lock.                          *)
EXTENDS Naturals, Sequences

CONSTANTS
  Editors,                      \* requests that edit the item
  ItemFields,                       \* what a user changes
  VersionFields,                \* version_fields: none, and every edit is a version
  Releases,                     \* well-formed version_details.version, in order
  Keep, NoRelease, Malformed,   \* not sent; cleared; legacy data
  Nobody, Worker,
  MaxEdits, MaxProgress, MaxExpiries   \* bounds

ASSUME ItemEditsAssumption ==
  /\ VersionFields \subseteq ItemFields /\ Releases \subseteq Nat
  /\ {Keep, NoRelease, Malformed} \cap Nat = {}
  /\ Keep # NoRelease /\ Keep # Malformed /\ NoRelease # Malformed
  /\ Nobody \notin Editors /\ Worker \notin Editors
  /\ MaxEdits \in Nat /\ MaxProgress \in Nat /\ MaxExpiries \in Nat

VARIABLES
  item,             \* the document
  item_revisions,   \* in order of insertion
  holder,           \* of the lock
  step, change, copy,   \* of each editor: how far, what it asks, what it read
  taskCopy,         \* what update_task_item read
  current,          \* open transactions that no write has outdated
  edits, expiries,
  \* history:
  lastValue, floor,   \* what was put last; highest release
  superseded,         \* versions left behind
  overrun           \* a lock was given while its last holder was still at work

editVars == <<item, item_revisions, holder, step, change, copy, taskCopy, current, edits,
              expiries, lastValue, floor, superseded, overrun>>

-----------------------------------------------------------------------------
EmptyField == 0   \* a field that is empty; otherwise the number of the edit that set it

StoredReleases == Releases \cup {NoRelease, Malformed}
Documents ==
  [version : Nat, release : StoredReleases, contents : [ItemFields -> Nat], progress : Nat]
Revisions == [version : Nat, release : StoredReleases, contents : [ItemFields -> Nat]]

NoCopy == [version |-> 0, release |-> NoRelease,
           contents |-> [x \in ItemFields |-> EmptyField], progress |-> 0]
NoChange == [fields |-> {}, value |-> EmptyField, release |-> Keep]

Changes(values) ==
  [fields : SUBSET ItemFields, value : values, release : StoredReleases \cup {Keep}]

ItemEditsInit ==
  /\ item \in {[NoCopy EXCEPT !.version = 1, !.release = r] : r \in StoredReleases}
  /\ item_revisions = <<>> /\ holder = Nobody
  /\ step = [e \in Editors |-> "idle"]
  /\ change = [e \in Editors |-> NoChange]
  /\ copy = [e \in Editors |-> NoCopy] /\ taskCopy = NoCopy
  /\ current = {} /\ edits = 0 /\ expiries = 0
  /\ lastValue = item.contents /\ floor = item.release
  /\ superseded = <<>> /\ overrun = FALSE

-----------------------------------------------------------------------------
LockIgnored == TRUE
LockFree == holder = Nobody

TakesLock(e) ==
  /\ step[e] = "idle" /\ LockFree /\ edits < MaxEdits
  /\ holder' = e /\ edits' = edits + 1
  /\ step' = [step EXCEPT ![e] = "locked"]
  /\ change' = [change EXCEPT ![e].value = edits + 1]
  /\ overrun' = (overrun \/ \E d \in Editors \ {holder} : step[d] # "idle")
  /\ UNCHANGED <<item, item_revisions, copy, taskCopy, current, expiries, lastValue, floor,
                 superseded>>

(* validate_version_transition: a release that is sent must be well formed   *)
(* and not below one the item has; clearing it is not checked.               *)
ReleaseParsed(c, i) == c.release # Malformed
ReleaseAllowed(c, i) ==
  /\ c.release # Malformed
  /\ c.release \in Releases /\ i.release \in Releases => i.release <= c.release

ReadsItem(e, c) ==
  /\ step[e] = "locked" /\ ReleaseAllowed(c, item)
  /\ step' = [step EXCEPT ![e] = "read"]
  /\ change' = [change EXCEPT ![e] = c]
  /\ copy' = [copy EXCEPT ![e] = item]
  /\ UNCHANGED <<item, item_revisions, holder, taskCopy, current, edits, expiries, lastValue,
                 floor, superseded, overrun>>

OpensEdit(e) ==
  /\ step[e] = "read"
  /\ step' = [step EXCEPT ![e] = "open"]
  /\ current' = current \cup {e}
  /\ UNCHANGED <<item, item_revisions, holder, change, copy, taskCopy, edits, expiries, lastValue,
                 floor, superseded, overrun>>

(* The lock is released, unless it has expired, and the request is answered. *)
EndsEdit(e) ==
  /\ step' = [step EXCEPT ![e] = "idle"]
  /\ change' = [change EXCEPT ![e] = NoChange]
  /\ copy' = [copy EXCEPT ![e] = NoCopy]
  /\ holder' = IF holder = e THEN Nobody ELSE holder

(* Refused, failed, or in conflict with a write since its transaction opened.*)
GivesUpEdit(e) ==
  /\ step[e] # "idle" /\ EndsEdit(e)
  /\ current' = current \ {e}
  /\ UNCHANGED <<item, item_revisions, taskCopy, edits, expiries, lastValue, floor, superseded,
                 overrun>>

-----------------------------------------------------------------------------
Put(c, contents) == [x \in ItemFields |-> IF x \in c.fields THEN c.value ELSE contents[x]]

(* check_differing_keys passes over a field that is sent empty.              *)
MakesVersion(c, i) ==
  \/ VersionFields = {}
  \/ \E x \in VersionFields \cap c.fields : c.value # EmptyField /\ c.value # i.contents[x]

(* The whole item as it was read, and the changes. *)
Edited(c, i) ==
  [version |-> IF MakesVersion(c, i) THEN i.version + 1 ELSE i.version,
   release |-> IF c.release = Keep THEN i.release ELSE c.release,
   contents |-> Put(c, i.contents),
   progress |-> i.progress]

Revision(i) == [version |-> i.version, release |-> i.release, contents |-> i.contents]
ArchivedAfter(c, i) ==
  IF MakesVersion(c, i) THEN Append(item_revisions, Revision(Edited(c, i))) ELSE item_revisions
Archived(c, i) ==
  IF MakesVersion(c, i) THEN Append(item_revisions, Revision(i)) ELSE item_revisions

Higher(r, s) == IF r \in Releases /\ s \in Releases /\ r > s THEN r ELSE s

CommitsEdit(e) ==
  /\ step[e] = "open" /\ e \in current /\ EndsEdit(e)
  /\ item' = Edited(change[e], copy[e])
  /\ item_revisions' = Archived(change[e], copy[e])
  /\ current' = {}
  /\ lastValue' = Put(change[e], lastValue)
  /\ floor' = IF change[e].release = Keep THEN floor
              ELSE IF change[e].release = NoRelease THEN NoRelease
              ELSE Higher(floor, change[e].release)
  /\ superseded' = IF MakesVersion(change[e], copy[e])
                   THEN Append(superseded, Revision(item)) ELSE superseded
  /\ UNCHANGED <<taskCopy, edits, expiries, overrun>>

(* lock_timeout=30, and nothing extends it. *)
LockExpires ==
  /\ holder # Nobody /\ expiries < MaxExpiries
  /\ holder' = Nobody /\ expiries' = expiries + 1
  /\ UNCHANGED <<item, item_revisions, step, change, copy, taskCopy, current, edits, lastValue,
                 floor, superseded, overrun>>

-----------------------------------------------------------------------------
(* What the queue's $inc and batch_update_tasks write in one step. *)
SystemWrites ==
  /\ item.progress < MaxProgress
  /\ item' = [item EXCEPT !.progress = item.progress + 1]
  /\ current' = {}
  /\ UNCHANGED <<item_revisions, holder, step, change, copy, taskCopy, edits, expiries, lastValue,
                 floor, superseded, overrun>>

(* update_task_item reads the task within its transaction and writes it back.*)
TaskReads ==
  /\ taskCopy = NoCopy /\ item.progress < MaxProgress
  /\ taskCopy' = item /\ current' = current \cup {Worker}
  /\ UNCHANGED <<item, item_revisions, holder, step, change, copy, edits, expiries, lastValue,
                 floor, superseded, overrun>>

TaskUnchecked == TRUE
TaskUnchanged == Worker \in current

TaskWrites ==
  /\ taskCopy # NoCopy /\ TaskUnchanged
  /\ item' = [taskCopy EXCEPT !.progress = taskCopy.progress + 1]
  /\ taskCopy' = NoCopy /\ current' = {}
  /\ UNCHANGED <<item_revisions, holder, step, change, copy, edits, expiries, lastValue, floor,
                 superseded, overrun>>

TaskGivesUp ==
  /\ taskCopy # NoCopy
  /\ taskCopy' = NoCopy /\ current' = current \ {Worker}
  /\ UNCHANGED <<item, item_revisions, holder, step, change, copy, edits, expiries, lastValue,
                 floor, superseded, overrun>>

-----------------------------------------------------------------------------
ItemEditsNext ==
  \/ \E e \in Editors :
       \/ TakesLock(e)
       \/ \E c \in Changes({EmptyField, change[e].value}) : ReadsItem(e, c)
       \/ OpensEdit(e)
       \/ GivesUpEdit(e)
       \/ CommitsEdit(e)
  \/ LockExpires
  \/ SystemWrites
  \/ TaskReads
  \/ TaskWrites
  \/ TaskGivesUp

ItemEditsSpec == ItemEditsInit /\ [][ItemEditsNext]_editVars

-----------------------------------------------------------------------------
(* Types. *)
ItemEditsTypeOK ==
  /\ item \in Documents /\ taskCopy \in Documents
  /\ item_revisions \in Seq(Revisions) /\ superseded \in Seq(Revisions)
  /\ holder \in Editors \cup {Nobody}
  /\ step \in [Editors -> {"idle", "locked", "read", "open"}]
  /\ copy \in [Editors -> Documents]
  /\ change \in [Editors -> Changes(Nat)]
  /\ current \subseteq Editors \cup {Worker} /\ edits \in Nat /\ expiries \in Nat
  /\ lastValue \in [ItemFields -> Nat]
  /\ floor \in StoredReleases /\ overrun \in BOOLEAN

(* Every field holds what the last edit of it that was answered put there:   *)
(* neither another edit nor a worker's write of the whole task takes it back.*)
EditsAreKept == item.contents = lastValue

(* The release is at least the highest one since it was last cleared.        *)
ReleaseNeverFalls ==
  floor \in Releases => item.release \in Releases /\ floor <= item.release

(* Each version the item has left is archived once, in order, with the       *)
(* contents the item had.                                                    *)
ArchiveIsTrue == item_revisions = superseded /\ Len(superseded) + 1 = item.version

(* As long as no lock has expired under an edit that another one then overran*)
EditsAreSound == ~overrun => EditsAreKept /\ ReleaseNeverFalls /\ ArchiveIsTrue

-----------------------------------------------------------------------------
=============================================================================
