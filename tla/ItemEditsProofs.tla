--------------------------- MODULE ItemEditsProofs ---------------------------
(* Theorems about ItemEdits, for any editors, fields, version fields and     *)
(* releases, whenever the lock expires and whatever the system writes.       *)
EXTENDS ItemEdits, SequenceTheorems, TLAPS

(* A transaction that no write has outdated is open, and the worker's has    *)
(* read what the item still is. The lock is held by a request at work.       *)
SnapshotsHold ==
  /\ \A e \in Editors : e \in current => step[e] = "open"
  /\ Worker \in current => taskCopy = item
  /\ holder # Nobody => step[holder] # "idle"

AtWork(e) == step[e] # "idle"

(* What an editor has read is what the item is, in all that a user writes.   *)
Agrees(e) ==
  step[e] \in {"read", "open"} =>
    /\ Revision(copy[e]) = Revision(item)
    /\ ReleaseAllowed(change[e], item)

OneAtATime ==
  /\ \A e, d \in Editors : AtWork(e) /\ AtWork(d) => e = d
  /\ \A e \in Editors : Agrees(e)

Sound == EditsAreKept /\ ReleaseNeverFalls /\ ArchiveIsTrue

EditInv ==
  /\ ItemEditsTypeOK
  /\ SnapshotsHold
  /\ ~overrun => OneAtATime /\ Sound

-----------------------------------------------------------------------------
(* Releases are numbers, other than the three marks.                         *)
LEMMA ReleasesAreNumbers ==
  ASSUME ItemEditsAssumption
  PROVE  /\ \A r \in Releases : r \in Nat
         /\ Keep \notin Releases /\ NoRelease \notin Releases /\ Malformed \notin Releases
<1>1. Keep \notin Nat /\ NoRelease \notin Nat /\ Malformed \notin Nat
  BY Zenon DEF ItemEditsAssumption
<1>. QED
  BY <1>1 DEF ItemEditsAssumption

(* The empty copy is a document, and no change is a change.                  *)
LEMMA CopyTypes == NoCopy \in Documents /\ NoChange \in Changes(Nat)
  BY DEF NoCopy, Documents, StoredReleases, NoChange, Changes, EmptyField

(* A change of fields keeps their type.                                      *)
LEMMA PutType ==
  ASSUME NEW c \in Changes(Nat), NEW contents \in [ItemFields -> Nat]
  PROVE  Put(c, contents) \in [ItemFields -> Nat]
  BY DEF Put, Changes

(* A document that is edited is a document.                                  *)
LEMMA EditedType ==
  ASSUME NEW c \in Changes(Nat), NEW i \in Documents
  PROVE  Edited(c, i) \in Documents
<1>1. Put(c, i.contents) \in [ItemFields -> Nat]
  BY PutType DEF Documents
<1>2. c.release = Keep \/ c.release \in StoredReleases
  BY DEF Changes
<1>. QED
  BY <1>1, <1>2 DEF Edited, Documents

(* So is one whose progress the worker counts up.                            *)
LEMMA ProgressType ==
  ASSUME NEW i \in Documents
  PROVE  [i EXCEPT !.progress = i.progress + 1] \in Documents
  BY DEF Documents

(* A change with another value is a change.                                  *)
LEMMA NumberedType ==
  ASSUME NEW c \in Changes(Nat), NEW n \in Nat
  PROVE  [c EXCEPT !.value = n] \in Changes(Nat)
  BY DEF Changes

(* What is archived of a document is a revision.                             *)
LEMMA RevisionType ==
  ASSUME NEW i \in Documents
  PROVE  Revision(i) \in Revisions
  BY DEF Revision, Revisions, Documents

(* Two documents archive as the same revision when these parts agree.        *)
LEMMA RevisionParts ==
  ASSUME NEW i \in Documents, NEW j \in Documents
  PROVE  Revision(i) = Revision(j)
         <=> i.version = j.version /\ i.release = j.release /\ i.contents = j.contents
<1>1. /\ Revision(i).version = i.version /\ Revision(i).release = i.release
      /\ Revision(i).contents = i.contents
      /\ Revision(j).version = j.version /\ Revision(j).release = j.release
      /\ Revision(j).contents = j.contents
  BY DEF Revision
<1>. QED
  BY <1>1 DEF Revision

-----------------------------------------------------------------------------
(* Types *)
LEMMA InitTypes ==
  ASSUME ItemEditsInit
  PROVE  ItemEditsTypeOK
<1>1. PICK r \in StoredReleases : item = [NoCopy EXCEPT !.version = 1, !.release = r]
  BY DEF ItemEditsInit
<1>2. item \in Documents
  BY <1>1, CopyTypes DEF Documents
<1>3. /\ item.contents \in [ItemFields -> Nat] /\ item.release \in StoredReleases
  BY <1>2 DEF Documents
<1>4. <<>> \in Seq(Revisions)
  OBVIOUS
<1>. QED
  BY <1>2, <1>3, <1>4, CopyTypes DEF ItemEditsInit, ItemEditsTypeOK

(* A request that ends preserves the types.                                  *)
LEMMA EndsTypes ==
  ASSUME ItemEditsTypeOK, NEW e \in Editors, EndsEdit(e)
  PROVE  /\ step' \in [Editors -> {"idle", "locked", "read", "open"}]
         /\ change' \in [Editors -> Changes(Nat)]
         /\ copy' \in [Editors -> Documents]
         /\ holder' \in Editors \cup {Nobody}
  BY CopyTypes DEF EndsEdit, ItemEditsTypeOK

(* So does one that commits.                                                 *)
LEMMA CommitTypes ==
  ASSUME ItemEditsTypeOK, NEW e \in Editors, CommitsEdit(e)
  PROVE  ItemEditsTypeOK'
<1>1. /\ change[e] \in Changes(Nat) /\ copy[e] \in Documents /\ item \in Documents
  BY DEF ItemEditsTypeOK
<1>2. item' \in Documents
  BY <1>1, EditedType DEF CommitsEdit
<1>3. Revision(copy[e]) \in Revisions /\ Revision(item) \in Revisions
  BY <1>1, RevisionType
<1>4. item_revisions' \in Seq(Revisions)
  <2>1. Append(item_revisions, Revision(copy[e])) \in Seq(Revisions)
    BY <1>3, AppendProperties DEF ItemEditsTypeOK
  <2>. QED
    BY <2>1 DEF CommitsEdit, Archived, ItemEditsTypeOK
<1>5. superseded' \in Seq(Revisions)
  <2>1. Append(superseded, Revision(item)) \in Seq(Revisions)
    BY <1>3, AppendProperties DEF ItemEditsTypeOK
  <2>. QED
    BY <2>1 DEF CommitsEdit, ItemEditsTypeOK
<1>6. lastValue' \in [ItemFields -> Nat]
  BY <1>1, PutType DEF CommitsEdit, ItemEditsTypeOK
<1>7. floor' \in StoredReleases
  <2>1. change[e].release \in StoredReleases \cup {Keep}
    BY <1>1 DEF Changes
  <2>. QED
    BY <2>1 DEF CommitsEdit, Higher, ItemEditsTypeOK, StoredReleases
<1>8. EndsEdit(e)
  BY DEF CommitsEdit
<1>. QED
  BY <1>2, <1>4, <1>5, <1>6, <1>7, <1>8, EndsTypes DEF CommitsEdit, ItemEditsTypeOK

(* So does every step.                                                       *)
LEMMA NextTypes ==
  ASSUME ItemEditsTypeOK, [ItemEditsNext]_editVars, ItemEditsAssumption
  PROVE  ItemEditsTypeOK'
<1>1. ASSUME NEW e \in Editors, TakesLock(e)
      PROVE  ItemEditsTypeOK'
  <2>1. change[e] \in Changes(Nat) /\ edits + 1 \in Nat
    BY DEF ItemEditsTypeOK
  <2>2. change' \in [Editors -> Changes(Nat)]
    BY <1>1, <2>1, NumberedType DEF TakesLock, ItemEditsTypeOK
  <2>. QED
    BY <1>1, <2>2 DEF TakesLock, ItemEditsTypeOK
<1>2. ASSUME NEW e \in Editors, NEW c \in Changes({EmptyField, change[e].value}), ReadsItem(e, c)
      PROVE  ItemEditsTypeOK'
  <2>1. c \in Changes(Nat)
    BY DEF Changes, ItemEditsTypeOK, EmptyField
  <2>. QED
    BY <1>2, <2>1 DEF ReadsItem, ItemEditsTypeOK
<1>3. ASSUME NEW e \in Editors, OpensEdit(e)
      PROVE  ItemEditsTypeOK'
  BY <1>3 DEF OpensEdit, ItemEditsTypeOK
<1>4. ASSUME NEW e \in Editors, GivesUpEdit(e)
      PROVE  ItemEditsTypeOK'
  BY <1>4, EndsTypes DEF GivesUpEdit, ItemEditsTypeOK
<1>5. ASSUME NEW e \in Editors, CommitsEdit(e)
      PROVE  ItemEditsTypeOK'
  BY <1>5, CommitTypes
<1>6. CASE LockExpires
  BY <1>6 DEF LockExpires, ItemEditsTypeOK
<1>7. CASE SystemWrites
  <2>1. [item EXCEPT !.progress = item.progress + 1] \in Documents
    BY ProgressType DEF ItemEditsTypeOK
  <2>. QED
    BY <1>7, <2>1 DEF SystemWrites, ItemEditsTypeOK
<1>8. CASE TaskReads
  BY <1>8 DEF TaskReads, ItemEditsTypeOK
<1>9. CASE TaskWrites
  <2>1. [taskCopy EXCEPT !.progress = taskCopy.progress + 1] \in Documents
    BY ProgressType DEF ItemEditsTypeOK
  <2>. QED
    BY <1>9, <2>1, CopyTypes DEF TaskWrites, ItemEditsTypeOK
<1>10. CASE TaskGivesUp
  BY <1>10, CopyTypes DEF TaskGivesUp, ItemEditsTypeOK
<1>11. CASE UNCHANGED editVars
  BY <1>11 DEF editVars, ItemEditsTypeOK
<1>. QED
  BY <1>1, <1>2, <1>3, <1>4, <1>5, <1>6, <1>7, <1>8, <1>9, <1>10, <1>11 DEF ItemEditsNext

-----------------------------------------------------------------------------
(* Snapshots *)
LEMMA InitSnapshots ==
  ASSUME ItemEditsInit
  PROVE  SnapshotsHold
  BY DEF ItemEditsInit, SnapshotsHold

(* Every step preserves what is known of the snapshots.                      *)
LEMMA NextSnapshots ==
  ASSUME EditInv, [ItemEditsNext]_editVars, ItemEditsAssumption, ItemEditsTypeOK'
  PROVE  SnapshotsHold'
<1>. USE DEF EditInv, ItemEditsTypeOK, SnapshotsHold
<1>1. ASSUME NEW e \in Editors, TakesLock(e)
      PROVE  SnapshotsHold'
  <2>1. /\ step' = [step EXCEPT ![e] = "locked"] /\ holder' = e /\ e \notin current
        /\ UNCHANGED <<current, taskCopy, item>>
    BY <1>1 DEF TakesLock
  <2>2. step'[e] = "locked" /\ \A d \in Editors : d # e => step'[d] = step[d]
    BY <2>1
  <2>. QED
    BY <2>1, <2>2
<1>2. ASSUME NEW e \in Editors, NEW c \in Changes({EmptyField, change[e].value}), ReadsItem(e, c)
      PROVE  SnapshotsHold'
  BY <1>2 DEF ReadsItem
<1>3. ASSUME NEW e \in Editors, OpensEdit(e)
      PROVE  SnapshotsHold'
  BY <1>3, ItemEditsAssumption DEF OpensEdit, ItemEditsAssumption
<1>4. ASSUME NEW e \in Editors, GivesUpEdit(e)
      PROVE  SnapshotsHold'
  BY <1>4, ItemEditsAssumption DEF GivesUpEdit, EndsEdit, ItemEditsAssumption
<1>5. ASSUME NEW e \in Editors, CommitsEdit(e)
      PROVE  SnapshotsHold'
  BY <1>5 DEF CommitsEdit, EndsEdit
<1>6. CASE LockExpires
  BY <1>6, ItemEditsAssumption DEF LockExpires, ItemEditsAssumption
<1>7. CASE SystemWrites
  BY <1>7 DEF SystemWrites, Documents
<1>8. CASE TaskReads
  BY <1>8, ItemEditsAssumption DEF TaskReads, ItemEditsAssumption
<1>9. CASE TaskWrites
  BY <1>9 DEF TaskWrites, TaskUnchanged, Documents
<1>10. CASE TaskGivesUp
  BY <1>10, ItemEditsAssumption DEF TaskGivesUp, ItemEditsAssumption
<1>11. CASE UNCHANGED editVars
  BY <1>11 DEF editVars
<1>. QED
  BY <1>1, <1>2, <1>3, <1>4, <1>5, <1>6, <1>7, <1>8, <1>9, <1>10, <1>11 DEF ItemEditsNext

-----------------------------------------------------------------------------
(* One editor at a time, and what a user writes *)
UserPartKept == item'.version = item.version /\ item'.release = item.release
                  /\ item'.contents = item.contents

(* A write of system fields. *)
LEMMA SystemLeavesUserPart ==
  ASSUME ItemEditsTypeOK, SnapshotsHold, SystemWrites \/ TaskWrites
  PROVE  UserPartKept
<1>1. item \in Documents /\ taskCopy \in Documents
  BY DEF ItemEditsTypeOK
<1>2. CASE SystemWrites
  BY <1>1, <1>2 DEF SystemWrites, UserPartKept, Documents
<1>3. CASE TaskWrites
  <2>1. taskCopy = item
    BY <1>3 DEF TaskWrites, TaskUnchanged, SnapshotsHold
  <2>. QED
    BY <1>1, <1>3, <2>1 DEF TaskWrites, UserPartKept, Documents
<1>. QED
  BY <1>2, <1>3

(* A step of no editor that keeps the user's part keeps the agreement.       *)
LEMMA AgreementLasts ==
  ASSUME ItemEditsTypeOK, OneAtATime, UserPartKept, UNCHANGED <<step, change, copy>>
  PROVE  OneAtATime'
<1>1. Revision(item)' = Revision(item)
  BY DEF Revision, UserPartKept
<1>2. ASSUME NEW e \in Editors, ReleaseAllowed(change[e], item)
      PROVE  ReleaseAllowed(change[e], item)'
  BY <1>2 DEF ReleaseAllowed, UserPartKept
<1>3. \A e \in Editors : Revision(copy[e])' = Revision(copy[e])
  BY DEF Revision
<1>4. ASSUME NEW e \in Editors
      PROVE  Agrees(e)'
  BY <1>1, <1>2, <1>3 DEF OneAtATime, Agrees
<1>5. ASSUME NEW e \in Editors, NEW d \in Editors, AtWork(e)', AtWork(d)'
      PROVE  e = d
  BY <1>5 DEF OneAtATime, AtWork
<1>. QED
  BY <1>4, <1>5 DEF OneAtATime

(* When the one editor at work ends, nobody is at work.                      *)
LEMMA AllIdleAgree ==
  ASSUME NEW e \in Editors, ItemEditsTypeOK, OneAtATime, AtWork(e), EndsEdit(e)
  PROVE  OneAtATime'
<1>1. \A d \in Editors : step'[d] = "idle"
  BY DEF OneAtATime, AtWork, EndsEdit, ItemEditsTypeOK
<1>. QED
  BY <1>1 DEF OneAtATime, AtWork, Agrees

(* While no lock expires, every step keeps the editors one at a time.        *)
LEMMA NextOneAtATime ==
  ASSUME EditInv, [ItemEditsNext]_editVars, ItemEditsAssumption, ~overrun'
  PROVE  OneAtATime'
<1>. USE DEF EditInv
<1>1. ASSUME NEW e \in Editors, TakesLock(e)
      PROVE  OneAtATime'
  <2>1. ~overrun /\ holder = Nobody
    BY <1>1 DEF TakesLock, LockFree
  <2>2. \A d \in Editors : step[d] = "idle"
    BY <1>1, <2>1, ItemEditsAssumption DEF TakesLock, ItemEditsAssumption
  <2>3. step'[e] = "locked" /\ \A d \in Editors : d # e => step'[d] = "idle"
    BY <1>1, <2>2 DEF TakesLock, ItemEditsTypeOK
  <2>. QED
    BY <2>3 DEF OneAtATime, AtWork, Agrees
<1>2. ASSUME NEW e \in Editors, NEW c \in Changes({EmptyField, change[e].value}), ReadsItem(e, c)
      PROVE  OneAtATime'
  <2>1. ~overrun /\ AtWork(e)
    BY <1>2 DEF ReadsItem, AtWork
  <2>2. \A d \in Editors : d # e => step'[d] = "idle"
    BY <1>2, <2>1 DEF OneAtATime, AtWork, ReadsItem, ItemEditsTypeOK
  <2>3. copy'[e] = item /\ change'[e] = c /\ item' = item
    BY <1>2 DEF ReadsItem, ItemEditsTypeOK
  <2>4. Agrees(e)'
    BY <1>2, <2>3 DEF Agrees, ReadsItem, Revision, ReleaseAllowed
  <2>. QED
    BY <2>2, <2>4 DEF OneAtATime, AtWork, Agrees
<1>3. ASSUME NEW e \in Editors, OpensEdit(e)
      PROVE  OneAtATime'
  <2>1. ~overrun /\ AtWork(e)
    BY <1>3 DEF OpensEdit, AtWork
  <2>2. \A d \in Editors : d # e => step'[d] = "idle"
    BY <1>3, <2>1 DEF OneAtATime, AtWork, OpensEdit, ItemEditsTypeOK
  <2>3. Agrees(e)'
    BY <1>3, <2>1 DEF OneAtATime, Agrees, OpensEdit, Revision, ReleaseAllowed
  <2>. QED
    BY <2>2, <2>3 DEF OneAtATime, AtWork, Agrees
<1>4. ASSUME NEW e \in Editors, GivesUpEdit(e)
      PROVE  OneAtATime'
  BY <1>4, AllIdleAgree DEF GivesUpEdit, AtWork
<1>5. ASSUME NEW e \in Editors, CommitsEdit(e)
      PROVE  OneAtATime'
  BY <1>5, AllIdleAgree DEF CommitsEdit, AtWork
<1>6. CASE LockExpires \/ TaskReads \/ TaskGivesUp \/ UNCHANGED editVars
  <2>1. ~overrun /\ UNCHANGED <<item, step, change, copy>>
    BY <1>6 DEF LockExpires, TaskReads, TaskGivesUp, editVars
  <2>. QED
    BY <2>1, AgreementLasts DEF UserPartKept
<1>7. CASE SystemWrites \/ TaskWrites
  <2>1. ~overrun /\ UNCHANGED <<step, change, copy>>
    BY <1>7 DEF SystemWrites, TaskWrites
  <2>. QED
    BY <1>7, <2>1, SystemLeavesUserPart, AgreementLasts
<1>. QED
  BY <1>1, <1>2, <1>3, <1>4, <1>5, <1>6, <1>7 DEF ItemEditsNext

-----------------------------------------------------------------------------
(* A commit is sound while no lock has expired.                              *)
LEMMA CommitSound ==
  ASSUME EditInv, ItemEditsAssumption, ~overrun, NEW e \in Editors, CommitsEdit(e)
  PROVE  Sound'
<1>. DEFINE c == change[e]
            i == copy[e]
<1>1. /\ c \in Changes(Nat) /\ i \in Documents /\ item \in Documents
      /\ superseded \in Seq(Revisions) /\ item_revisions \in Seq(Revisions)
      /\ lastValue \in [ItemFields -> Nat] /\ floor \in StoredReleases
  BY DEF EditInv, ItemEditsTypeOK
<1>2. Revision(i) = Revision(item) /\ ReleaseAllowed(c, item)
  BY DEF EditInv, OneAtATime, Agrees, CommitsEdit
<1>3. i.version = item.version /\ i.release = item.release /\ i.contents = item.contents
  BY <1>1, <1>2, RevisionParts
<1>4. item.contents = lastValue /\ ReleaseNeverFalls /\ ArchiveIsTrue
  BY DEF EditInv, Sound, EditsAreKept
<1>5. /\ item'.contents = Put(c, i.contents)
      /\ item'.release = IF c.release = Keep THEN i.release ELSE c.release
      /\ item'.version = IF MakesVersion(c, i) THEN i.version + 1 ELSE i.version
  BY DEF CommitsEdit, Edited
<1>6. EditsAreKept'
  BY <1>3, <1>4, <1>5 DEF CommitsEdit, EditsAreKept
<1>7. ReleaseNeverFalls'
  <2>. USE ReleasesAreNumbers, ItemEditsAssumption
  <2>1. CASE c.release = Keep
    BY <2>1, <1>3, <1>4, <1>5 DEF CommitsEdit, ReleaseNeverFalls
  <2>2. CASE c.release = NoRelease
    <3>1. floor' \notin Releases
      BY <2>2 DEF CommitsEdit, ItemEditsAssumption
    <3>. QED
      BY <3>1 DEF ReleaseNeverFalls
  <2>3. CASE c.release \in Releases
    <3>1. floor' = Higher(floor, c.release) /\ item'.release = c.release
      BY <2>3, <1>5 DEF CommitsEdit
    <3>2. /\ c.release \in Nat
          /\ floor \in Releases => floor \in Nat
          /\ item.release \in Releases => item.release \in Nat
      BY <2>3
    <3>3. floor \in Releases => floor <= c.release
      <4>. SUFFICES ASSUME floor \in Releases
                    PROVE  floor <= c.release
        OBVIOUS
      <4>1. item.release \in Releases /\ floor <= item.release
        BY <1>4 DEF ReleaseNeverFalls
      <4>2. item.release <= c.release
        BY <1>2, <2>3, <4>1 DEF ReleaseAllowed
      <4>. QED
        BY <4>1, <4>2, <3>2
    <3>4. floor' = c.release
      <4>1. ~(floor \in Releases /\ floor > c.release)
        BY <3>2, <3>3
      <4>. QED
        BY <3>1, <4>1 DEF Higher
    <3>. QED
      BY <3>1, <3>2, <3>4, <2>3 DEF ReleaseNeverFalls
  <2>4. c.release \in {Keep, NoRelease} \/ c.release \in Releases
    BY <1>1, <1>2 DEF Changes, StoredReleases, ReleaseAllowed
  <2>. QED
    BY <2>1, <2>2, <2>3, <2>4
<1>8. ArchiveIsTrue'
  <2>1. Revision(item) \in Revisions
    BY <1>1, RevisionType
  <2>2. CASE MakesVersion(c, i)
    <3>1. /\ item_revisions' = Append(item_revisions, Revision(i))
          /\ superseded' = Append(superseded, Revision(item))
          /\ item'.version = item.version + 1
      BY <2>2, <1>3, <1>5 DEF CommitsEdit, Archived
    <3>2. Len(superseded') = Len(superseded) + 1
      BY <3>1, <2>1, <1>1, AppendProperties
    <3>. QED
      BY <3>1, <3>2, <1>1, <1>2, <1>4 DEF ArchiveIsTrue
  <2>3. CASE ~MakesVersion(c, i)
    BY <2>3, <1>3, <1>4, <1>5 DEF CommitsEdit, Archived, ArchiveIsTrue
  <2>. QED
    BY <2>2, <2>3
<1>. QED
  BY <1>6, <1>7, <1>8 DEF Sound

(* So is every step.                                                         *)
LEMMA NextSound ==
  ASSUME EditInv, [ItemEditsNext]_editVars, ItemEditsAssumption, ~overrun'
  PROVE  Sound'
<1>1. ~overrun
  BY DEF ItemEditsNext, TakesLock, ReadsItem, OpensEdit, GivesUpEdit, CommitsEdit,
         LockExpires, SystemWrites, TaskReads, TaskWrites, TaskGivesUp, editVars
<1>2. Sound
  BY <1>1 DEF EditInv
<1>3. CASE \E e \in Editors : CommitsEdit(e)
  BY <1>1, <1>3, CommitSound
<1>4. CASE SystemWrites \/ TaskWrites
  <2>1. UserPartKept
    BY <1>4, SystemLeavesUserPart DEF EditInv
  <2>2. UNCHANGED <<item_revisions, superseded, lastValue, floor>>
    BY <1>4 DEF SystemWrites, TaskWrites
  <2>. QED
    BY <1>2, <2>1, <2>2
       DEF UserPartKept, Sound, EditsAreKept, ReleaseNeverFalls, ArchiveIsTrue
<1>5. CASE UNCHANGED <<item, item_revisions, superseded, lastValue, floor>>
  BY <1>2, <1>5 DEF Sound, EditsAreKept, ReleaseNeverFalls, ArchiveIsTrue
<1>6. \/ \E e \in Editors : CommitsEdit(e)
      \/ SystemWrites \/ TaskWrites
      \/ UNCHANGED <<item, item_revisions, superseded, lastValue, floor>>
  BY DEF ItemEditsNext, TakesLock, ReadsItem, OpensEdit, GivesUpEdit, LockExpires, TaskReads,
         TaskGivesUp, editVars
<1>. QED
  BY <1>3, <1>4, <1>5, <1>6

-----------------------------------------------------------------------------
(* The invariant holds at the start.                                         *)
LEMMA InitInv ==
  ASSUME ItemEditsInit, ItemEditsAssumption
  PROVE  EditInv
<1>1. ItemEditsTypeOK /\ SnapshotsHold
  BY InitTypes, InitSnapshots
<1>2. OneAtATime
  BY DEF ItemEditsInit, OneAtATime, AtWork, Agrees
<1>3. item.version = 1
  BY DEF ItemEditsInit, NoCopy
<1>4. Sound
  <2>1. EditsAreKept
    BY DEF EditsAreKept, ItemEditsInit
  <2>2. ReleaseNeverFalls
    <3>1. floor = item.release
      BY DEF ItemEditsInit
    <3>2. floor \in Releases => floor \in Nat
      BY ReleasesAreNumbers
    <3>. QED
      BY <3>1, <3>2 DEF ReleaseNeverFalls
  <2>3. ArchiveIsTrue
    <3>1. item_revisions = <<>> /\ superseded = <<>>
      BY DEF ItemEditsInit
    <3>2. Len(superseded) = 0
      BY <3>1
    <3>. QED
      BY <1>3, <3>1, <3>2 DEF ArchiveIsTrue
  <2>. QED
    BY <2>1, <2>2, <2>3 DEF Sound
<1>. QED
  BY <1>1, <1>2, <1>4 DEF EditInv

(* The type invariant, and with it all that the safety of edits rests on.    *)
THEOREM EditsInvariant == ItemEditsSpec => []EditInv
<1>1. ItemEditsInit => EditInv
  BY InitInv, ItemEditsAssumption
<1>2. EditInv /\ [ItemEditsNext]_editVars => EditInv'
  <2>. SUFFICES ASSUME EditInv, [ItemEditsNext]_editVars
                PROVE  EditInv'
    OBVIOUS
  <2>1. ItemEditsTypeOK'
    BY NextTypes, ItemEditsAssumption DEF EditInv
  <2>2. SnapshotsHold'
    BY <2>1, NextSnapshots, ItemEditsAssumption
  <2>3. ~overrun' => OneAtATime' /\ Sound'
    BY NextOneAtATime, NextSound, ItemEditsAssumption
  <2>. QED
    BY <2>1, <2>2, <2>3 DEF EditInv
<1>. QED
  BY <1>1, <1>2, PTL DEF ItemEditsSpec

(* Whatever the interleaving of editors, workers and queue operations: every *)
(* answered edit is kept, the release does not fall, and each version left   *)
(* is archived once as it was, unless the lock expired under an edit and was *)
(* given away.                                                               *)
THEOREM EditsAreSoundHolds == ItemEditsSpec => []EditsAreSound
<1>1. EditInv => EditsAreSound
  BY DEF EditInv, EditsAreSound, Sound
<1>. QED
  BY <1>1, EditsInvariant, PTL
=============================================================================
