--------------------------- MODULE CatalogTreeProofs ---------------------------
(* Proofs about CatalogTree, for any number of requests and items: no two    *)
(* items share a primary key and every past version is archived once; an     *)
(* item has one true parent, what is deleted can be found from the trash,    *)
(* and as long as requests do not overlap no link dangles and a restore      *)
(* spares what else is in the trash.                                         *)
EXTENDS CatalogTree, FiniteSetTheorems, WellFoundedInduction, TLAPS

\* What a request holds at each of its steps.
WellFormed(r) ==
  /\ r.step = "open" => r.snap \in Store
  /\ r.step \in {"locked", "found", "open"} /\ r.op = "create" =>
       r.parent \in Items /\ r.pk \in Pks
  /\ r.step = "linking" => r.parent \in Items /\ r.item \in Items
  /\ r.op \in {"delete", "purge", "restore"} => r.item \in Items
  /\ r.step \in {"locked", "found"} => r.op = "create"
  /\ r.step = "created" => r.item \in Items
  /\ r.step = "locked" => r.item = None

TypeInv == CatalogTypeOK /\ \A p \in Requests : WellFormed(req[p])

-----------------------------------------------------------------------------
(* Types.                                                                    *)

(* A request that is idle is well formed.                                    *)
LEMMA IdleType == ASSUME CatalogTypeOK PROVE Idle \in Request /\ WellFormed(Idle)
  BY CatalogAssumption DEF Idle, Request, WellFormed

(* What is stored now has the type of a snapshot.                            *)
LEMMA StoreType == ASSUME CatalogTypeOK PROVE Now \in Store
  BY DEF CatalogTypeOK, Now, Store

\* A commit that writes items to items and links to links keeps the types.
LEMMA CommitTypes ==
  ASSUME TypeInv, NEW p \in Requests, NEW W \in SUBSET Items,
         NEW ni \in [Items -> Item], NEW nl \in SUBSET Link,
         NEW next \in Request, WellFormed(next),
         Commit(p, W, ni, nl, next)
  PROVE  /\ items' \in [Items -> Item] /\ links' \subseteq Link
         /\ pkLock' \in [Pks -> Requests \cup {None}]
         /\ req' \in [Requests -> Request]
         /\ calls' \in Nat /\ overlapped' \in BOOLEAN
         /\ \A q \in Requests : WellFormed(req[q]')
<1> DEFINE removed == req[p].snap.links \ nl
<1>1. req[p].snap \in Store
  BY DEF TypeInv, Commit, WellFormed
<1>2. removed \subseteq Link
  BY <1>1 DEF Store
<1>3. items' \in [Items -> Item] /\ links' \subseteq Link
  BY DEF Commit, TypeInv, CatalogTypeOK
<1>4. pkLock' \in [Pks -> Requests \cup {None}]
  BY DEF Commit, TypeInv, CatalogTypeOK, Unlocked
<1>5. calls' \in Nat /\ overlapped' \in BOOLEAN
  BY DEF Commit, TypeInv, CatalogTypeOK
<1>6. \A q \in Requests : /\ req'[q] \in Request /\ WellFormed(req'[q])
  <2> TAKE q \in Requests
  <2>1. CASE q = p
    BY <2>1 DEF Commit
  <2>2. CASE q # p /\ req[q].step = "open"
    <3>1. req'[q] = [req[q] EXCEPT !.missed = @ \cup W \cup removed]
      BY <2>2 DEF Commit
    <3>2. req[q] \in Request /\ WellFormed(req[q])
      BY DEF TypeInv, CatalogTypeOK
    <3>. QED BY <3>1, <3>2, <1>2 DEF Request, WellFormed
  <2>3. CASE q # p /\ req[q].step # "open"
    <3>1. req'[q] = req[q]
      BY <2>3 DEF Commit
    <3>. QED BY <3>1 DEF TypeInv, CatalogTypeOK
  <2>. QED BY <2>1, <2>2, <2>3
<1>7. req' \in [Requests -> Request]
  <2>1. req' = [q \in Requests |-> req'[q]]
    BY DEF Commit
  <2>. QED BY <1>6, <2>1
<1>. QED BY <1>3, <1>4, <1>5, <1>6, <1>7

\* An arriving request only fills its own slot.
LEMMA ArriveTypes ==
  ASSUME TypeInv, NEW p \in Requests, NEW r \in Request, WellFormed(r),
         Arrive(p, r), pkLock' \in [Pks -> Requests \cup {None}]
  PROVE  TypeInv'
<1>1. req' \in [Requests -> Request] /\ \A q \in Requests : WellFormed(req'[q])
  BY DEF Arrive, TypeInv, CatalogTypeOK
<1>. QED BY <1>1 DEF Arrive, TypeInv, CatalogTypeOK, WellFormed

\* A step that changes only the request p serves.
LEMMA OwnStepTypes ==
  ASSUME TypeInv, NEW p \in Requests, NEW r \in Request, WellFormed(r),
         req' = [req EXCEPT ![p] = r],
         items' \in [Items -> Item], links' \subseteq Link,
         revisions' = revisions, calls' = calls, overlapped' = overlapped,
         pkLock' \in [Pks -> Requests \cup {None}]
  PROVE  TypeInv'
<1>1. req' \in [Requests -> Request] /\ \A q \in Requests : WellFormed(req'[q])
  BY DEF TypeInv, CatalogTypeOK
<1>. QED BY <1>1 DEF TypeInv, CatalogTypeOK, WellFormed

(* Giving up the locks of a request keeps their type.                        *)
LEMMA UnlockedType ==
  ASSUME TypeInv, NEW p \in Requests
  PROVE  Unlocked(p) \in [Pks -> Requests \cup {None}]
  BY DEF TypeInv, CatalogTypeOK, Unlocked

(* Giving some items another state keeps their type.                         *)
LEMMA WithStateType ==
  ASSUME TypeInv, NEW S, NEW state \in {"live", "deleted", "purged"}
  PROVE  WithState(S, state) \in [Items -> Item]
  BY DEF TypeInv, CatalogTypeOK, WithState, Item

\* A commit with unchanged revisions keeps the type invariant.
LEMMA CommitTypeInv ==
  ASSUME TypeInv, NEW p \in Requests, NEW W \in SUBSET Items,
         NEW ni \in [Items -> Item], NEW nl \in SUBSET Link,
         NEW next \in Request, WellFormed(next),
         Commit(p, W, ni, nl, next),
         revisions' \in [Items -> [1 .. MaxVersion -> Nat]]
  PROVE  TypeInv'
<1>1. \A q \in Requests : WellFormed(req'[q])
  BY CommitTypes DEF WellFormed
<1>. QED BY CommitTypes, <1>1 DEF TypeInv, CatalogTypeOK, WellFormed

(* The invariant of types holds at the start.                                *)
LEMMA TypeInvInit == CatalogInit => TypeInv
<1> SUFFICES ASSUME CatalogInit PROVE TypeInv
  OBVIOUS
<1>1. \A i \in Existing \ {Root} : HomeOf(i) \in Items
  BY CatalogAssumption DEF Existing, HomeOf
<1>2. items \in [Items -> Item]
  <2>1. ASSUME NEW i \in Items PROVE items[i] \in Item
    <3>1. CASE i \in Existing \ {Root}
      BY <1>1, <3>1, CatalogAssumption DEF CatalogInit, Item
    <3>2. CASE i \notin Existing \ {Root}
      BY <3>2, CatalogAssumption DEF CatalogInit, Item
    <3>. QED BY <3>1, <3>2
  <2>. QED BY <2>1 DEF CatalogInit
<1>3. links \subseteq Link
  <2>1. ASSUME NEW l \in links PROVE l \in Link
    <3>1. PICK i \in Existing \ {Root} :
            l = [parent |-> HomeOf(i), child |-> i, true |-> TRUE]
      BY <2>1 DEF CatalogInit
    <3>2. i \in Items
      BY CatalogAssumption DEF Existing
    <3>. QED BY <1>1, <3>1, <3>2 DEF Link
  <2>. QED BY <2>1
<1>4. revisions \in [Items -> [1 .. MaxVersion -> Nat]]
  BY DEF CatalogInit
<1>5. Idle \in Request /\ WellFormed(Idle)
  BY CatalogAssumption DEF Idle, Request, WellFormed
<1>6. \A p \in Requests : req[p] = Idle
  BY DEF CatalogInit
<1>7. req \in [Requests -> Request]
  BY <1>5 DEF CatalogInit
<1>8. CatalogTypeOK
  BY <1>2, <1>3, <1>4, <1>7 DEF CatalogInit, CatalogTypeOK
<1>. QED BY <1>5, <1>6, <1>8 DEF TypeInv
-----------------------------------------------------------------------------
(* Each action keeps the types.                                              *)

(* A request that starts preserves the types.                                *)
LEMMA AskTypes ==
  ASSUME TypeInv, NEW p \in Requests, Ask(p)
  PROVE  TypeInv'
<1>1. ASSUME NEW i \in Items, NEW parent \in Items,
             NEW holder \in Holders \cup {None}, LockPk(p, Pk[i], parent, holder)
      PROVE  TypeInv'
  <2> DEFINE r == [Idle EXCEPT !.step = "locked", !.op = "create", !.pk = Pk[i],
                               !.parent = parent, !.holder = holder]
  <2>1. r \in Request /\ WellFormed(r)
    <3>1. Pk[i] \in Pks
      BY DEF Pks
    <3>2. holder \in Items \cup {None}
      BY DEF Holders
    <3>3. Idle \in Request
      BY IdleType DEF TypeInv
    <3>4. r \in Request
      BY <3>1, <3>2, <3>3 DEF Request
    <3>5. /\ r.step = "locked" /\ r.op = "create" /\ r.item = None
          /\ r.pk = Pk[i] /\ r.parent = parent
      BY <3>3 DEF Request, Idle
    <3>. HIDE DEF r
    <3>. QED BY <3>1, <3>4, <3>5 DEF WellFormed
  <2>2. pkLock' \in [Pks -> Requests \cup {None}]
    BY <1>1 DEF LockPk, TypeInv, CatalogTypeOK
  <2>3. Arrive(p, r)
    BY <1>1 DEF LockPk
  <2>. HIDE DEF r
  <2>. QED BY <2>1, <2>2, <2>3, ArriveTypes
<1>2. ASSUME NEW parent \in Items, NEW child \in Items, CheckLink(p, parent, child)
      PROVE  TypeInv'
  <2> DEFINE r == [Idle EXCEPT !.step = "linking", !.op = "link",
                               !.item = child, !.parent = parent]
  <2>1. r \in Request /\ WellFormed(r)
    <3>1. Idle \in Request
      BY IdleType DEF TypeInv
    <3>2. r \in Request
      BY <3>1 DEF Request
    <3>3. r.step = "linking" /\ r.op = "link" /\ r.item = child /\ r.parent = parent
      BY <3>1 DEF Request
    <3>. HIDE DEF r
    <3>. QED BY <3>2, <3>3 DEF WellFormed
  <2>2. pkLock' \in [Pks -> Requests \cup {None}]
    BY <1>2 DEF CheckLink, TypeInv, CatalogTypeOK
  <2>3. Arrive(p, r)
    BY <1>2 DEF CheckLink
  <2>. HIDE DEF r
  <2>. QED BY <2>1, <2>2, <2>3, ArriveTypes
<1>3. ASSUME NEW op \in {"delete", "purge", "restore"}, NEW parent \in Items \cup {None},
             NEW i \in Items, Begin(p, op, parent, i)
      PROVE  TypeInv'
  <2> DEFINE r == [Idle EXCEPT !.step = "open", !.op = op, !.item = i,
                               !.parent = parent, !.snap = Now]
  <2>1. r \in Request /\ WellFormed(r)
    <3>1. Now \in Store
      BY StoreType DEF TypeInv
    <3>2. Idle \in Request
      BY IdleType DEF TypeInv
    <3>3. r \in Request
      BY <3>1, <3>2 DEF Request
    <3>4. r.step = "open" /\ r.op = op /\ r.item = i /\ r.snap = Now
      BY <3>2 DEF Request
    <3>. HIDE DEF r
    <3>. QED BY <3>1, <3>3, <3>4 DEF WellFormed
  <2>2. pkLock' \in [Pks -> Requests \cup {None}]
    BY <1>3 DEF Begin, TypeInv, CatalogTypeOK
  <2>3. Arrive(p, r)
    BY <1>3 DEF Begin
  <2>. HIDE DEF r
  <2>. QED BY <2>1, <2>2, <2>3, ArriveTypes
<1>4. ASSUME NEW l \in links, NEW hard \in BOOLEAN, BeginDelete(p, l, hard)
      PROVE  TypeInv'
  <2>1. l.parent \in Items /\ l.child \in Items
    BY DEF TypeInv, CatalogTypeOK, Link
  <2>2. CASE hard
    BY <1>3, <1>4, <2>1, <2>2 DEF BeginDelete
  <2>3. CASE ~hard
    BY <1>3, <1>4, <2>1, <2>3 DEF BeginDelete
  <2>. QED BY <2>2, <2>3
<1>5. ASSUME NEW i \in Items, BeginRestore(p, i)
      PROVE  TypeInv'
  BY <1>3, <1>5 DEF BeginRestore
<1>. QED BY <1>1, <1>2, <1>4, <1>5 DEF Ask

(* So does every step of a request that changes no document.                 *)
LEMMA StepTypes ==
  ASSUME TypeInv, NEW p \in Requests,
         \/ FindExisting(p) \/ OpenTransaction(p) \/ InsertLink(p) \/ GiveUp(p)
         \/ \E t \in Items : FindParentTask(p, t)
  PROVE  TypeInv'
<1>0. /\ req[p] \in Request /\ WellFormed(req[p]) /\ req \in [Requests -> Request]
      /\ items \in [Items -> Item] /\ links \subseteq Link
      /\ pkLock \in [Pks -> Requests \cup {None}]
  BY DEF TypeInv, CatalogTypeOK
<1>1. CASE FindExisting(p)
  <2>1. ASSUME NEW i \in Items,
               req' = [req EXCEPT ![p].step = "found", ![p].item = i,
                                  ![p].seen = items[i].version]
        PROVE  TypeInv'
    <3>1. items[i].version \in 0 .. MaxVersion
      BY <1>0 DEF Item
    <3> DEFINE r == [req[p] EXCEPT !.step = "found", !.item = i,
                                   !.seen = items[i].version]
    <3>2. req' = [req EXCEPT ![p] = r]
      BY <1>0, <2>1
    <3>3. r \in Request /\ WellFormed(r)
      BY <1>0, <1>1, <3>1 DEF Request, WellFormed, FindExisting
    <3>. HIDE DEF r
    <3>. QED BY <1>0, <1>1, <3>2, <3>3, OwnStepTypes DEF FindExisting
  <2>2. ASSUME req' = [req EXCEPT ![p].step = "found"]
        PROVE  TypeInv'
    <3> DEFINE r == [req[p] EXCEPT !.step = "found"]
    <3>1. req' = [req EXCEPT ![p] = r]
      BY <1>0, <2>2
    <3>2. r \in Request /\ WellFormed(r)
      BY <1>0, <1>1 DEF Request, WellFormed, FindExisting
    <3>. HIDE DEF r
    <3>. QED BY <1>0, <1>1, <3>1, <3>2, OwnStepTypes DEF FindExisting
  <2>. QED BY <1>1, <2>1, <2>2 DEF FindExisting
<1>2. CASE OpenTransaction(p)
  <2> DEFINE r == [req[p] EXCEPT !.step = "open", !.snap = Now]
  <2>1. req' = [req EXCEPT ![p] = r]
    BY <1>0, <1>2 DEF OpenTransaction
  <2>2. r \in Request /\ WellFormed(r)
    BY <1>0, <1>2, StoreType DEF Request, WellFormed, OpenTransaction, TypeInv
  <2>. HIDE DEF r
  <2>. QED BY <1>0, <1>2, <2>1, <2>2, OwnStepTypes DEF OpenTransaction
<1>3. CASE InsertLink(p)
  <2>1. [parent |-> req[p].parent, child |-> req[p].item, true |-> FALSE] \in Link
    BY <1>0, <1>3 DEF InsertLink, WellFormed, Link
  <2>2. links' \subseteq Link
    BY <1>0, <1>3, <2>1 DEF InsertLink
  <2>. QED BY <1>0, <1>3, <2>2, IdleType, UnlockedType, OwnStepTypes DEF InsertLink, TypeInv
<1>4. CASE GiveUp(p)
  BY <1>0, <1>4, IdleType, UnlockedType, OwnStepTypes DEF GiveUp, TypeInv
<1>5. ASSUME NEW t \in Items, FindParentTask(p, t)
      PROVE  TypeInv'
  <2> DEFINE r == [req[p] EXCEPT !.step = "linking", !.parent = t]
  <2>1. req' = [req EXCEPT ![p] = r]
    BY <1>0, <1>5 DEF FindParentTask
  <2>2. r \in Request /\ WellFormed(r)
    BY <1>0, <1>5 DEF Request, WellFormed, FindParentTask
  <2>. HIDE DEF r
  <2>. QED BY <1>0, <1>5, <2>1, <2>2, OwnStepTypes DEF FindParentTask
<1>. QED BY <1>1, <1>2, <1>3, <1>4, <1>5

(* Counting one up keeps the type of the counters.                           *)
LEMMA CountUpType ==
  ASSUME NEW S, NEW f \in [S -> Nat], NEW v
  PROVE  [f EXCEPT ![v] = @ + 1] \in [S -> Nat]
<1>1. CASE v \in S
  BY <1>1
<1>2. CASE v \notin S
  BY <1>2
<1>. QED BY <1>1, <1>2

(* So does every step that commits.                                          *)
LEMMA CommitActionTypes ==
  ASSUME TypeInv, NEW p \in Requests,
         \/ \E versioned \in BOOLEAN : UpdateExisting(p, versioned)
         \/ \E i \in Items : CreateItem(p, i)
         \/ HardDelete(p) \/ SoftDelete(p) \/ Unlink(p) \/ Restore(p)
  PROVE  TypeInv'
<1>0. /\ req[p] \in Request /\ WellFormed(req[p]) /\ items \in [Items -> Item]
      /\ revisions \in [Items -> [1 .. MaxVersion -> Nat]]
      /\ Idle \in Request /\ WellFormed(Idle)
  BY IdleType DEF TypeInv, CatalogTypeOK
<1> DEFINE snap == req[p].snap
<1>a. req[p].step = "open" => snap.links \subseteq Link /\ snap \in Store
  BY <1>0 DEF WellFormed, Store
<1>1. ASSUME NEW versioned \in BOOLEAN, UpdateExisting(p, versioned)
      PROVE  TypeInv'
  <2> DEFINE i == req[p].item
             seen == req[p].seen
             version == IF versioned THEN seen + 1 ELSE seen
             W == {i} \cap {j \in Items : Exists(snap, j)}
             ni == [items EXCEPT ![i].state = "live", ![i].version = version]
  <2>1. i \in Items /\ version \in 0 .. MaxVersion /\ W \in SUBSET Items
    BY <1>0, <1>1, CatalogAssumption DEF UpdateExisting, Request
  <2>2. ni \in [Items -> Item]
    <3>1. [items[i] EXCEPT !.state = "live", !.version = version] \in Item
      BY <1>0, <2>1 DEF Item
    <3>2. ni = [items EXCEPT ![i] = [items[i] EXCEPT !.state = "live",
                                                     !.version = version]]
      BY <1>0, <2>1
    <3>. HIDE DEF version
    <3>. QED BY <1>0, <2>1, <3>1, <3>2
  <2>3. Commit(p, W, ni, snap.links, Idle)
    BY <1>1 DEF UpdateExisting
  <2>4. revisions' \in [Items -> [1 .. MaxVersion -> Nat]]
    <3>1. CASE versioned
      <4>1. revisions' = [revisions EXCEPT ![i] = [revisions[i] EXCEPT ![seen] = @ + 1]]
        BY <1>1, <3>1 DEF UpdateExisting
      <4>2. [revisions[i] EXCEPT ![seen] = @ + 1] \in [1 .. MaxVersion -> Nat]
        <5>1. revisions[i] \in [1 .. MaxVersion -> Nat]
          BY <1>0, <2>1
        <5>. QED BY <5>1, CountUpType
      <4>. QED BY <1>0, <4>1, <4>2
    <3>2. CASE ~versioned
      BY <1>0, <1>1, <3>2 DEF UpdateExisting
    <3>. QED BY <3>1, <3>2
  <2>5. req[p].step = "open"
    BY <2>3 DEF Commit
  <2>. HIDE DEF W, ni, snap
  <2>. QED BY <1>0, <1>a, <2>1, <2>2, <2>3, <2>4, <2>5, CommitTypeInv
<1>2. ASSUME NEW i \in Items, CreateItem(p, i)
      PROVE  TypeInv'
  <2> DEFINE r == req[p]
             new == [state |-> "live", version |-> 1, parent |-> r.parent]
             ni == [items EXCEPT ![i] = new]
             true == [parent |-> r.parent, child |-> i, true |-> TRUE]
             soft == IF r.holder = None THEN {}
                     ELSE {[parent |-> r.holder, child |-> i, true |-> FALSE]}
             nl == snap.links \cup {true} \cup soft
             after == [Idle EXCEPT !.step = "created", !.op = "create", !.item = i]
             next == IF Kind[i] = "task" THEN after ELSE Idle
  <2>1. r.step = "open" /\ r.parent \in Items /\ r.holder \in Items \cup {None}
    BY <1>0, <1>2 DEF CreateItem, WellFormed, Request
  <2>2. ni \in [Items -> Item]
    BY <1>0, <2>1, CatalogAssumption DEF Item
  <2>3. nl \in SUBSET Link
    <3>1. true \in Link
      BY <2>1 DEF Link
    <3>2. soft \subseteq Link
      <4>1. CASE r.holder = None
        BY <4>1
      <4>2. CASE r.holder # None
        <5>1. [parent |-> r.holder, child |-> i, true |-> FALSE] \in Link
          BY <2>1, <4>2 DEF Link
        <5>. QED BY <4>2, <5>1
      <4>. QED BY <4>1, <4>2
    <3>. HIDE DEF true, soft
    <3>. QED BY <1>a, <2>1, <3>1, <3>2
  <2>4. next \in Request /\ WellFormed(next)
    <3>1. after \in Request
      BY <1>0 DEF Request
    <3>2. after.step = "created" /\ after.op = "create" /\ after.item = i
      BY <1>0 DEF Request
    <3>. HIDE DEF after
    <3>3. WellFormed(after)
      BY <3>2 DEF WellFormed
    <3>. QED BY <1>0, <3>1, <3>3
  <2>5. Commit(p, {i}, ni, nl, next)
    BY <1>2 DEF CreateItem
  <2>6. revisions' \in [Items -> [1 .. MaxVersion -> Nat]]
    BY <1>0, <1>2 DEF CreateItem
  <2>. HIDE DEF ni, nl, next
  <2>. QED BY <2>2, <2>3, <2>4, <2>5, <2>6, CommitTypeInv
<1>3. ASSUME NEW W \in SUBSET Items, NEW state \in {"live", "deleted", "purged"},
             NEW ni, ni = items \/ ni = WithState(W, state),
             NEW nl \in SUBSET Link, Commit(p, W, ni, nl, Idle),
             revisions' = revisions
      PROVE  TypeInv'
  <2>1. ni \in [Items -> Item]
    BY <1>0, <1>3, WithStateType
  <2>. QED BY <1>0, <1>3, <2>1, CommitTypeInv
<1>b. \A S : Present(p, S) \in SUBSET Items
  BY DEF Present
<1>4. CASE HardDelete(p)
  <2> DEFINE W == Present(p, Children(TrueLinks(LinksBelow(snap.links, req[p].item)))
                             \cup {req[p].item})
             nl == snap.links \ Doomed(snap.links, req[p].item)
  <2>1. Commit(p, W, WithState(W, "purged"), nl, Idle) /\ revisions' = revisions
    BY <1>4 DEF HardDelete
  <2>2. nl \in SUBSET Link /\ W \in SUBSET Items
    BY <1>a, <1>b, <2>1 DEF Commit
  <2>. HIDE DEF W, nl
  <2>. QED BY <1>3, <2>1, <2>2
<1>5. CASE SoftDelete(p)
  <2> DEFINE S == TrueBelow(snap.links, req[p].item) \cup {req[p].item}
             W == Present(p, S)
  <2>1. PICK l \in TrueLinks(Between(snap.links, req[p].parent, req[p].item)) :
          Commit(p, W, WithState(W, "deleted"), Trashed(snap.links, l, S), Idle)
    BY <1>5 DEF SoftDelete
  <2>2. req[p].step = "open" /\ snap.links \subseteq Link
    BY <1>a, <2>1 DEF Commit
  <2>3. l \in Link
    BY <2>2 DEF TrueLinks, Between
  <2>4. [parent |-> Trash, child |-> l.child, true |-> TRUE] \in Link
    BY <2>3, CatalogAssumption DEF Link
  <2>5. Trashed(snap.links, l, S) \in SUBSET Link
    BY <2>2, <2>4 DEF Trashed
  <2>6. revisions' = revisions
    BY <1>5 DEF SoftDelete
  <2>. HIDE DEF W, S
  <2>. QED BY <1>3, <1>b, <2>1, <2>5, <2>6 DEF W
<1>6. CASE Unlink(p)
  <2>1. PICK l : Commit(p, {}, items, snap.links \ {l}, Idle) /\ revisions' = revisions
    BY <1>6 DEF Unlink
  <2>2. snap.links \ {l} \in SUBSET Link
    BY <1>a, <2>1 DEF Commit
  <2>. QED BY <1>3, <2>1, <2>2
<1>7. CASE Restore(p)
  <2> DEFINE home == snap.items[req[p].item].parent
             W == Present(p, TrueBelow(snap.links, req[p].item) \cup {req[p].item})
             back == [parent |-> home, child |-> req[p].item, true |-> TRUE]
  <2>1. PICK l : Commit(p, W, WithState(W, "live"), (snap.links \ {l}) \cup {back}, Idle)
    BY <1>7 DEF Restore
  <2>2. req[p].step = "open" /\ snap \in Store /\ req[p].item \in Items
    BY <1>0, <1>7, <1>a, <2>1 DEF Commit, Restore, WellFormed
  <2>3. home \in Items
    BY <1>7, <2>2 DEF Restore, Store, Item
  <2>4. back \in Link
    BY <2>2, <2>3 DEF Link
  <2>5. (snap.links \ {l}) \cup {back} \in SUBSET Link /\ revisions' = revisions
    BY <1>7, <1>a, <2>2, <2>4 DEF Restore
  <2>. HIDE DEF W, back
  <2>. QED BY <1>3, <1>b, <2>1, <2>5 DEF W
<1>. QED BY <1>1, <1>2, <1>4, <1>5, <1>6, <1>7

(* So every step preserves the types.                                        *)
LEMMA TypeInvNext == TypeInv /\ [CatalogNext]_catalogVars => TypeInv'
<1> SUFFICES ASSUME TypeInv, [CatalogNext]_catalogVars PROVE TypeInv'
  OBVIOUS
<1>1. CASE UNCHANGED catalogVars
  BY <1>1 DEF catalogVars, TypeInv, CatalogTypeOK, WellFormed
<1>2. ASSUME NEW p \in Requests, Ask(p) \/ Serve(p) PROVE TypeInv'
  BY <1>2, AskTypes, StepTypes, CommitActionTypes DEF Serve
<1>. QED BY <1>1, <1>2 DEF CatalogNext

\* Every request leaves the collections, the locks and itself well typed.
THEOREM CatalogTypesHold == CatalogSpec => []CatalogTypeOK
<1>1. CatalogSpec => []TypeInv
  BY TypeInvInit, TypeInvNext, PTL DEF CatalogSpec
<1>2. TypeInv => CatalogTypeOK
  BY DEF TypeInv
<1>. QED BY <1>1, <1>2, PTL
-----------------------------------------------------------------------------
(* Primary keys. A create holds the lock of its key from before it looks     *)
(* until it ends, so what it found stays true; a snapshot is current for     *)
(* every item whose writes the transaction has not missed, so that no commit *)
(* revives an item that is gone.                                             *)

Creating(p, steps) == req[p].op = "create" /\ req[p].step \in steps

LockHeld ==
  \A p \in Requests :
    Creating(p, {"locked", "found", "open"}) => pkLock[req[p].pk] = p
KeyFree ==
  \A p \in Requests : Creating(p, {"found", "open"}) /\ req[p].item = None =>
    \A i \in Items : Pk[i] = req[p].pk => ~Exists(Now, i)
SnapshotCurrent ==
  \A p \in Requests : req[p].step = "open" =>
    \A i \in Items : i \notin req[p].missed => req[p].snap.items[i] = items[i]

KeyInv == TypeInv /\ LockHeld /\ KeyFree /\ SnapshotCurrent /\ OneItemPerKey

\* What a commit of p leaves of another request.
LEMMA OthersKept ==
  ASSUME TypeInv, NEW p \in Requests, NEW q \in Requests, q # p,
         NEW W, NEW ni, NEW nl, NEW next, Commit(p, W, ni, nl, next)
  PROVE  /\ req'[q].op = req[q].op /\ req'[q].step = req[q].step
         /\ req'[q].pk = req[q].pk /\ req'[q].item = req[q].item
         /\ req'[q].seen = req[q].seen /\ req'[q].snap = req[q].snap
         /\ req[q].step = "open" => req[q].missed \subseteq req'[q].missed
                                    /\ W \subseteq req'[q].missed
<1>1. req[q] \in Request
  BY DEF TypeInv, CatalogTypeOK
<1>2. CASE req[q].step = "open"
  <2> DEFINE removed == req[p].snap.links \ nl
  <2>1. req'[q] = [req[q] EXCEPT !.missed = @ \cup W \cup removed]
    BY <1>2 DEF Commit
  <2>. HIDE DEF removed
  <2>. QED BY <1>1, <2>1 DEF Request
<1>3. CASE req[q].step # "open"
  BY <1>3 DEF Commit
<1>. QED BY <1>2, <1>3

\* A commit that gives no item a life it did not have keeps the invariant.
LEMMA CommitKeyInv ==
  ASSUME KeyInv, TypeInv', NEW p \in Requests, NEW W \in SUBSET Items, NEW ni, NEW nl,
         Commit(p, W, ni, nl, Idle),
         \A i \in W : Exists(req[p].snap, i)
  PROVE  KeyInv'
<1>0. TypeInv /\ req'[p] = Idle
  BY DEF KeyInv, Commit
<1>1. \A i \in Items : Exists(Now, i)' => Exists(Now, i)
  <2> TAKE i \in Items
  <2>1. CASE i \in W
    <3>1. i \notin req[p].missed /\ req[p].step = "open"
      BY <2>1 DEF Commit
    <3>2. req[p].snap.items[i] = items[i]
      BY <3>1 DEF KeyInv, SnapshotCurrent
    <3>. QED BY <2>1, <3>2 DEF Exists, Now
  <2>2. CASE i \notin W
    BY <2>2 DEF Commit, Exists, Now
  <2>. QED BY <2>1, <2>2
<1>2. OneItemPerKey'
  BY <1>1 DEF KeyInv, OneItemPerKey
<1>3. LockHeld'
  <2> SUFFICES ASSUME NEW q \in Requests, Creating(q, {"locked", "found", "open"})'
               PROVE  pkLock'[req'[q].pk] = q
    BY DEF LockHeld
  <2>1. q # p
    BY <1>0 DEF Creating, Idle
  <2>2. req'[q].pk = req[q].pk /\ Creating(q, {"locked", "found", "open"})
    BY <1>0, <2>1, OthersKept DEF Creating
  <2>3. pkLock[req[q].pk] = q /\ req[q].pk \in Pks
    BY <2>2 DEF KeyInv, LockHeld, TypeInv, WellFormed, Creating
  <2>. QED BY <2>1, <2>2, <2>3 DEF Commit, Unlocked
<1>4. KeyFree'
  <2> SUFFICES ASSUME NEW q \in Requests, Creating(q, {"found", "open"})',
                      req'[q].item = None, NEW i \in Items, Pk[i] = req'[q].pk
               PROVE  ~Exists(Now, i)'
    BY DEF KeyFree
  <2>1. q # p
    BY <1>0 DEF Creating, Idle
  <2>2. req'[q].pk = req[q].pk /\ req[q].item = None /\ Creating(q, {"found", "open"})
    BY <1>0, <2>1, OthersKept DEF Creating
  <2>. QED BY <1>1, <2>2 DEF KeyInv, KeyFree
<1>5. SnapshotCurrent'
  <2> SUFFICES ASSUME NEW q \in Requests, req'[q].step = "open",
                      NEW i \in Items, i \notin req'[q].missed
               PROVE  req'[q].snap.items[i] = items'[i]
    BY DEF SnapshotCurrent
  <2>1. q # p
    BY <1>0 DEF Idle
  <2>2. /\ req'[q].snap = req[q].snap /\ req[q].step = "open"
        /\ i \notin req[q].missed /\ i \notin W
    BY <1>0, <2>1, OthersKept
  <2>. QED BY <2>2 DEF KeyInv, SnapshotCurrent, Commit
<1>. QED BY <1>2, <1>3, <1>4, <1>5 DEF KeyInv
\* A create of a new item: the key it creates is free and its lock is held.
LEMMA CreateItemKeyInv ==
  ASSUME KeyInv, TypeInv', NEW p \in Requests, NEW i \in Items, CreateItem(p, i)
  PROVE  KeyInv'
<1> DEFINE r == req[p]
           new == [state |-> "live", version |-> 1, parent |-> r.parent]
           ni == [items EXCEPT ![i] = new]
           nl == r.snap.links \cup {[parent |-> r.parent, child |-> i, true |-> TRUE]}
                  \cup (IF r.holder = None THEN {}
                        ELSE {[parent |-> r.holder, child |-> i, true |-> FALSE]})
           after == [Idle EXCEPT !.step = "created", !.op = "create", !.item = i]
           next == IF Kind[i] = "task" THEN after ELSE Idle
<1>0. TypeInv /\ Idle \in Request
  BY IdleType DEF KeyInv, TypeInv
<1>1. Commit(p, {i}, ni, nl, next)
  BY DEF CreateItem
<1>2. next.step \in {"created", "idle"}
  BY <1>0 DEF Request, Idle
<1>3. Creating(p, {"found", "open"}) /\ r.item = None /\ Pk[i] = r.pk
  BY <1>1 DEF CreateItem, Commit, Creating
<1>. HIDE DEF next, nl, ni
<1>4. req'[p] = next
  BY <1>1 DEF Commit
<1>5. \A j \in Items : j # i /\ Exists(Now, j)' => Exists(Now, j)
  BY <1>1 DEF Commit, Exists, Now
<1>6. \A j \in Items : Pk[j] = Pk[i] => ~Exists(Now, j)
  BY <1>3 DEF KeyInv, KeyFree
<1>7. OneItemPerKey'
  BY <1>5, <1>6 DEF KeyInv, OneItemPerKey
<1>8. ASSUME NEW q \in Requests, q # p, Creating(q, {"locked", "found", "open"})
      PROVE  req[q].pk \in Pks /\ pkLock[req[q].pk] = q /\ req[q].pk # r.pk
  <2>1. req[q].pk \in Pks /\ pkLock[req[q].pk] = q
    BY <1>8 DEF KeyInv, LockHeld, TypeInv, WellFormed, Creating
  <2>2. pkLock[r.pk] = p
    BY <1>3 DEF KeyInv, LockHeld, Creating
  <2>. QED BY <1>8, <2>1, <2>2
<1>9. LockHeld'
  <2> SUFFICES ASSUME NEW q \in Requests, Creating(q, {"locked", "found", "open"})'
               PROVE  pkLock'[req'[q].pk] = q
    BY DEF LockHeld
  <2>1. q # p
    BY <1>2, <1>4 DEF Creating
  <2>2. req'[q].pk = req[q].pk /\ Creating(q, {"locked", "found", "open"})
    BY <1>0, <1>1, <2>1, OthersKept DEF Creating
  <2>. QED BY <1>1, <1>8, <2>1, <2>2 DEF Commit, Unlocked
<1>10. KeyFree'
  <2> SUFFICES ASSUME NEW q \in Requests, Creating(q, {"found", "open"})',
                      req'[q].item = None, NEW j \in Items, Pk[j] = req'[q].pk
               PROVE  ~Exists(Now, j)'
    BY DEF KeyFree
  <2>1. q # p
    BY <1>2, <1>4 DEF Creating
  <2>2. req'[q].pk = req[q].pk /\ req[q].item = None /\ Creating(q, {"found", "open"})
    BY <1>0, <1>1, <2>1, OthersKept DEF Creating
  <2>3. Pk[j] # Pk[i]
    BY <1>3, <1>8, <2>1, <2>2 DEF Creating
  <2>. QED BY <1>5, <2>2, <2>3 DEF KeyInv, KeyFree
<1>11. SnapshotCurrent'
  <2> SUFFICES ASSUME NEW q \in Requests, req'[q].step = "open",
                      NEW j \in Items, j \notin req'[q].missed
               PROVE  req'[q].snap.items[j] = items'[j]
    BY DEF SnapshotCurrent
  <2>1. q # p
    BY <1>2, <1>4
  <2>2. /\ req'[q].snap = req[q].snap /\ req[q].step = "open"
        /\ j \notin req[q].missed /\ j # i
    BY <1>0, <1>1, <2>1, OthersKept
  <2>. QED BY <1>1, <2>2 DEF KeyInv, SnapshotCurrent, Commit
<1>. QED BY <1>7, <1>9, <1>10, <1>11 DEF KeyInv

\* A request that only looks, waits or ends: items stay as they are.
LEMMA QuietKeyInv ==
  ASSUME KeyInv, TypeInv', NEW p \in Requests, items' = items,
         \A q \in Requests : q # p => req'[q] = req[q],
         \A q \in Requests, k \in Pks : q # p /\ pkLock[k] = q => pkLock'[k] = q,
         Creating(p, {"locked", "found", "open"})' => pkLock'[req'[p].pk] = p,
         Creating(p, {"found", "open"})' /\ req'[p].item = None =>
           \A i \in Items : Pk[i] = req'[p].pk => ~Exists(Now, i),
         req'[p].step = "open" => req'[p].snap = Now
  PROVE  KeyInv'
<1>1. \A i \in Items : Exists(Now, i)' <=> Exists(Now, i)
  BY DEF Exists, Now
<1>2. OneItemPerKey'
  BY <1>1 DEF KeyInv, OneItemPerKey
<1>3. LockHeld'
  <2> SUFFICES ASSUME NEW q \in Requests, Creating(q, {"locked", "found", "open"})'
               PROVE  pkLock'[req'[q].pk] = q
    BY DEF LockHeld
  <2>1. CASE q = p
    BY <2>1
  <2>2. CASE q # p
    BY <2>2 DEF KeyInv, LockHeld, TypeInv, WellFormed, Creating
  <2>. QED BY <2>1, <2>2
<1>4. KeyFree'
  BY <1>1 DEF KeyInv, KeyFree, Creating
<1>5. SnapshotCurrent'
  BY DEF KeyInv, SnapshotCurrent, Now
<1>. QED BY <1>2, <1>3, <1>4, <1>5 DEF KeyInv

(* A request that starts preserves the invariant of keys.                    *)
LEMMA AskKeyInv ==
  ASSUME KeyInv, TypeInv', NEW p \in Requests, Ask(p)
  PROVE  KeyInv'
<1>0. TypeInv /\ req \in [Requests -> Request] /\ Idle \in Request
  BY IdleType DEF KeyInv, TypeInv, CatalogTypeOK
<1>1. ASSUME NEW i \in Items, NEW parent, NEW holder, LockPk(p, Pk[i], parent, holder)
      PROVE  KeyInv'
  <2> DEFINE r == [Idle EXCEPT !.step = "locked", !.op = "create", !.pk = Pk[i],
                               !.parent = parent, !.holder = holder]
  <2>1. r.step = "locked" /\ r.pk = Pk[i] /\ Pk[i] \in Pks
    BY <1>0 DEF Request, Pks
  <2>2. Arrive(p, r) /\ pkLock[Pk[i]] = None /\ pkLock' = [pkLock EXCEPT ![Pk[i]] = p]
    BY <1>1 DEF LockPk
  <2>. HIDE DEF r
  <2>3. req'[p] = r /\ items' = items /\ \A q \in Requests : q # p => req'[q] = req[q]
    BY <1>0, <2>2 DEF Arrive
  <2>4. \A q \in Requests, k \in Pks : q # p /\ pkLock[k] = q => pkLock'[k] = q
    BY <1>0, <2>2, CatalogAssumption DEF TypeInv, CatalogTypeOK
  <2>5. pkLock'[r.pk] = p
    BY <1>0, <2>1, <2>2 DEF TypeInv, CatalogTypeOK
  <2>. QED BY <2>1, <2>3, <2>4, <2>5, QuietKeyInv DEF Creating
<1>2. ASSUME NEW parent, NEW child, CheckLink(p, parent, child)
      PROVE  KeyInv'
  <2> DEFINE r == [Idle EXCEPT !.step = "linking", !.op = "link",
                               !.item = child, !.parent = parent]
  <2>1. r.step = "linking"
    BY <1>0 DEF Request
  <2>2. Arrive(p, r) /\ pkLock' = pkLock
    BY <1>2 DEF CheckLink
  <2>. HIDE DEF r
  <2>3. req'[p] = r /\ items' = items /\ \A q \in Requests : q # p => req'[q] = req[q]
    BY <1>0, <2>2 DEF Arrive
  <2>. QED BY <2>1, <2>2, <2>3, QuietKeyInv DEF Creating
<1>3. ASSUME NEW op \in {"delete", "purge", "restore"}, NEW parent, NEW i,
             Begin(p, op, parent, i)
      PROVE  KeyInv'
  <2> DEFINE r == [Idle EXCEPT !.step = "open", !.op = op, !.item = i,
                               !.parent = parent, !.snap = Now]
  <2>1. r.op # "create" /\ r.snap = Now
    BY <1>0 DEF Request
  <2>2. Arrive(p, r) /\ pkLock' = pkLock
    BY <1>3 DEF Begin
  <2>. HIDE DEF r
  <2>3. req'[p] = r /\ items' = items /\ \A q \in Requests : q # p => req'[q] = req[q]
    BY <1>0, <2>2 DEF Arrive
  <2>. QED BY <2>1, <2>2, <2>3, QuietKeyInv DEF Creating
<1>4. ASSUME NEW l \in links, NEW hard \in BOOLEAN, BeginDelete(p, l, hard)
      PROVE  KeyInv'
  <2>1. CASE hard
    BY <1>3, <1>4, <2>1 DEF BeginDelete
  <2>2. CASE ~hard
    BY <1>3, <1>4, <2>2 DEF BeginDelete
  <2>. QED BY <2>1, <2>2
<1>5. ASSUME NEW i \in Items, BeginRestore(p, i)
      PROVE  KeyInv'
  BY <1>3, <1>5 DEF BeginRestore
<1>. QED BY <1>1, <1>2, <1>4, <1>5 DEF Ask

(* So does every step of a request that changes no document.                 *)
LEMMA StepKeyInv ==
  ASSUME KeyInv, TypeInv', NEW p \in Requests,
         \/ FindExisting(p) \/ OpenTransaction(p) \/ InsertLink(p) \/ GiveUp(p)
         \/ \E t \in Items : FindParentTask(p, t)
  PROVE  KeyInv'
<1>0. /\ TypeInv /\ req \in [Requests -> Request] /\ req[p] \in Request
      /\ WellFormed(req[p]) /\ Idle \in Request
  BY IdleType DEF KeyInv, TypeInv, CatalogTypeOK
<1>1. \A q \in Requests, k \in Pks : q # p /\ pkLock[k] = q => Unlocked(p)[k] = q
  BY DEF Unlocked
<1>2. CASE FindExisting(p)
  <2>1. /\ items' = items /\ pkLock' = pkLock
        /\ \A q \in Requests : q # p => req'[q] = req[q]
    BY <1>0, <1>2 DEF FindExisting
  <2>2. req'[p].pk = req[p].pk /\ req'[p].step = "found" /\ Creating(p, {"locked"})
    <3>1. \/ req' = [req EXCEPT ![p].step = "found"]
          \/ \E i \in Items : req' = [req EXCEPT ![p].step = "found", ![p].item = i,
                                                 ![p].seen = items[i].version]
      BY <1>2 DEF FindExisting
    <3>2. req'[p].pk = req[p].pk /\ req'[p].step = "found"
      <4>1. CASE req' = [req EXCEPT ![p].step = "found"]
        BY <1>0, <4>1 DEF Request
      <4>2. ASSUME NEW i, req' = [req EXCEPT ![p].step = "found", ![p].item = i,
                                             ![p].seen = items[i].version]
            PROVE  req'[p].pk = req[p].pk /\ req'[p].step = "found"
        <5>1. req'[p] = [req[p] EXCEPT !.step = "found", !.item = i,
                                       !.seen = items[i].version]
          BY <1>0, <4>2
        <5>. QED BY <1>0, <5>1 DEF Request
      <4>. QED BY <3>1, <4>1, <4>2
    <3>3. Creating(p, {"locked"})
      BY <1>0, <1>2 DEF FindExisting, Creating, WellFormed
    <3>. QED BY <3>2, <3>3
  <2>3. req'[p].item = None =>
          \A i \in Items : Pk[i] = req[p].pk => ~Exists(Now, i)
    <3>1. CASE \A i \in Items : Pk[i] = req[p].pk => ~Exists(Now, i)
      BY <3>1
    <3>2. CASE \E i \in Items : Pk[i] = req[p].pk /\ Exists(Now, i)
      <4>1. PICK i \in Items : req' = [req EXCEPT ![p].step = "found", ![p].item = i,
                                                 ![p].seen = items[i].version]
        BY <1>2, <3>2 DEF FindExisting
      <4>. QED BY <1>0, <4>1, CatalogAssumption DEF Request
    <3>. QED BY <3>1, <3>2
  <2>. QED BY <2>1, <2>2, <2>3, QuietKeyInv DEF Creating, KeyInv, LockHeld
<1>3. CASE OpenTransaction(p)
  <2>1. /\ items' = items /\ pkLock' = pkLock
        /\ \A q \in Requests : q # p => req'[q] = req[q]
    BY <1>0, <1>3 DEF OpenTransaction
  <2>2. /\ req'[p].pk = req[p].pk /\ req'[p].item = req[p].item
        /\ req'[p].snap = Now /\ Creating(p, {"found"})
    BY <1>0, <1>3 DEF OpenTransaction, Request, Creating, WellFormed
  <2>. QED BY <2>1, <2>2, QuietKeyInv DEF Creating, KeyInv, LockHeld, KeyFree
<1>4. CASE InsertLink(p) \/ GiveUp(p)
  <2>1. /\ items' = items /\ pkLock' = Unlocked(p) /\ req'[p] = Idle
        /\ \A q \in Requests : q # p => req'[q] = req[q]
    BY <1>0, <1>4 DEF InsertLink, GiveUp
  <2>2. Idle.step = "idle" /\ Idle.op = "none"
    BY DEF Idle
  <2>. QED BY <1>1, <2>1, <2>2, QuietKeyInv DEF Creating
<1>5. ASSUME NEW t \in Items, FindParentTask(p, t)
      PROVE  KeyInv'
  <2>1. /\ items' = items /\ pkLock' = pkLock /\ req'[p].step = "linking"
        /\ \A q \in Requests : q # p => req'[q] = req[q]
    BY <1>0, <1>5 DEF FindParentTask, Request
  <2>. QED BY <2>1, QuietKeyInv DEF Creating
<1>. QED BY <1>2, <1>3, <1>4, <1>5

(* So does every step that commits.                                          *)
LEMMA CommitActionKeyInv ==
  ASSUME KeyInv, TypeInv', NEW p \in Requests,
         \/ \E versioned \in BOOLEAN : UpdateExisting(p, versioned)
         \/ \E i \in Items : CreateItem(p, i)
         \/ HardDelete(p) \/ SoftDelete(p) \/ Unlink(p) \/ Restore(p)
  PROVE  KeyInv'
<1>1. ASSUME NEW S, NEW ni, NEW nl, Commit(p, Present(p, S), ni, nl, Idle)
      PROVE  KeyInv'
  <2>1. Present(p, S) \in SUBSET Items /\ \A i \in Present(p, S) : Exists(req[p].snap, i)
    BY DEF Present
  <2>. QED BY <1>1, <2>1, CommitKeyInv
<1>2. ASSUME NEW versioned \in BOOLEAN, UpdateExisting(p, versioned)
      PROVE  KeyInv'
  <2> DEFINE W == {req[p].item} \cap {j \in Items : Exists(req[p].snap, j)}
  <2>1. PICK ni, nl : Commit(p, W, ni, nl, Idle)
    BY <1>2 DEF UpdateExisting
  <2>2. W \in SUBSET Items /\ \A i \in W : Exists(req[p].snap, i)
    OBVIOUS
  <2>. HIDE DEF W
  <2>. QED BY <2>1, <2>2, CommitKeyInv
<1>3. CASE HardDelete(p)
  BY <1>1, <1>3 DEF HardDelete
<1>4. CASE SoftDelete(p)
  BY <1>1, <1>4 DEF SoftDelete
<1>5. CASE Unlink(p)
  <2>1. PICK nl : Commit(p, {}, items, nl, Idle)
    BY <1>5 DEF Unlink
  <2>. QED BY <2>1, CommitKeyInv
<1>6. CASE Restore(p)
  BY <1>1, <1>6 DEF Restore
<1>. QED BY <1>2, <1>3, <1>4, <1>5, <1>6, CreateItemKeyInv

(* The invariant of keys holds at the start.                                 *)
LEMMA KeyInvInit == CatalogInit => KeyInv
<1> SUFFICES ASSUME CatalogInit PROVE KeyInv
  OBVIOUS
<1>1. OneItemPerKey
  BY CatalogAssumption DEF CatalogInit, OneItemPerKey, Exists, Now, Existing
<1>2. \A p \in Requests : req[p].step = "idle" /\ req[p].op = "none"
  BY DEF CatalogInit, Idle
<1>. QED BY <1>1, <1>2, TypeInvInit
         DEF KeyInv, LockHeld, KeyFree, SnapshotCurrent, Creating

(* So every step preserves the invariant of keys.                            *)
LEMMA KeyInvNext == KeyInv /\ [CatalogNext]_catalogVars => KeyInv'
<1> SUFFICES ASSUME KeyInv, [CatalogNext]_catalogVars PROVE KeyInv'
  OBVIOUS
<1>1. TypeInv'
  BY TypeInvNext DEF KeyInv
<1>2. CASE UNCHANGED catalogVars
  BY <1>1, <1>2 DEF catalogVars, KeyInv, LockHeld, KeyFree, SnapshotCurrent,
     OneItemPerKey, Creating, Exists, Now
<1>3. ASSUME NEW p \in Requests, Ask(p) \/ Serve(p) PROVE KeyInv'
  BY <1>1, <1>3, AskKeyInv, StepKeyInv, CommitActionKeyInv DEF Serve
<1>. QED BY <1>2, <1>3 DEF CatalogNext

\* However requests overlap, no two items ever share a primary key.
THEOREM PrimaryKeysAreUnique == CatalogSpec => []OneItemPerKey
<1>1. CatalogSpec => []KeyInv
  BY KeyInvInit, KeyInvNext, PTL DEF CatalogSpec
<1>2. KeyInv => OneItemPerKey
  BY DEF KeyInv
<1>. QED BY <1>1, <1>2, PTL
-----------------------------------------------------------------------------
(* Revisions. The version a create has read is still the item's version when *)
(* it writes, because only creates of the same key change it.                *)

Ages ==
  \A i \in Items : /\ items[i].state = "unused" => items[i].version = 0
                   /\ items[i].state # "unused" => items[i].version >= 1
SeenCurrent ==
  \A p \in Requests : Creating(p, {"found", "open"}) /\ req[p].item # None =>
    LET i == req[p].item IN
    /\ Pk[i] = req[p].pk /\ items[i].version = req[p].seen
    /\ items[i].state # "unused"
    /\ req[p].step = "open" => req[p].snap.items[i].state # "unused"
PurgedStays ==
  \A p \in Requests, i \in Items :
    req[p].step = "open" /\ req[p].snap.items[i].state = "purged" =>
      items[i].state = "purged"
Archived ==
  \A i \in Items : items[i].state # "purged" =>
    \A v \in 1 .. MaxVersion :
      revisions[i][v] = IF v < items[i].version THEN 1 ELSE 0

VersionInv == KeyInv /\ Ages /\ SeenCurrent /\ PurgedStays /\ Archived

\* A request that only looks, waits or ends.
LEMMA QuietVersionInv ==
  ASSUME VersionInv, KeyInv', NEW p \in Requests,
         items' = items, revisions' = revisions,
         \A q \in Requests : q # p => req'[q] = req[q],
         Creating(p, {"found", "open"})' /\ req'[p].item # None =>
           LET i == req'[p].item IN
           /\ Pk[i] = req'[p].pk /\ items[i].version = req'[p].seen
           /\ items[i].state # "unused",
         req'[p].step = "open" => req'[p].snap = Now
  PROVE  VersionInv'
<1>1. Ages' /\ Archived'
  BY DEF VersionInv, Ages, Archived
<1>2. SeenCurrent'
  <2> SUFFICES ASSUME NEW q \in Requests, Creating(q, {"found", "open"})',
                      req'[q].item # None
               PROVE  LET i == req'[q].item IN
                      /\ Pk[i] = req'[q].pk /\ items'[i].version = req'[q].seen
                      /\ items'[i].state # "unused"
                      /\ req'[q].step = "open" => req'[q].snap.items[i].state # "unused"
    BY DEF SeenCurrent
  <2>1. CASE q = p
    BY <2>1 DEF Now
  <2>2. CASE q # p
    BY <2>2 DEF VersionInv, SeenCurrent, Creating
  <2>. QED BY <2>1, <2>2
<1>3. PurgedStays'
  BY DEF VersionInv, PurgedStays, Now
<1>. QED BY <1>1, <1>2, <1>3 DEF VersionInv

\* A commit of p that ages no item but the one whose key p has locked.
LEMMA CommitVersionInv ==
  ASSUME VersionInv, KeyInv', NEW p \in Requests, NEW W, NEW ni, NEW nl, NEW next,
         Commit(p, W, ni, nl, next), next.step \in {"idle", "created"},
         \A i \in Items : /\ items[i].state # "unused" => items'[i].state # "unused"
                          /\ items[i].state = "purged" => items'[i].state = "purged",
         \A i \in Items :
           items[i].state # "unused" /\ items'[i].version # items[i].version =>
             Creating(p, {"open"}) /\ Pk[i] = req[p].pk,
         Ages', Archived'
  PROVE  VersionInv'
<1>0. TypeInv /\ req'[p] = next
  BY DEF VersionInv, KeyInv, Commit
<1>1. SeenCurrent'
  <2> SUFFICES ASSUME NEW q \in Requests, Creating(q, {"found", "open"})',
                      req'[q].item # None
               PROVE  LET i == req'[q].item IN
                      /\ Pk[i] = req'[q].pk /\ items'[i].version = req'[q].seen
                      /\ items'[i].state # "unused"
                      /\ req'[q].step = "open" => req'[q].snap.items[i].state # "unused"
    BY DEF SeenCurrent
  <2> DEFINE i == req[q].item
  <2>1. q # p
    BY <1>0 DEF Creating
  <2>2. /\ req'[q].op = req[q].op /\ req'[q].step = req[q].step
        /\ req'[q].pk = req[q].pk /\ req'[q].item = req[q].item
        /\ req'[q].seen = req[q].seen /\ req'[q].snap = req[q].snap
    BY <1>0, <2>1, OthersKept
  <2>3. Creating(q, {"found", "open"}) /\ i # None
    BY <2>2 DEF Creating
  <2>4. /\ Pk[i] = req[q].pk /\ items[i].version = req[q].seen
        /\ items[i].state # "unused"
        /\ req[q].step = "open" => req[q].snap.items[i].state # "unused"
    BY <2>3 DEF VersionInv, SeenCurrent
  <2>5. i \in Items
    BY <1>0, <2>3 DEF TypeInv, CatalogTypeOK, Request
  <2>6. Creating(p, {"open"}) => req[p].pk # req[q].pk
    BY <2>1, <2>3 DEF VersionInv, KeyInv, LockHeld, Creating
  <2>7. items'[i].version = items[i].version
    BY <2>4, <2>5, <2>6
  <2>. QED BY <2>2, <2>4, <2>5, <2>7
<1>2. PurgedStays'
  <2> SUFFICES ASSUME NEW q \in Requests, NEW i \in Items, req'[q].step = "open",
                      req'[q].snap.items[i].state = "purged"
               PROVE  items'[i].state = "purged"
    BY DEF PurgedStays
  <2>1. q # p
    BY <1>0
  <2>2. req'[q].step = req[q].step /\ req'[q].snap = req[q].snap
    BY <1>0, <2>1, OthersKept
  <2>. QED BY <2>2 DEF VersionInv, PurgedStays
<1>. QED BY <1>1, <1>2 DEF VersionInv
\* Deletes, restores and removals change states, not versions.
LEMMA WithStateVersionInv ==
  ASSUME VersionInv, KeyInv', NEW p \in Requests, NEW S, NEW nl,
         NEW state \in {"live", "deleted", "purged"},
         Commit(p, Present(p, S), WithState(Present(p, S), state), nl, Idle),
         revisions' = revisions
  PROVE  VersionInv'
<1> DEFINE W == Present(p, S)
<1>1. items \in [Items -> Item]
  BY DEF VersionInv, KeyInv, TypeInv, CatalogTypeOK
<1>2. ASSUME NEW i \in Items, i \in W
      PROVE  /\ items[i].state \in {"live", "deleted"}
             /\ items'[i] = [items[i] EXCEPT !.state = state]
  <2>1. i \notin req[p].missed /\ req[p].step = "open"
    BY <1>2 DEF Commit
  <2>2. req[p].snap.items[i] = items[i] /\ Exists(req[p].snap, i)
    BY <1>2, <2>1 DEF VersionInv, KeyInv, SnapshotCurrent, Present
  <2>3. items'[i] = WithState(W, state)[i]
    BY <1>2 DEF Commit
  <2>. QED BY <1>2, <2>2, <2>3 DEF Exists, WithState
<1>3. \A i \in Items : i \notin W => items'[i] = items[i]
  BY DEF Commit
<1>4. ASSUME NEW i \in Items
      PROVE  /\ items'[i].version = items[i].version
             /\ items'[i].state = "unused" <=> items[i].state = "unused"
             /\ items[i].state = "purged" => items'[i].state = "purged"
  <2>1. CASE i \in W
    BY <1>1, <1>2, <2>1 DEF Item
  <2>2. CASE i \notin W
    BY <1>3, <2>2
  <2>. QED BY <2>1, <2>2
<1>5. Ages' /\ Archived'
  BY <1>4 DEF VersionInv, Ages, Archived
<1>6. Idle.step \in {"idle", "created"}
  BY DEF Idle
<1>. HIDE DEF W
<1>. QED BY <1>4, <1>5, <1>6, CommitVersionInv

(* Creating an item preserves the invariant of versions.                     *)
LEMMA CreateItemVersionInv ==
  ASSUME VersionInv, KeyInv', NEW p \in Requests, NEW i \in Items, CreateItem(p, i)
  PROVE  VersionInv'
<1> DEFINE r == req[p]
           new == [state |-> "live", version |-> 1, parent |-> r.parent]
           ni == [items EXCEPT ![i] = new]
           nl == r.snap.links \cup {[parent |-> r.parent, child |-> i, true |-> TRUE]}
                  \cup (IF r.holder = None THEN {}
                        ELSE {[parent |-> r.holder, child |-> i, true |-> FALSE]})
           after == [Idle EXCEPT !.step = "created", !.op = "create", !.item = i]
           next == IF Kind[i] = "task" THEN after ELSE Idle
<1>0. items \in [Items -> Item] /\ Idle \in Request
  BY IdleType DEF VersionInv, KeyInv, TypeInv, CatalogTypeOK
<1>1. Commit(p, {i}, ni, nl, next) /\ items[i].state = "unused" /\ revisions' = revisions
  BY DEF CreateItem
<1>2. next.step \in {"created", "idle"}
  BY <1>0 DEF Request, Idle
<1>3. items'[i] = new /\ \A j \in Items : j # i => items'[j] = items[j]
  BY <1>0, <1>1 DEF Commit
<1>4. Ages'
  BY <1>3 DEF VersionInv, Ages
<1>5. Archived'
  <2> SUFFICES ASSUME NEW j \in Items, items'[j].state # "purged",
                      NEW v \in 1 .. MaxVersion
               PROVE  revisions'[j][v] = IF v < items'[j].version THEN 1 ELSE 0
    BY DEF Archived
  <2>1. CASE j = i
    <3>1. items[i].version = 0 /\ items'[i].version = 1
      BY <1>1, <1>3 DEF VersionInv, Ages
    <3>2. revisions[i][v] = IF v < 0 THEN 1 ELSE 0
      BY <1>1, <3>1 DEF VersionInv, Archived
    <3>. QED BY <1>1, <2>1, <3>1, <3>2
  <2>2. CASE j # i
    BY <1>1, <1>3, <2>2 DEF VersionInv, Archived
  <2>. QED BY <2>1, <2>2
<1>. HIDE DEF ni, nl, next
<1>. QED BY <1>1, <1>2, <1>3, <1>4, <1>5, CommitVersionInv

(* Updating one preserves it: the version before is archived once.           *)
LEMMA UpdateExistingVersionInv ==
  ASSUME VersionInv, KeyInv', NEW p \in Requests, NEW versioned \in BOOLEAN,
         UpdateExisting(p, versioned)
  PROVE  VersionInv'
<1> DEFINE i == req[p].item
           seen == req[p].seen
           snap == req[p].snap
           version == IF versioned THEN seen + 1 ELSE seen
           W == {i} \cap {j \in Items : Exists(snap, j)}
           ni == [items EXCEPT ![i].state = "live", ![i].version = version]
<1>0. /\ items \in [Items -> Item] /\ req[p] \in Request /\ WellFormed(req[p])
      /\ revisions \in [Items -> [1 .. MaxVersion -> Nat]]
  BY DEF VersionInv, KeyInv, TypeInv, CatalogTypeOK
<1>1. /\ Commit(p, W, ni, snap.links, Idle) /\ req[p].step = "open"
      /\ Creating(p, {"open"}) /\ i \in Items /\ version <= MaxVersion
  BY <1>0 DEF UpdateExisting, Commit, Creating, Request
<1>2. revisions' = IF versioned THEN [revisions EXCEPT ![i][seen] = @ + 1] ELSE revisions
  BY DEF UpdateExisting
<1>3. /\ Pk[i] = req[p].pk /\ items[i].version = seen /\ seen \in Nat /\ seen >= 1
      /\ items[i].state # "unused" /\ snap.items[i].state # "unused"
  <2>1. i # None /\ Creating(p, {"found", "open"})
    BY <1>1, CatalogAssumption DEF Creating
  <2>2. /\ Pk[i] = req[p].pk /\ items[i].version = seen
        /\ items[i].state # "unused" /\ snap.items[i].state # "unused"
    BY <1>1, <2>1 DEF VersionInv, SeenCurrent
  <2>3. seen \in 0 .. MaxVersion
    BY <1>0 DEF Request
  <2>. QED BY <1>1, <2>2, <2>3, CatalogAssumption DEF VersionInv, Ages
<1>4. \A j \in Items : j # i =>
         items'[j] = items[j] /\ revisions'[j] = revisions[j]
  BY <1>0, <1>1, <1>2 DEF Commit
<1>5. Idle.step \in {"idle", "created"}
  BY DEF Idle
<1>6. CASE Exists(snap, i)
  <2>1. i \in W /\ i \notin req[p].missed
    BY <1>1, <1>6 DEF Commit
  <2>2. Exists(Now, i)
    BY <1>1, <1>6, <2>1 DEF VersionInv, KeyInv, SnapshotCurrent, Exists, Now
  <2>3. items'[i] = [items[i] EXCEPT !.state = "live", !.version = version]
    BY <1>0, <1>1, <2>1 DEF Commit
  <2>4. items'[i].state = "live" /\ items'[i].version = version
    BY <1>0, <1>1, <2>3 DEF Item
  <2>5. items[i].state \in {"live", "deleted"}
    BY <2>2 DEF Exists, Now
  <2>6. Ages'
    BY <1>3, <1>4, <2>4 DEF VersionInv, Ages
  <2>7. \A v \in 1 .. MaxVersion :
          revisions'[i][v] = IF v < version THEN 1 ELSE 0
    <3>1. \A v \in 1 .. MaxVersion : revisions[i][v] = IF v < seen THEN 1 ELSE 0
      BY <1>1, <1>3, <2>5 DEF VersionInv, Archived
    <3>2. CASE versioned
      <4>1. revisions'[i] = [revisions[i] EXCEPT ![seen] = @ + 1]
        BY <1>0, <1>1, <1>2, <3>2
      <4>2. revisions[i] \in [1 .. MaxVersion -> Nat] /\ version = seen + 1
        BY <1>0, <1>1, <3>2
      <4>3. seen \in 1 .. MaxVersion
        BY <1>1, <1>3, <4>2, CatalogAssumption
      <4>. HIDE DEF seen, version
      <4>4. ASSUME NEW v \in 1 .. MaxVersion
            PROVE  revisions'[i][v] = IF v < version THEN 1 ELSE 0
        <5>1. CASE v = seen
          <6>1. revisions'[i][v] = revisions[i][v] + 1
            BY <4>1, <4>2, <4>3, <5>1
          <6>2. seen \in Nat
            BY <1>3
          <6>3. revisions[i][v] = 0 /\ v < version
            BY <3>1, <4>2, <5>1, <6>2
          <6>. QED BY <6>1, <6>3
        <5>2. CASE v # seen
          <6>1. revisions'[i][v] = revisions[i][v]
            BY <4>1, <4>2, <5>2
          <6>. QED BY <1>3, <3>1, <4>2, <5>2, <6>1
        <5>. QED BY <5>1, <5>2
      <4>. QED BY <4>4
    <3>3. CASE ~versioned
      BY <1>2, <3>1, <3>3
    <3>. QED BY <3>2, <3>3
  <2>8. Archived'
    BY <1>4, <2>4, <2>7 DEF VersionInv, Archived
  <2>. HIDE DEF W, ni, snap
  <2>. QED BY <1>1, <1>3, <1>4, <1>5, <2>4, <2>5, <2>6, <2>8, CommitVersionInv
<1>7. CASE ~Exists(snap, i)
  <2>1. W = {}
    BY <1>7
  <2>2. \A j \in Items : items'[j] = items[j]
    BY <1>1, <2>1 DEF Commit
  <2>3. snap.items[i].state = "purged"
    <3>1. snap.items[i] \in Item
      BY <1>0, <1>1 DEF WellFormed, Store
    <3>. QED BY <1>3, <1>7, <3>1 DEF Item, Exists
  <2>4. items[i].state = "purged"
    BY <1>1, <2>3 DEF VersionInv, PurgedStays
  <2>5. Ages' /\ Archived'
    BY <1>4, <2>2, <2>4 DEF VersionInv, Ages, Archived
  <2>. HIDE DEF W, ni, snap
  <2>. QED BY <1>1, <1>5, <2>2, <2>5, CommitVersionInv
<1>. QED BY <1>6, <1>7

(* A request that starts preserves the invariant of versions.                *)
LEMMA AskVersionInv ==
  ASSUME VersionInv, KeyInv', NEW p \in Requests, Ask(p)
  PROVE  VersionInv'
<1>0. req \in [Requests -> Request] /\ Idle \in Request
  BY IdleType DEF VersionInv, KeyInv, TypeInv, CatalogTypeOK
<1>1. ASSUME NEW r, Arrive(p, r), r.step = "open" => r.snap = Now /\ r.op # "create",
             r.step # "found"
      PROVE  VersionInv'
  <2>1. /\ req'[p] = r /\ items' = items /\ revisions' = revisions
        /\ \A q \in Requests : q # p => req'[q] = req[q]
    BY <1>0, <1>1 DEF Arrive
  <2>. QED BY <1>1, <2>1, QuietVersionInv DEF Creating
<1>2. ASSUME NEW k, NEW parent, NEW holder, LockPk(p, k, parent, holder)
      PROVE  VersionInv'
  <2> DEFINE r == [Idle EXCEPT !.step = "locked", !.op = "create", !.pk = k,
                               !.parent = parent, !.holder = holder]
  <2>1. r.step = "locked"
    BY <1>0 DEF Request
  <2>2. Arrive(p, r)
    BY <1>2 DEF LockPk
  <2>. HIDE DEF r
  <2>. QED BY <1>1, <2>1, <2>2
<1>3. ASSUME NEW parent, NEW child, CheckLink(p, parent, child)
      PROVE  VersionInv'
  <2> DEFINE r == [Idle EXCEPT !.step = "linking", !.op = "link",
                               !.item = child, !.parent = parent]
  <2>1. r.step = "linking"
    BY <1>0 DEF Request
  <2>2. Arrive(p, r)
    BY <1>3 DEF CheckLink
  <2>. HIDE DEF r
  <2>. QED BY <1>1, <2>1, <2>2
<1>4. ASSUME NEW op \in {"delete", "purge", "restore"}, NEW parent, NEW i,
             Begin(p, op, parent, i)
      PROVE  VersionInv'
  <2> DEFINE r == [Idle EXCEPT !.step = "open", !.op = op, !.item = i,
                               !.parent = parent, !.snap = Now]
  <2>1. r.step = "open" /\ r.op = op /\ r.snap = Now
    BY <1>0 DEF Request
  <2>2. Arrive(p, r)
    BY <1>4 DEF Begin
  <2>. HIDE DEF r
  <2>. QED BY <1>1, <2>1, <2>2
<1>5. ASSUME NEW l, NEW hard \in BOOLEAN, BeginDelete(p, l, hard)
      PROVE  VersionInv'
  <2>1. CASE hard
    BY <1>4, <1>5, <2>1 DEF BeginDelete
  <2>2. CASE ~hard
    BY <1>4, <1>5, <2>2 DEF BeginDelete
  <2>. QED BY <2>1, <2>2
<1>6. ASSUME NEW i, BeginRestore(p, i)
      PROVE  VersionInv'
  BY <1>4, <1>6 DEF BeginRestore
<1>. QED BY <1>2, <1>3, <1>5, <1>6 DEF Ask

(* So does every step of a request that changes no document.                 *)
LEMMA StepVersionInv ==
  ASSUME VersionInv, KeyInv', NEW p \in Requests,
         \/ FindExisting(p) \/ OpenTransaction(p) \/ InsertLink(p) \/ GiveUp(p)
         \/ \E t \in Items : FindParentTask(p, t)
  PROVE  VersionInv'
<1>0. /\ req \in [Requests -> Request] /\ req[p] \in Request /\ WellFormed(req[p])
      /\ Idle \in Request
  BY IdleType DEF VersionInv, KeyInv, TypeInv, CatalogTypeOK
<1>1. CASE FindExisting(p)
  <2>1. /\ items' = items /\ revisions' = revisions
        /\ \A q \in Requests : q # p => req'[q] = req[q]
    BY <1>0, <1>1 DEF FindExisting
  <2>2. CASE req' = [req EXCEPT ![p].step = "found"]
    <3>1. req'[p].step = "found" /\ req'[p].item = req[p].item
      BY <1>0, <2>2 DEF Request
    <3>2. req[p].item = None
      BY <1>0, <1>1 DEF FindExisting, WellFormed
    <3>. QED BY <2>1, <3>1, <3>2, QuietVersionInv
  <2>3. ASSUME NEW i \in Items, Pk[i] = req[p].pk, Exists(Now, i),
               req' = [req EXCEPT ![p].step = "found", ![p].item = i,
                                  ![p].seen = items[i].version]
        PROVE  VersionInv'
    <3>1. req'[p] = [req[p] EXCEPT !.step = "found", !.item = i,
                                   !.seen = items[i].version]
      BY <1>0, <2>3
    <3>2. /\ req'[p].step = "found" /\ req'[p].item = i /\ req'[p].pk = req[p].pk
          /\ req'[p].seen = items[i].version
      BY <1>0, <3>1 DEF Request
    <3>3. items[i].state # "unused"
      BY <2>3 DEF Exists, Now
    <3>. QED BY <2>1, <2>3, <3>2, <3>3, QuietVersionInv
  <2>. QED BY <1>1, <2>2, <2>3 DEF FindExisting
<1>2. CASE OpenTransaction(p)
  <2>1. /\ items' = items /\ revisions' = revisions
        /\ \A q \in Requests : q # p => req'[q] = req[q]
    BY <1>0, <1>2 DEF OpenTransaction
  <2>2. /\ req'[p].pk = req[p].pk /\ req'[p].item = req[p].item
        /\ req'[p].seen = req[p].seen /\ req'[p].snap = Now
        /\ Creating(p, {"found"}) /\ req'[p].op = req[p].op
    BY <1>0, <1>2 DEF OpenTransaction, Request, Creating, WellFormed
  <2>. QED BY <2>1, <2>2, QuietVersionInv DEF Creating, VersionInv, SeenCurrent
<1>3. CASE InsertLink(p) \/ GiveUp(p)
  <2>1. /\ items' = items /\ revisions' = revisions /\ req'[p] = Idle
        /\ \A q \in Requests : q # p => req'[q] = req[q]
    BY <1>0, <1>3 DEF InsertLink, GiveUp
  <2>2. Idle.step = "idle"
    BY DEF Idle
  <2>. QED BY <2>1, <2>2, QuietVersionInv DEF Creating
<1>4. ASSUME NEW t \in Items, FindParentTask(p, t)
      PROVE  VersionInv'
  <2>1. /\ items' = items /\ revisions' = revisions /\ req'[p].step = "linking"
        /\ \A q \in Requests : q # p => req'[q] = req[q]
    BY <1>0, <1>4 DEF FindParentTask, Request
  <2>. QED BY <2>1, QuietVersionInv DEF Creating
<1>. QED BY <1>1, <1>2, <1>3, <1>4

(* So does every other step that commits.                                    *)
LEMMA CommitActionVersionInv ==
  ASSUME VersionInv, KeyInv', NEW p \in Requests,
         HardDelete(p) \/ SoftDelete(p) \/ Unlink(p) \/ Restore(p)
  PROVE  VersionInv'
<1>1. CASE HardDelete(p)
  BY <1>1, WithStateVersionInv DEF HardDelete
<1>2. CASE SoftDelete(p)
  BY <1>2, WithStateVersionInv DEF SoftDelete
<1>3. CASE Restore(p)
  BY <1>3, WithStateVersionInv DEF Restore
<1>4. CASE Unlink(p)
  <2>1. PICK nl : Commit(p, {}, items, nl, Idle) /\ revisions' = revisions
    BY <1>4 DEF Unlink
  <2>2. \A i \in Items : items'[i] = items[i]
    BY <2>1 DEF Commit
  <2>3. Ages' /\ Archived' /\ Idle.step \in {"idle", "created"}
    BY <2>1, <2>2 DEF VersionInv, Ages, Archived, Idle
  <2>. QED BY <2>1, <2>2, <2>3, CommitVersionInv
<1>. QED BY <1>1, <1>2, <1>3, <1>4

(* The invariant of versions holds at the start.                             *)
LEMMA VersionInvInit == CatalogInit => VersionInv
<1> SUFFICES ASSUME CatalogInit PROVE VersionInv
  OBVIOUS
<1>1. \A i \in Items : /\ items[i].version = IF i \in Existing THEN 1 ELSE 0
                       /\ items[i].state = IF i \in Existing THEN "live" ELSE "unused"
  BY DEF CatalogInit
<1>2. Ages
  BY <1>1 DEF Ages
<1>3. Archived
  BY <1>1 DEF CatalogInit, Archived
<1>4. \A p \in Requests : req[p].step = "idle"
  BY DEF CatalogInit, Idle
<1>. QED BY <1>2, <1>3, <1>4, KeyInvInit DEF VersionInv, SeenCurrent, PurgedStays, Creating

(* So every step preserves the invariant of versions.                        *)
LEMMA VersionInvNext == VersionInv /\ [CatalogNext]_catalogVars => VersionInv'
<1> SUFFICES ASSUME VersionInv, [CatalogNext]_catalogVars PROVE VersionInv'
  OBVIOUS
<1>1. KeyInv'
  BY KeyInvNext DEF VersionInv
<1>2. CASE UNCHANGED catalogVars
  BY <1>1, <1>2 DEF catalogVars, VersionInv, Ages, SeenCurrent, PurgedStays, Archived, Creating
<1>3. ASSUME NEW p \in Requests, Ask(p) \/ Serve(p) PROVE VersionInv'
  BY <1>1, <1>3, AskVersionInv, StepVersionInv, CreateItemVersionInv,
     UpdateExistingVersionInv, CommitActionVersionInv DEF Serve
<1>. QED BY <1>2, <1>3 DEF CatalogNext

\* However requests overlap, every version of an item but the last has exactly
\* one document in item_revisions.
THEOREM VersionsAreArchivedOnce == CatalogSpec => []EachVersionArchivedOnce
<1>1. CatalogSpec => []VersionInv
  BY VersionInvInit, VersionInvNext, PTL DEF CatalogSpec
<1>2. VersionInv => EachVersionArchivedOnce
  BY DEF VersionInv, Archived, EachVersionArchivedOnce, Exists, Now
<1>. QED BY <1>1, <1>2, PTL

-----------------------------------------------------------------------------
(* What $graphLookup finds: the least set closed under following links.      *)

\* Some natural number of a set is below all others of it.
LEMMA LeastNatural ==
  ASSUME NEW T \in SUBSET Nat, T # {}
  PROVE  \E x \in T : \A y \in T : ~(y < x)
<1> DEFINE R == OpToRel(<, Nat)
<1>1. IsWellFoundedOn(R, Nat)
  BY NatLessThanWellFounded, Zenon
<1>2. \A x, y \in Nat : y < x => <<y, x>> \in R
  BY DEF OpToRel
<1>3. \E x \in T : \A y \in T : <<y, x>> \notin R
  <2>. HIDE DEF R
  <2>. QED BY <1>1, WFMin
<1>. QED BY <1>2, <1>3

\* Induction over the natural numbers, stated of the set a fact holds on.
LEMMA NaturalsInductive ==
  ASSUME NEW T, 0 \in T, \A n \in Nat : n \in T => n + 1 \in T
  PROVE  Nat \subseteq T
<1> SUFFICES ASSUME Nat \ T # {} PROVE FALSE
  OBVIOUS
<1>1. PICK x \in Nat \ T : \A y \in Nat \ T : ~(y < x)
  BY LeastNatural
<1>2. x # 0 /\ x - 1 \in Nat /\ x - 1 < x
  BY <1>1
<1>3. (x - 1) + 1 \in T
  BY <1>1, <1>2
<1>. QED BY <1>1, <1>3

\* The links that start at item i, and those one step further than a set.
Start(ls, i) == {l \in ls : l.parent = i}
Further(ls, near) == near \cup {l \in ls : l.parent \in {up.child : up \in near}}

\* The rounds of $graphLookup that LinksBelow defines by recursion exist.
LEMMA LookupRounds ==
  ASSUME NEW ls, NEW i
  PROVE  \E f : /\ f = [n \in 0 .. Cardinality(Items) |->
                          IF n = 0 THEN Start(ls, i) ELSE Further(ls, f[n - 1])]
                /\ LinksBelow(ls, i) = f[Cardinality(Items)]
<1> DEFINE N == Cardinality(Items)
           Rounds(f, k) == f = [n \in 0 .. k |-> IF n = 0 THEN Start(ls, i)
                                                 ELSE Further(ls, f[n - 1])]
           T == {k \in Nat : \E f : Rounds(f, k)}
<1>0. N \in Nat
  BY FS_CardinalityType, CatalogAssumption
<1>1. 0 \in T
  <2> DEFINE f == [n \in 0 .. 0 |-> Start(ls, i)]
  <2>1. Rounds(f, 0)
    OBVIOUS
  <2>. QED BY <2>1
<1>2. ASSUME NEW k \in Nat, k \in T PROVE k + 1 \in T
  <2>1. PICK f : Rounds(f, k)
    BY <1>2
  <2> DEFINE g == [n \in 0 .. (k + 1) |-> IF n = k + 1 THEN Further(ls, f[k]) ELSE f[n]]
  <2>2. ASSUME NEW n \in 0 .. (k + 1)
        PROVE  g[n] = IF n = 0 THEN Start(ls, i) ELSE Further(ls, g[n - 1])
    <3>1. CASE n = k + 1
      <4>1. n # 0 /\ n - 1 = k /\ k \in 0 .. (k + 1) /\ k # k + 1
        BY <3>1
      <4>. QED BY <3>1, <4>1
    <3>2. CASE n # k + 1 /\ n = 0
      BY <2>1, <3>2
    <3>3. CASE n # k + 1 /\ n # 0
      <4>1. n - 1 \in 0 .. k /\ n - 1 # k + 1 /\ n \in 0 .. k /\ n - 1 \in 0 .. (k + 1)
        BY <3>3
      <4>2. g[n] = f[n] /\ g[n - 1] = f[n - 1]
        BY <3>3, <4>1
      <4>3. f[n] = Further(ls, f[n - 1])
        BY <2>1, <3>3, <4>1
      <4>. QED BY <3>3, <4>2, <4>3
    <3>. QED BY <3>1, <3>2, <3>3
  <2>3. Rounds(g, k + 1)
    <3>1. g = [n \in 0 .. (k + 1) |-> g[n]]
      OBVIOUS
    <3>. HIDE DEF g
    <3>. QED BY <2>2, <3>1
  <2>. HIDE DEF g
  <2>. QED BY <2>3
<1>3. N \in T
  <2>. HIDE DEF T, N
  <2>. QED BY <1>0, <1>1, <1>2, NaturalsInductive
<1> DEFINE below == CHOOSE f : Rounds(f, N)
<1>4. Rounds(below, N)
  BY <1>3
<1>5. LinksBelow(ls, i) = below[N]
  BY DEF LinksBelow, Start, Further
<1>. HIDE DEF below
<1>. QED BY <1>4, <1>5

\* LinksBelow holds the links that start at the item and is contained in every
\* set that holds them and is closed under following links.
LEMMA LinksBelowLeast ==
  ASSUME NEW ls, NEW i
  PROVE  /\ Start(ls, i) \subseteq LinksBelow(ls, i)
         /\ LinksBelow(ls, i) \subseteq ls
         /\ \A X : /\ Start(ls, i) \subseteq X
                   /\ \A k \in X, l \in ls : l.parent = k.child => l \in X
                   => LinksBelow(ls, i) \subseteq X
<1> DEFINE N == Cardinality(Items)
<1>0. N \in Nat
  BY FS_CardinalityType, CatalogAssumption
<1>1. PICK f : /\ f = [n \in 0 .. N |-> IF n = 0 THEN Start(ls, i)
                                       ELSE Further(ls, f[n - 1])]
               /\ LinksBelow(ls, i) = f[N]
  BY LookupRounds
<1>. HIDE DEF N
<1>2. ASSUME NEW X, Start(ls, i) \subseteq X,
             \A k \in X, l \in ls : l.parent = k.child => l \in X
      PROVE  LinksBelow(ls, i) \subseteq X
  <2> DEFINE T == {n \in Nat : n \in 0 .. N => f[n] \subseteq X}
  <2>1. 0 \in T
    BY <1>0, <1>1, <1>2
  <2>2. ASSUME NEW n \in Nat, n \in T PROVE n + 1 \in T
    <3> SUFFICES ASSUME n + 1 \in 0 .. N PROVE f[n + 1] \subseteq X
      OBVIOUS
    <3>1. n \in 0 .. N /\ n + 1 # 0 /\ (n + 1) - 1 = n
      BY <1>0
    <3>2. f[n] \subseteq X /\ f[n + 1] = Further(ls, f[n])
      BY <1>1, <2>2, <3>1
    <3>. QED BY <1>2, <3>2 DEF Further
  <2>3. N \in T
    <3>. HIDE DEF T
    <3>. QED BY <1>0, <2>1, <2>2, NaturalsInductive
  <2>. QED BY <1>0, <1>1, <2>3
<1>3. Start(ls, i) \subseteq LinksBelow(ls, i)
  <2> DEFINE T == {n \in Nat : n \in 0 .. N => Start(ls, i) \subseteq f[n]}
  <2>1. 0 \in T
    BY <1>0, <1>1
  <2>2. ASSUME NEW n \in Nat, n \in T PROVE n + 1 \in T
    <3> SUFFICES ASSUME n + 1 \in 0 .. N PROVE Start(ls, i) \subseteq f[n + 1]
      OBVIOUS
    <3>1. n \in 0 .. N /\ n + 1 # 0 /\ (n + 1) - 1 = n
      BY <1>0
    <3>2. Start(ls, i) \subseteq f[n] /\ f[n + 1] = Further(ls, f[n])
      BY <1>1, <2>2, <3>1
    <3>. QED BY <3>2 DEF Further
  <2>3. N \in T
    <3>. HIDE DEF T
    <3>. QED BY <1>0, <2>1, <2>2, NaturalsInductive
  <2>. QED BY <1>0, <1>1, <2>3
<1>4. LinksBelow(ls, i) \subseteq ls
  BY <1>2 DEF Start
<1>. QED BY <1>2, <1>3, <1>4

\* As many rounds as there are items follow every link: a round that reaches no
\* new item is the last one.
LEMMA LinksBelowClosed ==
  ASSUME NEW ls \in SUBSET Link, NEW i, NEW k \in LinksBelow(ls, i), NEW l \in ls,
         l.parent = k.child
  PROVE  l \in LinksBelow(ls, i)
<1> DEFINE N == Cardinality(Items)
           Closed(X) == \A a \in X, b \in ls : b.parent = a.child => b \in X
<1>0. N \in Nat
  BY FS_CardinalityType, CatalogAssumption
<1>1. PICK f : /\ f = [n \in 0 .. N |-> IF n = 0 THEN Start(ls, i)
                                       ELSE Further(ls, f[n - 1])]
               /\ LinksBelow(ls, i) = f[N]
  BY LookupRounds
<1>2. \A X \in SUBSET ls : /\ Children(X) \subseteq Items
                           /\ IsFiniteSet(Children(X)) /\ Cardinality(Children(X)) \in Nat
                           /\ Cardinality(Children(X)) <= N
  <2> TAKE X \in SUBSET ls
  <2>1. Children(X) \subseteq Items
    BY DEF Children, Link
  <2>. QED BY <2>1, FS_Subset, FS_CardinalityType, CatalogAssumption
<1> DEFINE T == {n \in Nat : n \in 0 .. N =>
                   /\ f[n] \subseteq ls
                   /\ Closed(f[n]) \/ Cardinality(Children(f[n])) >= n + 1}
<1>. HIDE DEF N
<1>3. 0 \in T
  <2>1. f[0] = Start(ls, i) /\ f[0] \subseteq ls
    BY <1>0, <1>1 DEF Start
  <2>2. CASE f[0] = {}
    BY <2>1, <2>2
  <2>3. CASE f[0] # {}
    <3>1. Children(f[0]) # {}
      BY <2>3 DEF Children
    <3>2. Cardinality(Children(f[0])) # 0
      BY <1>2, <2>1, <3>1, FS_EmptySet
    <3>. QED BY <1>2, <2>1, <3>2
  <2>. QED BY <2>2, <2>3
<1>4. ASSUME NEW n \in Nat, n \in T PROVE n + 1 \in T
  <2> SUFFICES ASSUME n + 1 \in 0 .. N
               PROVE  /\ f[n + 1] \subseteq ls
                      /\ Closed(f[n + 1]) \/ Cardinality(Children(f[n + 1])) >= n + 2
    OBVIOUS
  <2>1. n \in 0 .. N /\ n + 1 # 0 /\ (n + 1) - 1 = n
    BY <1>0
  <2>2. /\ f[n + 1] = Further(ls, f[n]) /\ f[n] \subseteq ls
        /\ Closed(f[n]) \/ Cardinality(Children(f[n])) >= n + 1
    BY <1>1, <1>4, <2>1
  <2>3. f[n + 1] \subseteq ls /\ f[n] \subseteq f[n + 1]
    BY <2>2 DEF Further
  <2>4. CASE Closed(f[n])
    <3>1. f[n + 1] = f[n]
      BY <2>2, <2>4 DEF Further
    <3>. QED BY <2>3, <2>4, <3>1
  <2>5. CASE Children(f[n + 1]) = Children(f[n])
    <3>1. Closed(f[n + 1])
      BY <2>2, <2>5 DEF Further, Children
    <3>. QED BY <2>3, <3>1
  <2>6. CASE Children(f[n + 1]) # Children(f[n]) /\ Cardinality(Children(f[n])) >= n + 1
    <3>1. Children(f[n]) \subseteq Children(f[n + 1])
      BY <2>3 DEF Children
    <3>2. Cardinality(Children(f[n])) < Cardinality(Children(f[n + 1]))
      BY <1>2, <2>3, <2>6, <3>1, FS_Subset
    <3>. QED BY <1>2, <2>2, <2>3, <2>6, <3>2
  <2>. QED BY <2>2, <2>4, <2>5, <2>6
<1>5. N \in T
  <2>. HIDE DEF T
  <2>. QED BY <1>0, <1>3, <1>4, NaturalsInductive
<1>6. Closed(f[N])
  BY <1>0, <1>2, <1>5
<1>. QED BY <1>1, <1>6

\* The child of a true link from the item or from below it is below it.
LEMMA BelowFollows ==
  ASSUME NEW ls \in SUBSET Link, NEW i, NEW l \in TrueLinks(ls),
         l.parent = i \/ l.parent \in TrueBelow(ls, i)
  PROVE  l.child \in TrueBelow(ls, i)
<1>1. TrueLinks(ls) \in SUBSET Link
  BY DEF TrueLinks
<1>2. l \in LinksBelow(TrueLinks(ls), i)
  <2>1. CASE l.parent = i
    BY <2>1, LinksBelowLeast DEF Start
  <2>2. CASE l.parent \in TrueBelow(ls, i)
    <3>1. PICK k \in LinksBelow(TrueLinks(ls), i) : l.parent = k.child
      BY <2>2 DEF TrueBelow, Children
    <3>. QED BY <1>1, <3>1, LinksBelowClosed
  <2>. QED BY <2>1, <2>2
<1>. QED BY <1>2 DEF TrueBelow, Children

\* A set that every true link from it or the item stays in holds what is below.
LEMMA BelowLeast ==
  ASSUME NEW ls, NEW i, NEW C,
         \A l \in TrueLinks(ls) : l.parent = i \/ l.parent \in C => l.child \in C
  PROVE  TrueBelow(ls, i) \subseteq C
<1> DEFINE X == {l \in TrueLinks(ls) : l.child \in C}
<1>1. LinksBelow(TrueLinks(ls), i) \subseteq X
  <2>1. Start(TrueLinks(ls), i) \subseteq X
    BY DEF Start
  <2>2. \A k \in X, l \in TrueLinks(ls) : l.parent = k.child => l \in X
    OBVIOUS
  <2>. HIDE DEF X
  <2>. QED BY <2>1, <2>2, LinksBelowLeast
<1>. QED BY <1>1 DEF TrueBelow, Children

\* What is below the item hangs by a true link from it or from below it.
LEMMA BelowHangs ==
  ASSUME NEW ls \in SUBSET Link, NEW i, NEW z \in TrueBelow(ls, i)
  PROVE  \E l \in TrueLinks(ls) :
           l.child = z /\ (l.parent = i \/ l.parent \in TrueBelow(ls, i))
<1> DEFINE C == {l.child : l \in {k \in TrueLinks(ls) :
                                    k.parent = i \/ k.parent \in TrueBelow(ls, i)}}
<1>1. C \subseteq TrueBelow(ls, i)
  BY BelowFollows
<1>2. \A l \in TrueLinks(ls) : l.parent = i \/ l.parent \in C => l.child \in C
  BY <1>1
<1>3. TrueBelow(ls, i) \subseteq C
  <2>. HIDE DEF C
  <2>. QED BY <1>2, BelowLeast
<1>. QED BY <1>3

(* What is below an item are items.                                          *)
LEMMA BelowItems ==
  ASSUME NEW ls \in SUBSET Link, NEW i
  PROVE  TrueBelow(ls, i) \subseteq Items
  BY BelowLeast DEF TrueLinks, Link

-----------------------------------------------------------------------------
(* One true parent.                                                          *)

TrueLink(up, i) == [parent |-> up, child |-> i, true |-> TRUE]

\* A store is a tree: a true link leads to each item that exists but the account
\* and to no other, and none starts at an item that never was; the trash stays
\* below the account; soft links lead from outside the trash to what is no folder.
TreeOf(s) ==
  /\ \A i \in Items \ {Root} : Exists(s, i) => \E l \in TrueLinks(s.links) : l.child = i
  /\ \A k, l \in TrueLinks(s.links) : k.child = l.child => k = l
  /\ \A l \in TrueLinks(s.links) :
       /\ Exists(s, l.child) /\ l.child # Root
       /\ s.items[l.parent].state # "unused"
  /\ TrueLink(Root, Trash) \in s.links
  /\ \A l \in s.links : ~l.true => l.parent # Trash /\ Kind[l.child] # "folder"
  /\ \A i \in Items : s.items[i].parent # Trash

\* What a request is about: nothing is created in the trash or from a folder as
\* holder, the trash is not deleted, and only tasks are linked on.
Aimed(r) ==
  /\ r.op = "create" /\ r.step \in {"locked", "found", "open"} =>
       r.parent # Trash /\ r.holder \in Holders \cup {None}
  /\ r.op \in {"delete", "purge"} => r.item # Trash
  /\ r.step = "created" => Kind[r.item] = "task"
  /\ r.step = "linking" => Kind[r.item] # "folder" /\ r.parent # Trash

\* The snapshot of an open transaction is a tree too, its true links are those of
\* now except to items the transaction misses, and an item it holds stays known.
SnapshotTree(r) ==
  r.step = "open" =>
    /\ TreeOf(r.snap)
    /\ \A l \in Link : l.true /\ l.child \notin r.missed =>
         (l \in r.snap.links <=> l \in links)
    /\ \A i \in Items : items[i].state = "unused" => r.snap.items[i].state = "unused"

ParentInv ==
  /\ KeyInv /\ TreeOf(Now)
  /\ \A p \in Requests : Aimed(req[p]) /\ SnapshotTree(req[p])

\* The account has no true parent, and nothing but the account is above the trash.
LEMMA TrashNotBelow ==
  ASSUME NEW s \in Store, TreeOf(s), NEW i \in Items \ {Root}, i # Trash
  PROVE  Trash \notin TrueBelow(s.links, i) /\ Root \notin TrueBelow(s.links, i)
<1> DEFINE C == Items \ {Root, Trash}
<1>1. ASSUME NEW l \in TrueLinks(s.links), l.parent = i \/ l.parent \in C
      PROVE  l.child \in C
  <2>1. l.child \in Items /\ l.child # Root
    BY DEF TreeOf, TrueLinks, Store, Link
  <2>2. CASE l.child = Trash
    <3>1. TrueLink(Root, Trash) \in TrueLinks(s.links) /\ TrueLink(Root, Trash).child = l.child
      BY <2>2 DEF TreeOf, TrueLinks, TrueLink
    <3>2. l = TrueLink(Root, Trash)
      BY <3>1 DEF TreeOf
    <3>. QED BY <1>1, <3>2 DEF TrueLink
  <2>. QED BY <2>1, <2>2
<1>2. TrueBelow(s.links, i) \subseteq C
  <2>. HIDE DEF C
  <2>. QED BY <1>1, BelowLeast
<1>. QED BY <1>2

\* A commit that moves true links only to items it writes, and leaves a tree.
LEMMA CommitParentInv ==
  ASSUME ParentInv, KeyInv', NEW p \in Requests, NEW W, NEW ni, NEW nl, NEW next,
         Commit(p, W, ni, nl, next), next.step # "open", Aimed(next),
         TreeOf(Now)',
         \A i \in Items : items[i].state # "unused" => items'[i].state # "unused",
         \A l \in Link : l.true /\ l.child \notin W => (l \in links' <=> l \in links)
  PROVE  ParentInv'
<1>0. TypeInv /\ req'[p] = next
  BY DEF ParentInv, KeyInv, Commit
<1>1. ASSUME NEW q \in Requests PROVE Aimed(req'[q]) /\ SnapshotTree(req[q])'
  <2>1. CASE q = p
    BY <1>0, <2>1 DEF SnapshotTree
  <2>2. CASE q # p
    <3>1. Aimed(req[q]) /\ SnapshotTree(req[q]) /\ req[q] \in Request
      BY <1>0 DEF ParentInv, TypeInv, CatalogTypeOK
    <3>2. CASE req[q].step # "open"
      <4>1. req'[q] = req[q]
        BY <2>2, <3>2 DEF Commit
      <4>. QED BY <3>1, <3>2, <4>1 DEF SnapshotTree
    <3>3. CASE req[q].step = "open"
      <4> DEFINE new == W \cup (req[p].snap.links \ nl)
      <4>1. req'[q] = [req[q] EXCEPT !.missed = @ \cup W \cup (req[p].snap.links \ nl)]
        BY <2>2, <3>3 DEF Commit
      <4>2. /\ req'[q].op = req[q].op /\ req'[q].step = req[q].step
            /\ req'[q].item = req[q].item /\ req'[q].parent = req[q].parent
            /\ req'[q].holder = req[q].holder /\ req'[q].snap = req[q].snap
            /\ req[q].missed \subseteq req'[q].missed /\ W \subseteq req'[q].missed
        BY <3>1, <4>1 DEF Request
      <4>3. Aimed(req'[q])
        BY <3>1, <4>2 DEF Aimed
      <4>4. SnapshotTree(req[q])'
        BY <3>1, <3>3, <4>2 DEF SnapshotTree
      <4>. QED BY <4>3, <4>4
    <3>. QED BY <3>2, <3>3
  <2>. QED BY <2>1, <2>2
<1>. QED BY <1>1 DEF ParentInv

\* A request that writes no item and moves no true link.
LEMMA QuietParentInv ==
  ASSUME ParentInv, KeyInv', NEW p \in Requests, NEW r, Aimed(r),
         req' = [req EXCEPT ![p] = r], r.step = "open" => r.snap = Now,
         items' = items,
         \/ links' = links
         \/ \E up \in Items \ {Trash}, i \in Items :
              /\ Kind[i] # "folder"
              /\ links' = links \cup {[parent |-> up, child |-> i, true |-> FALSE]}
  PROVE  ParentInv'
<1>0. TypeInv /\ req \in [Requests -> Request] /\ req'[p] = r
  BY DEF ParentInv, KeyInv, TypeInv, CatalogTypeOK
<1>1. /\ TrueLinks(links') = TrueLinks(links)
      /\ \A l \in links' : ~l.true /\ l \notin links => l.parent # Trash /\ Kind[l.child] # "folder"
      /\ \A l \in links : l \in links'
  BY DEF TrueLinks
<1>2. TreeOf(Now)'
  BY <1>1 DEF ParentInv, TreeOf, Now, Exists, TrueLink, TrueLinks
<1>3. ASSUME NEW q \in Requests PROVE Aimed(req'[q]) /\ SnapshotTree(req[q])'
  <2>1. CASE q = p
    <3>1. r.step = "open" => TreeOf(r.snap)
      BY DEF ParentInv
    <3>2. \A l \in Link : l.true => (l \in links <=> l \in links')
      BY <1>1 DEF TrueLinks
    <3>. QED BY <1>0, <2>1, <3>1, <3>2 DEF SnapshotTree, Now
  <2>2. CASE q # p
    <3>1. req'[q] = req[q] /\ Aimed(req[q]) /\ SnapshotTree(req[q])
      BY <1>0, <2>2 DEF ParentInv
    <3>2. \A l \in Link : l.true => (l \in links <=> l \in links')
      BY <1>1 DEF TrueLinks
    <3>. QED BY <3>1, <3>2 DEF SnapshotTree
  <2>. QED BY <2>1, <2>2
<1>. QED BY <1>2, <1>3 DEF ParentInv

(* What an open transaction knows.                                           *)
LEMMA OpenFacts ==
  ASSUME ParentInv, NEW p \in Requests, req[p].step = "open"
  PROVE  /\ req[p].snap \in Store /\ req[p].snap.links \in SUBSET Link
         /\ TreeOf(req[p].snap)
         /\ \A l \in Link : l.true /\ l.child \notin req[p].missed =>
              (l \in req[p].snap.links <=> l \in links)
         /\ \A i \in Items : i \notin req[p].missed => req[p].snap.items[i] = items[i]
<1>1. WellFormed(req[p]) /\ SnapshotTree(req[p])
  BY DEF ParentInv, KeyInv, TypeInv
<1>2. req[p].snap \in Store
  BY <1>1 DEF WellFormed
<1>3. req[p].snap.links \in SUBSET Link
  BY <1>2 DEF Store
<1>. QED BY <1>1, <1>2, <1>3 DEF SnapshotTree, ParentInv, KeyInv, SnapshotCurrent

(* A true link is known by its ends.                                         *)
LEMMA TrueLinkIs ==
  /\ \A l \in Link : l.true => l = TrueLink(l.parent, l.child)
  /\ \A up, i : /\ TrueLink(up, i).parent = up /\ TrueLink(up, i).child = i
                /\ TrueLink(up, i).true
  /\ \A up \in Items, i \in Items : TrueLink(up, i) \in Link
  BY DEF Link, TrueLink

\* A delete moves the item's true link, current as the item is, to the trash, and
\* marks it and what its snapshot has below it.
LEMMA SoftDeleteMoves ==
  ASSUME ParentInv, NEW p \in Requests, SoftDelete(p)
  PROVE  LET A == req[p].item
             up == req[p].parent
             S == TrueBelow(req[p].snap.links, A) \cup {A}
         IN  /\ req[p].step = "open" /\ A \in Items \ {Root, Trash} /\ up \in Items \ {Trash}
             /\ S \subseteq Items /\ S \cap req[p].missed = {}
             /\ \A i \in S : items[i].state \in {"live", "deleted"}
             /\ items' = WithState(S, "deleted")
             /\ TrueLink(up, A) \in links /\ TrueLink(up, A) \in req[p].snap.links
             /\ TrueLinks(links') = (TrueLinks(links) \ {TrueLink(up, A)})
                                       \cup {TrueLink(Trash, A)}
             /\ \A l \in links' : ~l.true => l \in links
             /\ \E nl : Commit(p, S, WithState(S, "deleted"), nl, Idle)
<1> DEFINE A == req[p].item
           up == req[p].parent
           snap == req[p].snap
           S == TrueBelow(snap.links, A) \cup {A}
           W == Present(p, S)
<1>1. PICK l \in TrueLinks(Between(snap.links, up, A)) :
        Commit(p, W, WithState(W, "deleted"), Trashed(snap.links, l, S), Idle)
  BY DEF SoftDelete
<1>2. req[p].step = "open" /\ req[p].op = "delete" /\ up # Trash
  BY <1>1 DEF Commit, SoftDelete
<1>3. /\ snap \in Store /\ snap.links \in SUBSET Link /\ TreeOf(snap)
      /\ \A k \in Link : k.true /\ k.child \notin req[p].missed =>
           (k \in snap.links <=> k \in links)
      /\ \A i \in Items : i \notin req[p].missed => snap.items[i] = items[i]
      /\ links \in SUBSET Link
  BY <1>2, OpenFacts DEF ParentInv, KeyInv, TypeInv, CatalogTypeOK
<1>4. A \in Items /\ A # Trash
  BY <1>2 DEF ParentInv, KeyInv, TypeInv, WellFormed, Aimed
<1>5. /\ l \in snap.links /\ l \in TrueLinks(snap.links) /\ l \in Link /\ l.true
      /\ l.parent = up /\ l.child = A
  BY <1>3 DEF TrueLinks, Between
<1>6. l = TrueLink(up, A) /\ up \in Items
  BY <1>5, TrueLinkIs DEF Link
<1>7. A # Root /\ Exists(snap, A)
  BY <1>3, <1>5 DEF TreeOf
<1>8. S \subseteq Items /\ \A i \in S : Exists(snap, i)
  <2>1. TrueBelow(snap.links, A) \subseteq Items
    BY <1>3, BelowItems
  <2>2. \A i \in TrueBelow(snap.links, A) : Exists(snap, i)
    BY <1>3, BelowHangs DEF TreeOf
  <2>. QED BY <1>4, <1>7, <2>1, <2>2
<1>9. W = S
  BY <1>8 DEF Present
<1>10. S \cap req[p].missed = {}
  BY <1>1, <1>9 DEF Commit
<1>11. \A i \in S : items[i].state \in {"live", "deleted"}
  BY <1>3, <1>8, <1>10 DEF Exists
<1>12. l \in links
  BY <1>3, <1>5, <1>10
<1>13. /\ links' = (links \ (snap.links \ Trashed(snap.links, l, S)))
                     \cup (Trashed(snap.links, l, S) \ snap.links)
       /\ items' = [i \in Items |-> IF i \in S THEN WithState(S, "deleted")[i] ELSE items[i]]
  BY <1>1, <1>9 DEF Commit
<1>14. items' = WithState(S, "deleted")
  BY <1>13 DEF WithState
<1>15. TrueLink(Trash, A) \notin snap.links /\ TrueLink(Trash, A) \notin links
  <2>1. TrueLink(Trash, A) # l
    BY <1>2, <1>6 DEF TrueLink
  <2>2. TrueLink(Trash, A) \notin snap.links
    BY <1>3, <1>5, <2>1 DEF TreeOf, TrueLinks, TrueLink
  <2>3. TrueLink(Trash, A) \in Link
    BY <1>4, CatalogAssumption, TrueLinkIs
  <2>. QED BY <1>3, <1>10, <2>2, <2>3, TrueLinkIs
<1>16. Trashed(snap.links, l, S) =
         (snap.links \ ({l} \cup {k \in snap.links : ~k.true /\ k.child \in S}))
           \cup {TrueLink(Trash, A)}
  BY <1>5 DEF Trashed, TrueLink
<1>17. TrueLinks(links') = (TrueLinks(links) \ {l}) \cup {TrueLink(Trash, A)}
  <2>1. TrueLink(Trash, A).true /\ l.true
    BY <1>5, TrueLinkIs
  <2>. QED BY <1>12, <1>13, <1>15, <1>16, <2>1, <1>5 DEF TrueLinks
<1>18. \A k \in links' : ~k.true => k \in links
  <2>1. TrueLink(Trash, A).true
    BY TrueLinkIs
  <2>. QED BY <1>13, <1>16, <2>1
<1>19. \E nl : Commit(p, S, WithState(S, "deleted"), nl, Idle)
  BY <1>1, <1>9
<1>. HIDE DEF S, W
<1>20. up \in Items \ {Trash} /\ A \in Items \ {Root, Trash}
  BY <1>2, <1>4, <1>6, <1>7
<1>. QED BY <1>2, <1>5, <1>6, <1>8, <1>10, <1>11, <1>12, <1>14, <1>17, <1>18, <1>19, <1>20 DEF S

\* A restore moves the link from the trash to the home, and revives the item and
\* what its snapshot has below it.
LEMMA RestoreMoves ==
  ASSUME ParentInv, NEW p \in Requests, Restore(p)
  PROVE  LET R == req[p].item
             home == req[p].snap.items[R].parent
             S == TrueBelow(req[p].snap.links, R) \cup {R}
         IN  /\ req[p].step = "open" /\ R \in Items \ {Root, Trash} /\ home \in Items \ {Trash}
             /\ IsLive(req[p].snap, home)
             /\ S \subseteq Items /\ S \cap req[p].missed = {}
             /\ \A i \in S : items[i].state \in {"live", "deleted"}
             /\ items' = WithState(S, "live")
             /\ TrueLink(Trash, R) \in links /\ TrueLink(Trash, R) \in req[p].snap.links
             /\ TrueLinks(links') = (TrueLinks(links) \ {TrueLink(Trash, R)})
                                       \cup {TrueLink(home, R)}
             /\ \A l \in links' : ~l.true => l \in links
             /\ \E nl : Commit(p, S, WithState(S, "live"), nl, Idle)
<1> DEFINE R == req[p].item
           snap == req[p].snap
           home == snap.items[R].parent
           S == TrueBelow(snap.links, R) \cup {R}
           W == Present(p, S)
<1>1. PICK l \in Between(snap.links, Trash, R) :
        Commit(p, W, WithState(W, "live"), (snap.links \ {l}) \cup {TrueLink(home, R)}, Idle)
  BY DEF Restore, TrueLink
<1>2. /\ req[p].step = "open" /\ req[p].op = "restore"
      /\ Exists(snap, R) /\ home # None /\ IsLive(snap, home)
  BY <1>1 DEF Commit, Restore
<1>3. /\ snap \in Store /\ snap.links \in SUBSET Link /\ TreeOf(snap)
      /\ \A k \in Link : k.true /\ k.child \notin req[p].missed =>
           (k \in snap.links <=> k \in links)
      /\ \A i \in Items : i \notin req[p].missed => snap.items[i] = items[i]
      /\ links \in SUBSET Link
  BY <1>2, OpenFacts DEF ParentInv, KeyInv, TypeInv, CatalogTypeOK
<1>4. R \in Items
  BY <1>2 DEF ParentInv, KeyInv, TypeInv, WellFormed
<1>5. /\ l \in snap.links /\ l \in TrueLinks(snap.links) /\ l \in Link /\ l.true
      /\ l.parent = Trash /\ l.child = R
  BY <1>3 DEF TrueLinks, Between, TreeOf
<1>6. l = TrueLink(Trash, R)
  BY <1>5, TrueLinkIs
<1>7. R # Root /\ R # Trash
  <2>1. R # Root
    BY <1>3, <1>5 DEF TreeOf
  <2>2. CASE R = Trash
    <3>1. TrueLink(Root, Trash) \in TrueLinks(snap.links) /\ TrueLink(Root, Trash).child = R
      BY <1>3, <2>2 DEF TreeOf, TrueLinks, TrueLink
    <3>2. l = TrueLink(Root, Trash)
      BY <1>3, <1>5, <3>1 DEF TreeOf
    <3>. QED BY <1>5, <3>2, TrueLinkIs, CatalogAssumption
  <2>. QED BY <2>1, <2>2
<1>16. home \in Items /\ home # Trash
  BY <1>2, <1>3, <1>4 DEF Store, Item, TreeOf
<1>8. S \subseteq Items /\ \A i \in S : Exists(snap, i)
  <2>1. TrueBelow(snap.links, R) \subseteq Items
    BY <1>3, BelowItems
  <2>2. \A i \in TrueBelow(snap.links, R) : Exists(snap, i)
    BY <1>3, BelowHangs DEF TreeOf
  <2>. QED BY <1>2, <1>4, <2>1, <2>2
<1>9. W = S
  BY <1>8 DEF Present
<1>10. S \cap req[p].missed = {}
  BY <1>1, <1>9 DEF Commit
<1>11. \A i \in S : items[i].state \in {"live", "deleted"}
  BY <1>3, <1>8, <1>10 DEF Exists
<1>12. l \in links
  BY <1>3, <1>5, <1>10
<1> DEFINE nl == (snap.links \ {l}) \cup {TrueLink(home, R)}
<1>13. /\ links' = (links \ (snap.links \ nl)) \cup (nl \ snap.links)
       /\ items' = [i \in Items |-> IF i \in S THEN WithState(S, "live")[i] ELSE items[i]]
  BY <1>1, <1>9 DEF Commit
<1>14. items' = WithState(S, "live")
  BY <1>13 DEF WithState
<1>15. TrueLink(home, R) \notin snap.links /\ TrueLink(home, R) \notin links
  <2>1. TrueLink(home, R) # l
    BY <1>6, <1>16 DEF TrueLink
  <2>2. TrueLink(home, R) \notin snap.links
    BY <1>3, <1>5, <2>1 DEF TreeOf, TrueLinks, TrueLink
  <2>3. TrueLink(home, R) \in Link
    BY <1>4, <1>16, TrueLinkIs
  <2>. QED BY <1>3, <1>10, <2>2, <2>3, TrueLinkIs
<1>17. TrueLinks(links') = (TrueLinks(links) \ {l}) \cup {TrueLink(home, R)}
  <2>1. TrueLink(home, R).true /\ l.true
    BY <1>5, TrueLinkIs
  <2>. QED BY <1>12, <1>13, <1>15, <2>1, <1>5 DEF TrueLinks
<1>18. \A k \in links' : ~k.true => k \in links
  <2>1. TrueLink(home, R).true
    BY TrueLinkIs
  <2>. QED BY <1>13, <2>1
<1>19. \E nk : Commit(p, S, WithState(S, "live"), nk, Idle)
  BY <1>1, <1>9
<1>. HIDE DEF S, W
<1>20. home \in Items \ {Trash} /\ R \in Items \ {Root, Trash}
  BY <1>4, <1>7, <1>16
<1>. QED BY <1>2, <1>5, <1>6, <1>8, <1>10, <1>11, <1>12, <1>14, <1>17, <1>18, <1>19, <1>20 DEF S

\* A removal takes the true links to what it purges, and what it purges has all
\* its children in the snapshot purged too.
LEMMA HardDeleteMoves ==
  ASSUME ParentInv, NEW p \in Requests, HardDelete(p)
  PROVE  LET R == req[p].item
             ls == req[p].snap.links
             W == Present(p, Children(TrueLinks(LinksBelow(ls, R))) \cup {R})
         IN  /\ req[p].step = "open" /\ R \in Items
             /\ W \subseteq Items \ {Root, Trash} /\ W \cap req[p].missed = {}
             /\ \A i \in W : items[i].state \in {"live", "deleted"}
             /\ items' = WithState(W, "purged")
             /\ TrueLinks(links') = {l \in TrueLinks(links) : l.child \notin W}
             /\ links' \subseteq links
             /\ \A l \in TrueLinks(ls) : l.parent \in W => l.child \in W
             /\ links' = links \ Doomed(ls, R)
             /\ \E nl : Commit(p, W, WithState(W, "purged"), nl, Idle)
<1> DEFINE R == req[p].item
           snap == req[p].snap
           ls == snap.links
           V == Children(TrueLinks(LinksBelow(ls, R)))
           W == Present(p, V \cup {R})
           nl == ls \ Doomed(ls, R)
<1>1. Commit(p, W, WithState(W, "purged"), nl, Idle) /\ Between(ls, req[p].parent, R) # {}
  BY DEF HardDelete
<1>2. req[p].step = "open" /\ req[p].op \in {"delete", "purge"}
  BY <1>1 DEF Commit, HardDelete
<1>3. /\ snap \in Store /\ ls \in SUBSET Link /\ TreeOf(snap)
      /\ \A k \in Link : k.true /\ k.child \notin req[p].missed => (k \in ls <=> k \in links)
      /\ \A i \in Items : i \notin req[p].missed => snap.items[i] = items[i]
      /\ links \in SUBSET Link
  BY <1>2, OpenFacts DEF ParentInv, KeyInv, TypeInv, CatalogTypeOK
<1>4. R \in Items /\ R # Trash
  BY <1>2 DEF ParentInv, KeyInv, TypeInv, WellFormed, Aimed
<1>5. \A l \in ls : l.child # Root
  BY <1>3, CatalogAssumption DEF TreeOf, TrueLinks
<1>6. R # Root
  BY <1>1, <1>5 DEF Between
<1>7. LinksBelow(ls, R) \subseteq ls /\ LinksBelow(ls, R) \subseteq {l \in ls : l.parent # Root}
  <2> DEFINE X == {l \in ls : l.parent # Root}
  <2>1. Start(ls, R) \subseteq X
    BY <1>6 DEF Start
  <2>2. \A k \in X, l \in ls : l.parent = k.child => l \in X
    BY <1>5
  <2>3. LinksBelow(ls, R) \subseteq X
    <3>. HIDE DEF X
    <3>. QED BY <2>1, <2>2, LinksBelowLeast
  <2>. QED BY <2>3
<1>8. \A z \in V : \E l \in TrueLinks(ls) : l \in LinksBelow(ls, R) /\ l.child = z
  BY <1>7 DEF Children, TrueLinks
<1>9. \A z \in V : Exists(snap, z) /\ z \in Items \ {Root, Trash}
  <2> SUFFICES ASSUME NEW z \in V PROVE Exists(snap, z) /\ z \in Items \ {Root, Trash}
    OBVIOUS
  <2>1. PICK l \in TrueLinks(ls) : l \in LinksBelow(ls, R) /\ l.child = z
    BY <1>8
  <2>2. Exists(snap, z) /\ z \in Items /\ z # Root
    BY <1>3, <2>1 DEF TreeOf, TrueLinks, Link
  <2>3. CASE z = Trash
    <3>1. TrueLink(Root, Trash) \in TrueLinks(ls) /\ TrueLink(Root, Trash).child = z
      BY <1>3, <2>3 DEF TreeOf, TrueLinks, TrueLink
    <3>2. l = TrueLink(Root, Trash)
      BY <1>3, <2>1, <3>1 DEF TreeOf
    <3>. QED BY <1>7, <2>1, <3>2, TrueLinkIs
  <2>. QED BY <2>2, <2>3
<1>10. W = V \cup {i \in {R} : Exists(snap, i)}
  BY <1>4, <1>9 DEF Present
<1>11. W \subseteq Items \ {Root, Trash} /\ \A i \in W : Exists(snap, i)
  BY <1>4, <1>6, <1>9, <1>10
<1>12. W \cap req[p].missed = {}
  BY <1>1 DEF Commit
<1>13. \A i \in W : items[i].state \in {"live", "deleted"}
  BY <1>3, <1>11, <1>12 DEF Exists
<1>14. /\ links' = (links \ (ls \ nl)) \cup (nl \ ls)
       /\ items' = [i \in Items |-> IF i \in W THEN WithState(W, "purged")[i] ELSE items[i]]
  BY <1>1 DEF Commit
<1>15. items' = WithState(W, "purged")
  BY <1>14 DEF WithState
<1>16. Doomed(ls, R) \subseteq ls
  BY <1>7 DEF Doomed
<1>17. links' = links \ Doomed(ls, R)
  BY <1>14, <1>16
<1>18. \A l \in TrueLinks(ls) : l.parent \in W => l.child \in W
  <2> SUFFICES ASSUME NEW l \in TrueLinks(ls), l.parent \in W PROVE l.child \in W
    OBVIOUS
  <2>1. l \in ls /\ l.true
    BY DEF TrueLinks
  <2>2. l \in LinksBelow(ls, R)
    <3>1. CASE l.parent = R
      BY <2>1, <3>1, LinksBelowLeast DEF Start
    <3>2. CASE l.parent \in V
      <4>1. PICK k \in LinksBelow(ls, R) : k.child = l.parent
        BY <1>8, <3>2
      <4>. QED BY <1>3, <2>1, <4>1, LinksBelowClosed
    <3>. QED BY <1>10, <3>1, <3>2
  <2>3. l.child \in V
    BY <2>1, <2>2 DEF Children, TrueLinks
  <2>. QED BY <1>10, <2>3
<1>19. \A l \in TrueLinks(ls) : l.child \in W <=> l \in Doomed(ls, R)
  <2> SUFFICES ASSUME NEW l \in TrueLinks(ls) PROVE l.child \in W <=> l \in Doomed(ls, R)
    OBVIOUS
  <2>1. l \in ls /\ l.true /\ Exists(snap, l.child)
    BY <1>3 DEF TrueLinks, TreeOf
  <2>2. ASSUME l.child \in W PROVE l \in Doomed(ls, R)
    <3>1. CASE l.child = R
      BY <2>1, <3>1 DEF Doomed
    <3>2. CASE l.child \in V
      <4>1. PICK k \in TrueLinks(ls) : k \in LinksBelow(ls, R) /\ k.child = l.child
        BY <1>8, <3>2
      <4>2. k = l
        BY <1>3, <4>1 DEF TreeOf
      <4>. QED BY <4>1, <4>2 DEF Doomed
    <3>. QED BY <1>10, <2>2, <3>1, <3>2
  <2>3. ASSUME l \in Doomed(ls, R) PROVE l.child \in W
    <3>1. l \in LinksBelow(ls, R) \/ l.child = R
      BY <2>1, <2>3 DEF Doomed
    <3>2. CASE l \in LinksBelow(ls, R)
      BY <1>10, <2>1, <3>2 DEF Children, TrueLinks
    <3>3. CASE l.child = R
      BY <1>10, <2>1, <3>3
    <3>. QED BY <3>1, <3>2, <3>3
  <2>. QED BY <2>2, <2>3
<1>20. TrueLinks(links') = {l \in TrueLinks(links) : l.child \notin W}
  <2>1. ASSUME NEW l \in TrueLinks(links), l.child \in W PROVE l \in Doomed(ls, R)
    <3>1. l \in Link /\ l.true /\ l \in links /\ l.child \notin req[p].missed
      BY <1>3, <1>12, <2>1 DEF TrueLinks
    <3>2. l \in TrueLinks(ls)
      BY <1>3, <3>1 DEF TrueLinks
    <3>. QED BY <1>19, <2>1, <3>2
  <2>2. ASSUME NEW l \in TrueLinks(links), l \in Doomed(ls, R) PROVE l.child \in W
    BY <1>16, <1>19, <2>2 DEF TrueLinks
  <2>. QED BY <1>17, <2>1, <2>2 DEF TrueLinks
<1>. HIDE DEF W, nl
<1>. QED BY <1>1, <1>2, <1>4, <1>11, <1>12, <1>13, <1>15, <1>17, <1>18, <1>20 DEF W

\* A creation adds the true link of an item that had no links at either end.
LEMMA CreateItemMoves ==
  ASSUME ParentInv, NEW p \in Requests, NEW i \in Items, CreateItem(p, i)
  PROVE  LET up == req[p].parent
             ni == [items EXCEPT ![i] = [state |-> "live", version |-> 1, parent |-> up]]
             next == IF Kind[i] = "task"
                     THEN [Idle EXCEPT !.step = "created", !.op = "create", !.item = i]
                     ELSE Idle
         IN  /\ req[p].step = "open" /\ req[p].op = "create" /\ up \in Items \ {Trash, i}
             /\ Exists(req[p].snap, up)
             /\ req[p].holder = None \/ Exists(req[p].snap, req[p].holder)
             /\ i \notin {Root, Trash} /\ items[i].state = "unused"
             /\ items' = ni
             /\ \A l \in TrueLinks(links) : l.child # i /\ l.parent # i
             /\ TrueLinks(links') = TrueLinks(links) \cup {TrueLink(up, i)}
             /\ links \subseteq links'
             /\ \A l \in links' : ~l.true =>
                  \/ l \in links
                  \/ l.parent # Trash /\ l.child = i /\ Kind[i] # "folder"
                     /\ l.parent = req[p].holder
             /\ \E nl : Commit(p, {i}, ni, nl, next)
<1> DEFINE r == req[p]
           up == r.parent
           snap == r.snap
           ni == [items EXCEPT ![i] = [state |-> "live", version |-> 1, parent |-> up]]
           soft == IF r.holder = None THEN {}
                   ELSE {[parent |-> r.holder, child |-> i, true |-> FALSE]}
           nl == snap.links \cup {TrueLink(up, i)} \cup soft
           next == IF Kind[i] = "task"
                   THEN [Idle EXCEPT !.step = "created", !.op = "create", !.item = i]
                   ELSE Idle
<1>1. /\ Commit(p, {i}, ni, nl, next) /\ r.op = "create" /\ items[i].state = "unused"
      /\ Exists(snap, up)
      /\ r.holder # None => Kind[i] = "task" /\ Exists(snap, r.holder)
  BY DEF CreateItem, TrueLink
<1>2. r.step = "open"
  BY <1>1 DEF Commit
<1>3. /\ snap.links \in SUBSET Link /\ links \in SUBSET Link /\ items \in [Items -> Item]
      /\ TreeOf(snap) /\ TreeOf(Now) /\ Aimed(r)
      /\ \A j \in Items : items[j].state = "unused" => snap.items[j].state = "unused"
  BY <1>2, OpenFacts DEF ParentInv, KeyInv, TypeInv, CatalogTypeOK, SnapshotTree
<1>4. up \in Items /\ up # Trash /\ r.holder \in Holders \cup {None}
  BY <1>1, <1>2, <1>3 DEF ParentInv, KeyInv, TypeInv, WellFormed, Aimed
<1>5. snap.items[i].state = "unused" /\ up # i
  BY <1>1, <1>3 DEF Exists
<1>6. \A l \in TrueLinks(links) : l.child # i /\ l.parent # i
  BY <1>1, <1>3 DEF TreeOf, Now, Exists
<1>7. \A l \in TrueLinks(snap.links) : l.child # i
  BY <1>3, <1>5 DEF TreeOf, Exists
<1>8. i # Trash /\ i # Root
  <2>1. TrueLink(Root, Trash) \in TrueLinks(links)
    BY <1>3, TrueLinkIs DEF TreeOf, Now, TrueLinks
  <2>. QED BY <1>6, <2>1, TrueLinkIs
<1>9. links' = links \cup (nl \ snap.links)
  BY <1>1 DEF Commit
<1>10. items' = ni
  <2>1. items' = [j \in Items |-> IF j \in {i} THEN ni[j] ELSE items[j]]
    BY <1>1 DEF Commit
  <2>. QED BY <1>3, <2>1
<1>11. TrueLinks(links') = TrueLinks(links) \cup {TrueLink(up, i)}
  <2>1. TrueLink(up, i).true /\ TrueLink(up, i) \notin snap.links
    BY <1>7, TrueLinkIs DEF TrueLinks
  <2>2. \A l \in soft : ~l.true
    OBVIOUS
  <2>. HIDE DEF soft
  <2>. QED BY <1>9, <2>1, <2>2 DEF TrueLinks
<1>12. \A l \in links' : ~l.true =>
          \/ l \in links
          \/ l.parent # Trash /\ l.child = i /\ Kind[i] # "folder" /\ l.parent = r.holder
  <2>1. \A l \in soft : /\ l.parent = r.holder /\ l.child = i
                        /\ r.holder \in Holders /\ Kind[i] = "task"
    BY <1>1, <1>4
  <2>2. Trash \notin Holders
    BY CatalogAssumption DEF Holders
  <2>3. TrueLink(up, i).true
    BY TrueLinkIs
  <2>. HIDE DEF soft
  <2>. QED BY <1>9, <2>1, <2>2, <2>3
<1>. HIDE DEF nl, ni, next
<1>13. \E ls : Commit(p, {i}, ni, ls, next)
  BY <1>1
<1>14. links \subseteq links'
  BY <1>9
<1>. QED BY <1>1, <1>2, <1>4, <1>5, <1>6, <1>8, <1>10, <1>11, <1>12, <1>13, <1>14 DEF ni, next

\* Hanging an item elsewhere leaves a tree.
LEMMA MovedTree ==
  ASSUME ParentInv, NEW A \in Items \ {Root, Trash}, NEW from \in Items, NEW to \in Items,
         TrueLink(from, A) \in links, items[to].state # "unused",
         TrueLinks(links') = (TrueLinks(links) \ {TrueLink(from, A)}) \cup {TrueLink(to, A)},
         \A l \in links' : ~l.true => l \in links,
         \A i \in Items : /\ items'[i].parent = items[i].parent
                          /\ Exists(Now, i)' <=> Exists(Now, i)
                          /\ items'[i].state = "unused" <=> items[i].state = "unused"
  PROVE  TreeOf(Now)'
<1>1. TreeOf(Now) /\ links \in SUBSET Link
  BY DEF ParentInv, KeyInv, TypeInv, CatalogTypeOK
<1>2. /\ TrueLink(from, A) \in TrueLinks(links)
      /\ TrueLink(from, A).child = A /\ TrueLink(to, A).child = A /\ TrueLink(to, A).parent = to
  BY TrueLinkIs DEF TrueLinks
<1>3. Exists(Now, A)
  BY <1>1, <1>2 DEF TreeOf, Now
<1>4. \A k \in TrueLinks(links) : k.child = A => k = TrueLink(from, A)
  BY <1>1, <1>2 DEF TreeOf, Now
<1>5. \A i \in Items \ {Root} : Exists(Now, i)' => \E l \in TrueLinks(links') : l.child = i
  <2> SUFFICES ASSUME NEW i \in Items \ {Root}, Exists(Now, i)
               PROVE  \E l \in TrueLinks(links') : l.child = i
    OBVIOUS
  <2>1. PICK l \in TrueLinks(links) : l.child = i
    BY <1>1 DEF TreeOf, Now
  <2>. QED BY <1>2, <2>1
<1>6. \A k, l \in TrueLinks(links') : k.child = l.child => k = l
  BY <1>1, <1>2, <1>4 DEF TreeOf, Now
<1>7. \A l \in TrueLinks(links') :
        /\ Exists(Now, l.child)' /\ l.child # Root
        /\ items'[l.parent].state # "unused"
  <2> SUFFICES ASSUME NEW l \in TrueLinks(links')
               PROVE  /\ Exists(Now, l.child)' /\ l.child # Root
                      /\ items'[l.parent].state # "unused"
    OBVIOUS
  <2>1. CASE l = TrueLink(to, A)
    BY <1>2, <1>3, <2>1
  <2>2. CASE l \in TrueLinks(links)
    <3>1. l.child \in Items /\ l.parent \in Items
      BY <1>1, <2>2 DEF TrueLinks, Link
    <3>. QED BY <1>1, <2>2, <3>1 DEF TreeOf, Now
  <2>. QED BY <2>1, <2>2
<1>8. TrueLink(Root, Trash) \in links'
  <2>1. TrueLink(Root, Trash) \in TrueLinks(links) /\ TrueLink(Root, Trash).child = Trash
    BY <1>1, TrueLinkIs DEF TreeOf, Now, TrueLinks
  <2>2. TrueLink(Root, Trash) # TrueLink(from, A)
    BY <1>2, <2>1
  <2>3. TrueLink(Root, Trash) \in TrueLinks(links')
    BY <2>1, <2>2
  <2>. QED BY <2>3 DEF TrueLinks
<1>9. \A l \in links' : ~l.true => l.parent # Trash /\ Kind[l.child] # "folder"
  BY <1>1 DEF TreeOf, Now
<1>10. \A i \in Items : items'[i].parent # Trash
  BY <1>1 DEF TreeOf, Now
<1>. QED BY <1>5, <1>6, <1>7, <1>8, <1>9, <1>10 DEF TreeOf, Now

\* What changing the state of items that exist leaves as it was.
LEMMA MarkedItems ==
  ASSUME ParentInv, NEW S \in SUBSET Items, NEW state \in {"live", "deleted", "purged"},
         \A i \in S : items[i].state \in {"live", "deleted"},
         items' = WithState(S, state)
  PROVE  /\ \A i \in Items : i \notin S => items'[i] = items[i]
         /\ \A i \in S : items'[i].state = state
         /\ \A i \in Items : /\ items'[i].parent = items[i].parent
                             /\ items'[i].state = "unused" <=> items[i].state = "unused"
                             /\ state # "purged" => (Exists(Now, i)' <=> Exists(Now, i))
<1>1. items \in [Items -> Item]
  BY DEF ParentInv, KeyInv, TypeInv, CatalogTypeOK
<1>2. ASSUME NEW i \in Items
      PROVE  /\ i \notin S => items'[i] = items[i]
             /\ i \in S => items'[i].state = state
             /\ items'[i].parent = items[i].parent
             /\ items'[i].state = "unused" <=> items[i].state = "unused"
             /\ state # "purged" => (Exists(Now, i)' <=> Exists(Now, i))
  <2>1. items[i] \in Item
    BY <1>1
  <2>2. CASE i \in S
    <3>1. items'[i] = [items[i] EXCEPT !.state = state]
      BY <2>2 DEF WithState
    <3>2. items'[i].state = state /\ items'[i].parent = items[i].parent
      BY <2>1, <3>1 DEF Item
    <3>. QED BY <2>2, <3>2 DEF Exists, Now
  <2>3. CASE i \notin S
    <3>1. items'[i] = items[i]
      BY <2>3 DEF WithState
    <3>. QED BY <2>3, <3>1 DEF Exists, Now
  <2>. QED BY <2>2, <2>3
<1>. QED BY <1>2

(* A request that is idle is about nothing.                                  *)
LEMMA IdleAimed == Aimed(Idle) /\ Idle.step = "idle"
  BY DEF Aimed, Idle

(* Every step that commits leaves each item one true parent.                 *)
LEMMA SoftDeleteParentInv ==
  ASSUME ParentInv, KeyInv', NEW p \in Requests, SoftDelete(p)
  PROVE  ParentInv'
<1> DEFINE A == req[p].item
           up == req[p].parent
           S == TrueBelow(req[p].snap.links, A) \cup {A}
<1>1. /\ A \in Items \ {Root, Trash} /\ up \in Items \ {Trash}
      /\ S \subseteq Items /\ S \cap req[p].missed = {}
      /\ \A i \in S : items[i].state \in {"live", "deleted"}
      /\ items' = WithState(S, "deleted")
      /\ TrueLink(up, A) \in links
      /\ TrueLinks(links') = (TrueLinks(links) \ {TrueLink(up, A)}) \cup {TrueLink(Trash, A)}
      /\ \A l \in links' : ~l.true => l \in links
      /\ \E nl : Commit(p, S, WithState(S, "deleted"), nl, Idle)
  BY SoftDeleteMoves
<1>2. A \in S
  OBVIOUS
<1>. HIDE DEF S, A, up
<1>3. PICK nl : Commit(p, S, WithState(S, "deleted"), nl, Idle)
  BY <1>1
<1>4. /\ \A i \in Items : i \notin S => items'[i] = items[i]
      /\ \A i \in S : items'[i].state = "deleted"
      /\ \A i \in Items : /\ items'[i].parent = items[i].parent
                          /\ items'[i].state = "unused" <=> items[i].state = "unused"
                          /\ Exists(Now, i)' <=> Exists(Now, i)
  BY <1>1, MarkedItems
<1>5. items[Trash].state # "unused" /\ Trash \in Items
  <2>1. TrueLink(Root, Trash) \in TrueLinks(links) /\ TrueLink(Root, Trash).child = Trash
    BY TrueLinkIs DEF ParentInv, TreeOf, Now, TrueLinks
  <2>. QED BY <2>1, CatalogAssumption DEF ParentInv, TreeOf, Now, Exists
<1>6. TreeOf(Now)'
  BY <1>1, <1>4, <1>5, MovedTree
<1>7. \A l \in Link : l.true /\ l.child \notin S => (l \in links' <=> l \in links)
  <2>1. TrueLink(up, A).child = A /\ TrueLink(Trash, A).child = A
    BY TrueLinkIs
  <2>2. \A l : l.true => (l \in links <=> l \in TrueLinks(links))
                         /\ (l \in links' <=> l \in TrueLinks(links'))
    BY DEF TrueLinks
  <2>. QED BY <1>1, <1>2, <2>1, <2>2
<1>. QED BY <1>3, <1>4, <1>6, <1>7, IdleAimed, CommitParentInv

(* So does a restore.                                                        *)
LEMMA RestoreParentInv ==
  ASSUME ParentInv, KeyInv', NEW p \in Requests, Restore(p)
  PROVE  ParentInv'
<1> DEFINE R == req[p].item
           home == req[p].snap.items[R].parent
           S == TrueBelow(req[p].snap.links, R) \cup {R}
<1>1. /\ req[p].step = "open" /\ IsLive(req[p].snap, home)
      /\ R \in Items \ {Root, Trash} /\ home \in Items \ {Trash}
      /\ S \subseteq Items /\ S \cap req[p].missed = {}
      /\ \A i \in S : items[i].state \in {"live", "deleted"}
      /\ items' = WithState(S, "live")
      /\ TrueLink(Trash, R) \in links
      /\ TrueLinks(links') = (TrueLinks(links) \ {TrueLink(Trash, R)}) \cup {TrueLink(home, R)}
      /\ \A l \in links' : ~l.true => l \in links
      /\ \E nl : Commit(p, S, WithState(S, "live"), nl, Idle)
  BY RestoreMoves
<1>2. R \in S /\ Trash \in Items
  BY CatalogAssumption
<1>5. items[home].state # "unused"
  BY <1>1 DEF ParentInv, SnapshotTree, IsLive
<1>. HIDE DEF S, R, home
<1>3. PICK nl : Commit(p, S, WithState(S, "live"), nl, Idle)
  BY <1>1
<1>4. /\ \A i \in Items : i \notin S => items'[i] = items[i]
      /\ \A i \in S : items'[i].state = "live"
      /\ \A i \in Items : /\ items'[i].parent = items[i].parent
                          /\ items'[i].state = "unused" <=> items[i].state = "unused"
                          /\ Exists(Now, i)' <=> Exists(Now, i)
  BY <1>1, MarkedItems
<1>6. TreeOf(Now)'
  BY <1>1, <1>2, <1>4, <1>5, MovedTree
<1>7. \A l \in Link : l.true /\ l.child \notin S => (l \in links' <=> l \in links)
  <2>1. TrueLink(home, R).child = R /\ TrueLink(Trash, R).child = R
    BY TrueLinkIs
  <2>2. \A l : l.true => (l \in links <=> l \in TrueLinks(links))
                         /\ (l \in links' <=> l \in TrueLinks(links'))
    BY DEF TrueLinks
  <2>. QED BY <1>1, <1>2, <2>1, <2>2
<1>. QED BY <1>3, <1>4, <1>6, <1>7, IdleAimed, CommitParentInv

(* So does a removal for good.                                               *)
LEMMA HardDeleteParentInv ==
  ASSUME ParentInv, KeyInv', NEW p \in Requests, HardDelete(p)
  PROVE  ParentInv'
<1> DEFINE W == Present(p, Children(TrueLinks(LinksBelow(req[p].snap.links, req[p].item)))
                           \cup {req[p].item})
<1>1. /\ W \subseteq Items \ {Root, Trash}
      /\ \A i \in W : items[i].state \in {"live", "deleted"}
      /\ items' = WithState(W, "purged")
      /\ TrueLinks(links') = {l \in TrueLinks(links) : l.child \notin W}
      /\ links' \subseteq links
      /\ \E nl : Commit(p, W, WithState(W, "purged"), nl, Idle)
  BY HardDeleteMoves
<1>. HIDE DEF W
<1>2. PICK nl : Commit(p, W, WithState(W, "purged"), nl, Idle)
  BY <1>1
<1>3. /\ \A i \in Items : i \notin W => items'[i] = items[i]
      /\ \A i \in W : items'[i].state = "purged"
      /\ \A i \in Items : /\ items'[i].parent = items[i].parent
                          /\ items'[i].state = "unused" <=> items[i].state = "unused"
  BY <1>1, MarkedItems
<1>4. \A l \in Link : l.true /\ l.child \notin W => (l \in links' <=> l \in links)
  <2>1. \A l : l.true => (l \in links <=> l \in TrueLinks(links))
                         /\ (l \in links' <=> l \in TrueLinks(links'))
    BY DEF TrueLinks
  <2>. QED BY <1>1, <2>1
<1>5. TreeOf(Now)'
  <2>0. TreeOf(Now) /\ links \in SUBSET Link
    BY DEF ParentInv, KeyInv, TypeInv, CatalogTypeOK
  <2>1. \A i \in Items : /\ Exists(Now, i)' => Exists(Now, i) /\ i \notin W
                         /\ i \notin W => (Exists(Now, i)' <=> Exists(Now, i))
    BY <1>3 DEF Exists, Now
  <2>2. \A i \in Items \ {Root} : Exists(Now, i)' => \E l \in TrueLinks(links') : l.child = i
    BY <1>1, <2>0, <2>1 DEF TreeOf, Now
  <2>3. \A k, l \in TrueLinks(links') : k.child = l.child => k = l
    BY <1>1, <2>0 DEF TreeOf, Now
  <2>4. \A l \in TrueLinks(links') : /\ Exists(Now, l.child)' /\ l.child # Root
                                     /\ items'[l.parent].state # "unused"
    <3> SUFFICES ASSUME NEW l \in TrueLinks(links')
                 PROVE  /\ Exists(Now, l.child)' /\ l.child # Root
                        /\ items'[l.parent].state # "unused"
      OBVIOUS
    <3>1. l \in TrueLinks(links) /\ l.child \notin W
      BY <1>1
    <3>2. l.child \in Items /\ l.parent \in Items
      BY <2>0, <3>1 DEF TrueLinks, Link
    <3>3. Exists(Now, l.child) /\ l.child # Root /\ items[l.parent].state # "unused"
      BY <2>0, <3>1 DEF TreeOf, Now
    <3>. QED BY <1>3, <2>1, <3>1, <3>2, <3>3
  <2>5. TrueLink(Root, Trash) \in links'
    <3>1. TrueLink(Root, Trash) \in TrueLinks(links) /\ TrueLink(Root, Trash).child = Trash
      BY <2>0, TrueLinkIs DEF TreeOf, Now, TrueLinks
    <3>2. TrueLink(Root, Trash) \in TrueLinks(links')
      BY <1>1, <3>1
    <3>. QED BY <3>2 DEF TrueLinks
  <2>6. \A l \in links' : ~l.true => l.parent # Trash /\ Kind[l.child] # "folder"
    BY <1>1, <2>0 DEF TreeOf, Now
  <2>7. \A i \in Items : items'[i].parent # Trash
    BY <1>3, <2>0 DEF TreeOf, Now
  <2>. QED BY <2>2, <2>3, <2>4, <2>5, <2>6, <2>7 DEF TreeOf, Now
<1>. QED BY <1>2, <1>3, <1>4, <1>5, IdleAimed, CommitParentInv

(* So does a creation.                                                       *)
LEMMA CreateItemParentInv ==
  ASSUME ParentInv, KeyInv', NEW p \in Requests, NEW i \in Items, CreateItem(p, i)
  PROVE  ParentInv'
<1> DEFINE up == req[p].parent
           new == [state |-> "live", version |-> 1, parent |-> up]
           ni == [items EXCEPT ![i] = new]
           after == [Idle EXCEPT !.step = "created", !.op = "create", !.item = i]
           next == IF Kind[i] = "task" THEN after ELSE Idle
<1>1. /\ up \in Items \ {Trash, i} /\ Exists(req[p].snap, up) /\ req[p].step = "open"
      /\ i \notin {Root, Trash} /\ items[i].state = "unused"
      /\ items' = ni
      /\ \A l \in TrueLinks(links) : l.child # i /\ l.parent # i
      /\ TrueLinks(links') = TrueLinks(links) \cup {TrueLink(up, i)}
      /\ \E nl : Commit(p, {i}, ni, nl, next)
  BY CreateItemMoves
<1>0. \A l \in links' : ~l.true =>
        l \in links \/ (l.parent # Trash /\ l.child = i /\ Kind[i] # "folder")
  <2>1. \A l \in links' : ~l.true =>
          \/ l \in links
          \/ l.parent # Trash /\ l.child = i /\ Kind[i] # "folder"
             /\ l.parent = req[p].holder
    BY CreateItemMoves
  <2>. QED BY <2>1
<1>2. TypeInv /\ TreeOf(Now) /\ items \in [Items -> Item] /\ links \in SUBSET Link /\ Idle \in Request
  BY IdleType DEF ParentInv, KeyInv, TypeInv, CatalogTypeOK
<1>3. next.step # "open" /\ Aimed(next)
  <2>1. /\ after.step = "created" /\ after.op = "create" /\ after.item = i
    BY <1>2 DEF Request
  <2>. HIDE DEF after
  <2>2. Kind[i] = "task" => Aimed(after)
    BY <2>1 DEF Aimed
  <2>. QED BY <2>1, <2>2, IdleAimed
<1>4. items'[i] = new /\ \A j \in Items : j # i => items'[j] = items[j]
  BY <1>1, <1>2
<1>5. items[up].state # "unused"
  BY <1>1 DEF ParentInv, SnapshotTree, Exists
<1>. HIDE DEF ni, next
<1>6. PICK nl : Commit(p, {i}, ni, nl, next)
  BY <1>1
<1>7. TrueLink(up, i).child = i /\ TrueLink(up, i).parent = up
  BY TrueLinkIs
<1>8. \A l \in Link : l.true /\ l.child \notin {i} => (l \in links' <=> l \in links)
  <2>1. \A l : l.true => (l \in links <=> l \in TrueLinks(links))
                         /\ (l \in links' <=> l \in TrueLinks(links'))
    BY DEF TrueLinks
  <2>. QED BY <1>1, <1>7, <2>1
<1>9. new.state = "live" /\ new.parent = up
  OBVIOUS
<1>. HIDE DEF new
<1>10. TreeOf(Now)'
  <2>1. \A j \in Items : j # i => (Exists(Now, j)' <=> Exists(Now, j))
    BY <1>4 DEF Exists, Now
  <2>2. Exists(Now, i)'
    BY <1>4, <1>9 DEF Exists, Now
  <2>3. \A j \in Items \ {Root} : Exists(Now, j)' => \E l \in TrueLinks(links') : l.child = j
    BY <1>1, <1>2, <1>7, <2>1 DEF TreeOf, Now
  <2>4. \A k, l \in TrueLinks(links') : k.child = l.child => k = l
    BY <1>1, <1>2, <1>7 DEF TreeOf, Now
  <2>5. \A l \in TrueLinks(links') : /\ Exists(Now, l.child)' /\ l.child # Root
                                     /\ items'[l.parent].state # "unused"
    <3> SUFFICES ASSUME NEW l \in TrueLinks(links')
                 PROVE  /\ Exists(Now, l.child)' /\ l.child # Root
                        /\ items'[l.parent].state # "unused"
      OBVIOUS
    <3>1. CASE l = TrueLink(up, i)
      BY <1>1, <1>4, <1>5, <1>7, <2>2, <3>1
    <3>2. CASE l \in TrueLinks(links)
      <4>1. l.child \in Items /\ l.parent \in Items /\ l.child # i /\ l.parent # i
        BY <1>1, <1>2, <3>2 DEF TrueLinks, Link
      <4>2. Exists(Now, l.child) /\ l.child # Root /\ items[l.parent].state # "unused"
        BY <1>2, <3>2 DEF TreeOf, Now
      <4>. QED BY <1>4, <2>1, <4>1, <4>2
    <3>. QED BY <1>1, <3>1, <3>2
  <2>6. TrueLink(Root, Trash) \in links'
    BY <1>1, <1>2, TrueLinkIs DEF TreeOf, Now, TrueLinks
  <2>7. \A l \in links' : ~l.true => l.parent # Trash /\ Kind[l.child] # "folder"
    BY <1>0, <1>2 DEF TreeOf, Now
  <2>8. \A j \in Items : items'[j].parent # Trash
    BY <1>1, <1>2, <1>4, <1>9 DEF TreeOf, Now
  <2>. QED BY <2>3, <2>4, <2>5, <2>6, <2>7, <2>8 DEF TreeOf, Now
<1>11. \A j \in Items : items[j].state # "unused" => items'[j].state # "unused"
  BY <1>1, <1>4
<1>. QED BY <1>3, <1>6, <1>8, <1>10, <1>11, CommitParentInv

\* An update writes its item only, which existed and keeps its place.
LEMMA UpdateExistingMoves ==
  ASSUME ParentInv, NEW p \in Requests, NEW versioned \in BOOLEAN,
         UpdateExisting(p, versioned)
  PROVE  LET i == req[p].item
             W == {i} \cap {j \in Items : Exists(req[p].snap, j)}
         IN  /\ req[p].step = "open" /\ req[p].op = "create" /\ i \in Items
             /\ links' = links
             /\ \A j \in Items : j \notin W => items'[j] = items[j]
             /\ \A j \in W : /\ items[j].state \in {"live", "deleted"}
                             /\ items'[j].state = "live"
                             /\ items'[j].parent = items[j].parent
             /\ \E ni, nl : Commit(p, W, ni, nl, Idle)
<1> DEFINE i == req[p].item
           snap == req[p].snap
           W == {i} \cap {j \in Items : Exists(snap, j)}
           version == IF versioned THEN req[p].seen + 1 ELSE req[p].seen
           ni == [items EXCEPT ![i].state = "live", ![i].version = version]
<1>1. /\ Commit(p, W, ni, snap.links, Idle)
      /\ req[p].op = "create" /\ i # None
  BY DEF UpdateExisting
<1>2. /\ req[p].step = "open" /\ links' = links
      /\ items' = [j \in Items |-> IF j \in W THEN ni[j] ELSE items[j]]
      /\ W \cap req[p].missed = {}
  BY <1>1 DEF Commit
<1>3. items \in [Items -> Item] /\ req[p] \in Request
  BY DEF ParentInv, KeyInv, TypeInv, CatalogTypeOK
<1>4. i \in Items
  BY <1>1, <1>3 DEF Request
<1>5. \A j \in W : items[j].state \in {"live", "deleted"}
  BY <1>2, OpenFacts DEF Exists
<1>6. \A j \in W : items'[j].state = "live" /\ items'[j].parent = items[j].parent
  <2> SUFFICES ASSUME i \in W PROVE items'[i].state = "live" /\ items'[i].parent = items[i].parent
    OBVIOUS
  <2>1. items'[i] = ni[i]
    BY <1>2, <1>4
  <2>2. ni[i] = [items[i] EXCEPT !.state = "live", !.version = version]
    BY <1>3, <1>4
  <2>3. items[i] \in Item
    BY <1>3, <1>4
  <2>. HIDE DEF ni, version
  <2>. QED BY <2>1, <2>2, <2>3 DEF Item
<1>7. \A j \in Items : j \notin W => items'[j] = items[j]
  BY <1>2
<1>8. \E a, b : Commit(p, W, a, b, Idle)
  BY <1>1
<1>. HIDE DEF ni, W
<1>. QED BY <1>1, <1>2, <1>4, <1>5, <1>6, <1>7, <1>8 DEF W

(* So does an update.                                                        *)
LEMMA UpdateExistingParentInv ==
  ASSUME ParentInv, KeyInv', NEW p \in Requests, NEW versioned \in BOOLEAN,
         UpdateExisting(p, versioned)
  PROVE  ParentInv'
<1> DEFINE W == {req[p].item} \cap {j \in Items : Exists(req[p].snap, j)}
<1>1. /\ links' = links
      /\ \A j \in Items : j \notin W => items'[j] = items[j]
      /\ \A j \in W : /\ items[j].state \in {"live", "deleted"}
                      /\ items'[j].state = "live"
                      /\ items'[j].parent = items[j].parent
      /\ \E ni, nl : Commit(p, W, ni, nl, Idle)
  BY UpdateExistingMoves
<1>. HIDE DEF W
<1>2. PICK ni, nl : Commit(p, W, ni, nl, Idle)
  BY <1>1
<1>3. \A j \in Items : /\ Exists(Now, j)' <=> Exists(Now, j)
                       /\ items[j].state # "unused" => items'[j].state # "unused"
                       /\ items'[j].parent = items[j].parent
  BY <1>1 DEF Exists, Now
<1>4. links \in SUBSET Link /\ TreeOf(Now)
  BY DEF ParentInv, KeyInv, TypeInv, CatalogTypeOK
<1>5. \A l \in TrueLinks(links) : l.child \in Items /\ l.parent \in Items
  BY <1>4 DEF TrueLinks, Link
<1>6. TreeOf(Now)'
  BY <1>1, <1>3, <1>4, <1>5 DEF TreeOf, Now
<1>. QED BY <1>1, <1>2, <1>3, <1>6, IdleAimed, CommitParentInv

(* Removing a soft link moves no true link.                                  *)
LEMMA UnlinkMoves ==
  ASSUME ParentInv, NEW p \in Requests, Unlink(p)
  PROVE  /\ req[p].step = "open" /\ items' = items
         /\ TrueLinks(links') = TrueLinks(links) /\ links' \subseteq links
         /\ \E nl : Commit(p, {}, items, nl, Idle)
<1>1. PICK l : ~l.true /\ Commit(p, {}, items, req[p].snap.links \ {l}, Idle)
  BY DEF Unlink
<1>2. /\ links' = links \ (req[p].snap.links \ (req[p].snap.links \ {l}))
      /\ items' = [i \in Items |-> items[i]] /\ req[p].step = "open"
  BY <1>1 DEF Commit
<1>3. items' = items
  BY <1>2 DEF ParentInv, KeyInv, TypeInv, CatalogTypeOK
<1>4. TrueLinks(links') = TrueLinks(links) /\ links' \subseteq links
  BY <1>1, <1>2 DEF TrueLinks
<1>. QED BY <1>1, <1>2, <1>3, <1>4

(* So it keeps the tree.                                                     *)
LEMMA UnlinkParentInv ==
  ASSUME ParentInv, KeyInv', NEW p \in Requests, Unlink(p)
  PROVE  ParentInv'
<1>1. /\ items' = items /\ TrueLinks(links') = TrueLinks(links) /\ links' \subseteq links
  BY UnlinkMoves
<1>2. PICK nl : Commit(p, {}, items, nl, Idle)
  BY UnlinkMoves
<1>3. \A l \in Link : l.true => (l \in links' <=> l \in links)
  <2>1. \A l : l.true => (l \in links <=> l \in TrueLinks(links))
                         /\ (l \in links' <=> l \in TrueLinks(links'))
    BY DEF TrueLinks
  <2>. QED BY <1>1, <2>1
<1>4. TrueLink(Root, Trash) \in links'
  BY <1>1, TrueLinkIs DEF ParentInv, TreeOf, Now, TrueLinks
<1>5. TreeOf(Now)'
  BY <1>1, <1>4 DEF ParentInv, TreeOf, Now, Exists
<1>. QED BY <1>1, <1>2, <1>3, <1>5, IdleAimed, CommitParentInv

(* A request that starts moves no true link.                                 *)
LEMMA AskParentInv ==
  ASSUME ParentInv, KeyInv', NEW p \in Requests, Ask(p)
  PROVE  ParentInv'
<1>0. Idle \in Request /\ links \in SUBSET Link
  BY IdleType DEF ParentInv, KeyInv, TypeInv, CatalogTypeOK
<1>1. ASSUME NEW r, Arrive(p, r), Aimed(r), r.step = "open" => r.snap = Now
      PROVE  ParentInv'
  BY <1>1, QuietParentInv DEF Arrive
<1>2. ASSUME NEW i \in Items, NEW parent \in Items \ {Trash},
             NEW holder \in Holders \cup {None}, LockPk(p, Pk[i], parent, holder)
      PROVE  ParentInv'
  <2> DEFINE r == [Idle EXCEPT !.step = "locked", !.op = "create", !.pk = Pk[i],
                               !.parent = parent, !.holder = holder]
  <2>1. r.step = "locked" /\ r.op = "create" /\ r.parent = parent /\ r.holder = holder
    BY <1>0 DEF Request
  <2>2. Arrive(p, r)
    BY <1>2 DEF LockPk
  <2>. HIDE DEF r
  <2>3. Aimed(r)
    BY <2>1 DEF Aimed
  <2>. QED BY <1>1, <2>1, <2>2, <2>3
<1>3. ASSUME NEW parent \in Items, NEW child \in Items, CheckLink(p, parent, child)
      PROVE  ParentInv'
  <2> DEFINE r == [Idle EXCEPT !.step = "linking", !.op = "link",
                               !.item = child, !.parent = parent]
  <2>1. r.step = "linking" /\ r.op = "link" /\ r.parent = parent /\ r.item = child
    BY <1>0 DEF Request
  <2>2. Arrive(p, r) /\ parent # Trash /\ Kind[child] # "folder"
    BY <1>3 DEF CheckLink, Linkable
  <2>. HIDE DEF r
  <2>3. Aimed(r)
    BY <2>1, <2>2 DEF Aimed
  <2>. QED BY <1>1, <2>1, <2>2, <2>3
<1>4. ASSUME NEW op \in {"delete", "purge", "restore"}, NEW parent, NEW i,
             op # "restore" => i # Trash, Begin(p, op, parent, i)
      PROVE  ParentInv'
  <2> DEFINE r == [Idle EXCEPT !.step = "open", !.op = op, !.item = i,
                               !.parent = parent, !.snap = Now]
  <2>1. r.step = "open" /\ r.op = op /\ r.item = i /\ r.snap = Now
    BY <1>0 DEF Request
  <2>2. Arrive(p, r)
    BY <1>4 DEF Begin
  <2>. HIDE DEF r
  <2>3. Aimed(r)
    BY <1>4, <2>1 DEF Aimed
  <2>. QED BY <1>1, <2>1, <2>2, <2>3
<1>5. ASSUME NEW l, NEW hard \in BOOLEAN, BeginDelete(p, l, hard)
      PROVE  ParentInv'
  <2>1. CASE hard
    BY <1>4, <1>5, <2>1 DEF BeginDelete
  <2>2. CASE ~hard
    BY <1>4, <1>5, <2>2 DEF BeginDelete
  <2>. QED BY <2>1, <2>2
<1>6. ASSUME NEW i, BeginRestore(p, i)
      PROVE  ParentInv'
  BY <1>4, <1>6 DEF BeginRestore
<1>. QED BY <1>2, <1>3, <1>5, <1>6 DEF Ask

(* Nor does a step of a request that changes no document.                    *)
LEMMA StepParentInv ==
  ASSUME ParentInv, KeyInv', NEW p \in Requests,
         \/ FindExisting(p) \/ OpenTransaction(p) \/ InsertLink(p) \/ GiveUp(p)
         \/ \E t \in Items : FindParentTask(p, t)
  PROVE  ParentInv'
<1>0. /\ req \in [Requests -> Request] /\ req[p] \in Request /\ WellFormed(req[p])
      /\ Aimed(req[p])
  BY DEF ParentInv, KeyInv, TypeInv, CatalogTypeOK
<1>1. CASE FindExisting(p)
  <2>1. ASSUME NEW r, req' = [req EXCEPT ![p] = r], r.step = "found",
               r.op = req[p].op, r.parent = req[p].parent, r.holder = req[p].holder
        PROVE  ParentInv'
    <3>1. r.op = "create" /\ Aimed(r)
      BY <1>0, <1>1, <2>1 DEF Aimed, WellFormed, FindExisting
    <3>. QED BY <1>1, <2>1, <3>1, QuietParentInv DEF FindExisting
  <2>2. CASE req' = [req EXCEPT ![p].step = "found"]
    <3> DEFINE r == [req[p] EXCEPT !.step = "found"]
    <3>1. /\ req' = [req EXCEPT ![p] = r] /\ r.step = "found" /\ r.op = req[p].op
          /\ r.parent = req[p].parent /\ r.holder = req[p].holder
      BY <1>0, <2>2 DEF Request
    <3>. HIDE DEF r
    <3>. QED BY <2>1, <3>1
  <2>3. ASSUME NEW i \in Items,
               req' = [req EXCEPT ![p].step = "found", ![p].item = i,
                                  ![p].seen = items[i].version]
        PROVE  ParentInv'
    <3> DEFINE r == [req[p] EXCEPT !.step = "found", !.item = i, !.seen = items[i].version]
    <3>1. /\ req' = [req EXCEPT ![p] = r] /\ r.step = "found" /\ r.op = req[p].op
          /\ r.parent = req[p].parent /\ r.holder = req[p].holder
      BY <1>0, <2>3 DEF Request
    <3>. HIDE DEF r
    <3>. QED BY <2>1, <3>1
  <2>. QED BY <1>1, <2>2, <2>3 DEF FindExisting
<1>2. CASE OpenTransaction(p)
  <2> DEFINE r == [req[p] EXCEPT !.step = "open", !.snap = Now]
  <2>1. /\ req' = [req EXCEPT ![p] = r] /\ r.step = "open" /\ r.snap = Now
        /\ r.op = req[p].op /\ r.parent = req[p].parent /\ r.holder = req[p].holder
    BY <1>0, <1>2 DEF Request, OpenTransaction
  <2>. HIDE DEF r
  <2>2. Aimed(r)
    BY <1>0, <1>2, <2>1 DEF Aimed, WellFormed, OpenTransaction
  <2>. QED BY <1>2, <2>1, <2>2, QuietParentInv DEF OpenTransaction
<1>3. CASE InsertLink(p)
  <2>1. /\ req[p].parent \in Items \ {Trash} /\ req[p].item \in Items
        /\ Kind[req[p].item] # "folder"
    BY <1>0, <1>3 DEF InsertLink, WellFormed, Aimed
  <2>. QED BY <1>3, <2>1, IdleAimed, QuietParentInv DEF InsertLink
<1>4. CASE GiveUp(p)
  BY <1>4, IdleAimed, QuietParentInv DEF GiveUp
<1>5. ASSUME NEW t \in Items, FindParentTask(p, t)
      PROVE  ParentInv'
  <2> DEFINE r == [req[p] EXCEPT !.step = "linking", !.parent = t]
  <2>1. /\ req' = [req EXCEPT ![p] = r] /\ r.step = "linking" /\ r.parent = t
        /\ r.op = req[p].op /\ r.item = req[p].item
    BY <1>0, <1>5 DEF Request, FindParentTask
  <2>. HIDE DEF r
  <2>2. Kind[req[p].item] = "task" /\ t # Trash
    BY <1>0, <1>5, CatalogAssumption DEF FindParentTask, Aimed
  <2>3. Aimed(r)
    BY <1>0, <2>1, <2>2 DEF Aimed
  <2>. QED BY <1>5, <2>1, <2>3, QuietParentInv DEF FindParentTask
<1>. QED BY <1>1, <1>2, <1>3, <1>4, <1>5

(* The catalog starts as a tree.                                             *)
LEMMA ParentInvInit == CatalogInit => ParentInv
<1> SUFFICES ASSUME CatalogInit PROVE ParentInv
  OBVIOUS
<1>1. Existing \subseteq Items /\ \A i \in Existing \ {Root} : HomeOf(i) \in Existing \ {Trash}
  BY CatalogAssumption DEF Existing, HomeOf
<1>2. TrueLinks(links) = links /\ links = {TrueLink(HomeOf(i), i) : i \in Existing \ {Root}}
  <2>1. links = {TrueLink(HomeOf(i), i) : i \in Existing \ {Root}}
    BY DEF CatalogInit, TrueLink
  <2>. QED BY <2>1, TrueLinkIs DEF TrueLinks
<1>3. \A i \in Items : Exists(Now, i) <=> i \in Existing
  BY DEF CatalogInit, Exists, Now
<1>4. \A i \in Existing : items[i].state # "unused"
  BY <1>1 DEF CatalogInit
<1>5. \A i \in Items : items[i].parent # Trash
  BY <1>1, CatalogAssumption DEF CatalogInit
<1>6. TrueLink(Root, Trash) \in links
  <2>1. Trash \in Existing \ {Root} /\ HomeOf(Trash) = Root
    BY CatalogAssumption DEF Existing, HomeOf
  <2>. QED BY <1>2, <2>1
<1>7. TreeOf(Now)
  <2>1. \A i \in Items \ {Root} : Exists(Now, i) => \E l \in TrueLinks(links) : l.child = i
    BY <1>2, <1>3, TrueLinkIs
  <2>2. \A k, l \in TrueLinks(links) : k.child = l.child => k = l
    BY <1>2, TrueLinkIs
  <2>3. \A l \in TrueLinks(links) :
          /\ Exists(Now, l.child) /\ l.child # Root /\ items[l.parent].state # "unused"
    BY <1>1, <1>2, <1>3, <1>4, TrueLinkIs
  <2>. QED BY <1>2, <1>5, <1>6, <2>1, <2>2, <2>3 DEF TreeOf, Now, TrueLinks
<1>8. \A p \in Requests : req[p] = Idle
  BY DEF CatalogInit
<1>. QED BY <1>7, <1>8, KeyInvInit, IdleAimed DEF ParentInv, SnapshotTree

(* So every step preserves the tree.                                         *)
LEMMA ParentInvNext == ParentInv /\ [CatalogNext]_catalogVars => ParentInv'
<1> SUFFICES ASSUME ParentInv, [CatalogNext]_catalogVars PROVE ParentInv'
  OBVIOUS
<1>1. KeyInv'
  BY KeyInvNext DEF ParentInv
<1>2. CASE UNCHANGED catalogVars
  BY <1>1, <1>2 DEF catalogVars, ParentInv, TreeOf, SnapshotTree, Exists, Now
<1>3. ASSUME NEW p \in Requests, Ask(p) \/ Serve(p) PROVE ParentInv'
  BY <1>1, <1>3, AskParentInv, StepParentInv, CreateItemParentInv, UpdateExistingParentInv,
     HardDeleteParentInv, SoftDeleteParentInv, UnlinkParentInv, RestoreParentInv DEF Serve
<1>. QED BY <1>2, <1>3 DEF CatalogNext

\* However requests overlap, every item but the account has exactly one true
\* parent: the requests that move the link also write the item.
THEOREM ItemsHaveOneTrueParent == CatalogSpec => []OneTrueParent
<1>1. CatalogSpec => []ParentInv
  BY ParentInvInit, ParentInvNext, PTL DEF CatalogSpec
<1>2. ParentInv => OneTrueParent
  <2> SUFFICES ASSUME ParentInv, NEW i \in Items \ {Root}, Exists(Now, i)
               PROVE  Cardinality({l \in TrueLinks(links) : l.child = i}) = 1
    BY DEF OneTrueParent
  <2>1. PICK l \in TrueLinks(links) : l.child = i
    BY DEF ParentInv, TreeOf, Now
  <2>2. {k \in TrueLinks(links) : k.child = i} = {l}
    BY <2>1 DEF ParentInv, TreeOf, Now
  <2>. QED BY <2>2, FS_Singleton
<1>. QED BY <1>1, <1>2, PTL

-----------------------------------------------------------------------------
(* What is deleted is found from the trash.                                  *)

\* What hangs by a true link that an open transaction does not know, from an item
\* it knows and outside the trash, is not deleted, nor is anything below it: it
\* was created or restored there, and a delete would have written that item.
GrownAlive(r) ==
  r.step = "open" =>
    \A l \in TrueLinks(links) :
      l \notin r.snap.links /\ l.parent \notin r.missed /\ l.parent # Trash =>
        \A z \in {l.child} \cup TrueBelow(links, l.child) : items[z].state # "deleted"

TrashInv ==
  ParentInv /\ DeletedIsInTrash /\ \A p \in Requests : GrownAlive(req[p])

(* The links collection holds links, before a step and after it.             *)
LEMMA LinksType == ParentInv => links \in SUBSET Link
  BY DEF ParentInv, KeyInv, TypeInv, CatalogTypeOK

(* With more links there is more below an item.                              *)
LEMMA BelowMonotone ==
  ASSUME NEW ls, NEW ms \in SUBSET Link, TrueLinks(ls) \subseteq TrueLinks(ms), NEW i
  PROVE  TrueBelow(ls, i) \subseteq TrueBelow(ms, i)
<1>1. \A l \in TrueLinks(ls) : l.parent = i \/ l.parent \in TrueBelow(ms, i) =>
        l.child \in TrueBelow(ms, i)
  BY BelowFollows
<1>. QED BY <1>1, BelowLeast

\* What a transaction writes, closed under the links it knows: what hangs below it
\* by other links is not deleted.
LEMMA BelowWritten ==
  ASSUME TrashInv, NEW p \in Requests, req[p].step = "open",
         NEW W, Trash \notin W, W \cap req[p].missed = {},
         \A l \in TrueLinks(req[p].snap.links) : l.parent \in W => l.child \in W
  PROVE  \E B : /\ \A z \in B : items[z].state # "deleted"
                /\ \A l \in TrueLinks(links) : l.parent \in W \cup B => l.child \in W \cup B
<1> DEFINE ls == req[p].snap.links
           B == {z \in Items : \E k \in TrueLinks(links) :
                   /\ k \notin ls /\ k.parent \in W
                   /\ z \in {k.child} \cup TrueBelow(links, k.child)}
<1>0. links \in SUBSET Link
  BY LinksType DEF TrashInv
<1>1. ASSUME NEW z \in B PROVE items[z].state # "deleted"
  BY <1>1 DEF TrashInv, GrownAlive
<1>2. ASSUME NEW l \in TrueLinks(links), l.parent \in W PROVE l.child \in W \cup B
  <2>1. l.child \in Items
    BY <1>0 DEF TrueLinks, Link
  <2>2. CASE l \in ls
    <3>1. l \in TrueLinks(ls)
      BY <2>2 DEF TrueLinks
    <3>. QED BY <1>2, <3>1
  <2>3. CASE l \notin ls
    BY <1>2, <2>1, <2>3
  <2>. QED BY <2>2, <2>3
<1>3. ASSUME NEW l \in TrueLinks(links), l.parent \in B PROVE l.child \in W \cup B
  <2>1. l.child \in Items
    BY <1>0 DEF TrueLinks, Link
  <2>2. PICK k \in TrueLinks(links) :
          /\ k \notin ls /\ k.parent \in W
          /\ l.parent \in {k.child} \cup TrueBelow(links, k.child)
    BY <1>3
  <2>3. l.child \in TrueBelow(links, k.child)
    BY <1>0, <2>2, BelowFollows
  <2>. QED BY <2>1, <2>2, <2>3
<1>. HIDE DEF B
<1>. QED BY <1>1, <1>2, <1>3

\* A commit after which new true links outside what it writes have nothing deleted
\* below, and old ones nothing that was not deleted before.
LEMMA CommitTrashInv ==
  ASSUME TrashInv, ParentInv', NEW p \in Requests, NEW W, NEW ni, NEW nl, NEW next,
         Commit(p, W, ni, nl, next), next.step # "open", DeletedIsInTrash',
         \A k \in TrueLinks(links') : k \notin links /\ k.parent \notin W \cup {Trash} =>
           \A z \in {k.child} \cup TrueBelow(links', k.child) : items'[z].state # "deleted",
         \A k \in TrueLinks(links') :
           /\ k \in links /\ k.parent \notin W \cup {Trash} /\ k.child # Trash
           /\ \A z \in {k.child} \cup TrueBelow(links, k.child) : items[z].state # "deleted"
           => \A z \in {k.child} \cup TrueBelow(links', k.child) : items'[z].state # "deleted"
  PROVE  TrashInv'
<1>0. TypeInv /\ req'[p] = next /\ links' \in SUBSET Link
  BY LinksType DEF TrashInv, ParentInv, KeyInv, TypeInv, CatalogTypeOK, Commit
<1>1. ASSUME NEW q \in Requests PROVE GrownAlive(req[q])'
  <2> SUFFICES ASSUME req'[q].step = "open", NEW k \in TrueLinks(links'),
                      k \notin req'[q].snap.links, k.parent \notin req'[q].missed,
                      k.parent # Trash
               PROVE  \A z \in {k.child} \cup TrueBelow(links', k.child) :
                        items'[z].state # "deleted"
    BY DEF GrownAlive
  <2>1. q # p
    BY <1>0
  <2>2. /\ req[q].step = "open" /\ k \notin req[q].snap.links
        /\ k.parent \notin req[q].missed /\ k.parent \notin W
    BY <1>0, <2>1, OthersKept
  <2>3. CASE k \notin links
    BY <2>2, <2>3
  <2>4. CASE k \in links
    <3>1. k \in TrueLinks(links) /\ k \in Link /\ k.true
      BY <1>0, <2>4 DEF TrueLinks
    <3>2. \A z \in {k.child} \cup TrueBelow(links, k.child) : items[z].state # "deleted"
      BY <2>2, <3>1 DEF TrashInv, GrownAlive
    <3>3. k.child # Trash
      <4>1. TrueLink(Root, Trash) \in req[q].snap.links /\ TrueLink(Root, Trash) \in links
        BY <2>2 DEF TrashInv, ParentInv, SnapshotTree, TreeOf, Now
      <4>2. TrueLink(Root, Trash) \in TrueLinks(links) /\ TrueLink(Root, Trash).child = Trash
        BY <4>1, TrueLinkIs DEF TrueLinks
      <4>3. k.child = Trash => k = TrueLink(Root, Trash)
        BY <3>1, <4>2 DEF TrashInv, ParentInv, TreeOf, Now
      <4>. QED BY <2>2, <4>1, <4>3
    <3>. QED BY <2>2, <2>4, <3>2, <3>3
  <2>. QED BY <2>3, <2>4
<1>. QED BY <1>1 DEF TrashInv

\* A step that writes no item and moves no true link.
LEMMA QuietTrashInv ==
  ASSUME TrashInv, ParentInv', NEW p \in Requests,
         items' = items, TrueLinks(links') = TrueLinks(links),
         req'[p].step = "open" => req'[p].snap = Now,
         \A q \in Requests : q # p => req'[q] = req[q]
  PROVE  TrashInv'
<1>1. \A i : TrueBelow(links', i) = TrueBelow(links, i)
  BY DEF TrueBelow
<1>2. DeletedIsInTrash'
  BY <1>1 DEF TrashInv, DeletedIsInTrash
<1>3. ASSUME NEW q \in Requests PROVE GrownAlive(req[q])'
  <2>1. CASE q = p
    <3>1. req'[p].step = "open" => \A l \in TrueLinks(links') : l \in req'[p].snap.links
      BY DEF Now, TrueLinks
    <3>. QED BY <2>1, <3>1 DEF GrownAlive
  <2>2. CASE q # p
    <3>1. req'[q] = req[q] /\ GrownAlive(req[q])
      BY <2>2 DEF TrashInv
    <3>. QED BY <1>1, <3>1 DEF GrownAlive
  <2>. QED BY <2>1, <2>2
<1>. QED BY <1>2, <1>3 DEF TrashInv

\* A delete: what it marks comes below the trash with its top, and it writes every
\* item above one it marks, up to that top.
LEMMA SoftDeleteTrashInv ==
  ASSUME TrashInv, ParentInv', NEW p \in Requests, SoftDelete(p)
  PROVE  TrashInv'
<1> DEFINE A == req[p].item
           up == req[p].parent
           ls == req[p].snap.links
           S == TrueBelow(ls, A) \cup {A}
           old == TrueLink(up, A)
           new == TrueLink(Trash, A)
<1>1. /\ req[p].step = "open" /\ A \in Items \ {Root, Trash} /\ up \in Items \ {Trash}
      /\ S \subseteq Items /\ S \cap req[p].missed = {}
      /\ \A i \in S : items[i].state \in {"live", "deleted"}
      /\ items' = WithState(S, "deleted")
      /\ old \in links /\ old \in ls
      /\ TrueLinks(links') = (TrueLinks(links) \ {old}) \cup {new}
      /\ \E nl : Commit(p, S, WithState(S, "deleted"), nl, Idle)
  BY SoftDeleteMoves, TrashInv DEF TrashInv
<1>2. /\ ParentInv /\ links \in SUBSET Link /\ links' \in SUBSET Link
      /\ ls \in SUBSET Link /\ TreeOf(Now) /\ Now \in Store
      /\ \A l \in Link : l.true /\ l.child \notin req[p].missed => (l \in ls <=> l \in links)
      /\ \A k, l \in TrueLinks(links) : k.child = l.child => k = l
  <2>1. ParentInv /\ TreeOf(Now) /\ Now \in Store
    BY StoreType DEF TrashInv, ParentInv, KeyInv, TypeInv
  <2>2. links' \in SUBSET Link
    BY DEF ParentInv, KeyInv, TypeInv, CatalogTypeOK
  <2>3. links \in SUBSET Link /\ ls \in SUBSET Link
    BY <1>1, <2>1, LinksType, OpenFacts
  <2>4. \A l \in Link : l.true /\ l.child \notin req[p].missed => (l \in ls <=> l \in links)
    BY <1>1, <2>1, OpenFacts
  <2>5. \A k, l \in TrueLinks(links) : k.child = l.child => k = l
    BY <2>1 DEF TreeOf, Now
  <2>. QED BY <2>1, <2>2, <2>3, <2>4, <2>5
<1>3. /\ old.child = A /\ new.child = A /\ new.parent = Trash /\ old.parent = up
      /\ old \in TrueLinks(links) /\ old.true /\ new.true
  BY <1>1, TrueLinkIs DEF TrueLinks
<1>4. /\ \A i \in Items : i \notin S => items'[i] = items[i]
      /\ \A i \in S : items'[i].state = "deleted"
  <2>. HIDE DEF S
  <2>. QED BY <1>1, <1>2, MarkedItems
<1>5. A \in TrueBelow(links', Trash)
  BY <1>1, <1>2, <1>3, BelowFollows
<1>6. TrueBelow(links, Trash) \subseteq TrueBelow(links', Trash)
  <2>1. ASSUME NEW l \in TrueLinks(links),
               l.parent = Trash \/ l.parent \in TrueBelow(links', Trash)
        PROVE  l.child \in TrueBelow(links', Trash)
    BY <1>1, <1>2, <1>3, <1>5, <2>1, BelowFollows
  <2>. QED BY <2>1, BelowLeast
<1>7. S \subseteq TrueBelow(links', Trash)
  <2> DEFINE C == TrueBelow(ls, A) \cap TrueBelow(links', Trash)
  <2>1. ASSUME NEW l \in TrueLinks(ls), l.parent = A \/ l.parent \in C
        PROVE  l.child \in C
    <3>1. l.child \in TrueBelow(ls, A)
      BY <1>2, <2>1, BelowFollows
    <3>2. l \in TrueLinks(links)
      BY <1>1, <1>2, <3>1 DEF TrueLinks
    <3>3. l = old \/ l \in TrueLinks(links')
      BY <1>1, <3>2
    <3>4. l.child \in TrueBelow(links', Trash)
      BY <1>2, <1>3, <1>5, <2>1, <3>3, BelowFollows
    <3>. QED BY <3>1, <3>4
  <2>2. TrueBelow(ls, A) \subseteq C
    <3>. HIDE DEF C
    <3>. QED BY <2>1, BelowLeast
  <2>. QED BY <1>5, <2>2
<1>8. DeletedIsInTrash'
  <2> SUFFICES ASSUME NEW i \in Items, items'[i].state = "deleted"
               PROVE  i \in TrueBelow(links', Trash)
    BY DEF DeletedIsInTrash
  <2>1. i \in S \/ items[i].state = "deleted"
    BY <1>4
  <2>. QED BY <1>6, <1>7, <2>1 DEF TrashInv, DeletedIsInTrash
<1>9. \A m \in TrueLinks(links) : m # old /\ m.child \in S => m.parent \in S
  <2> SUFFICES ASSUME NEW m \in TrueLinks(links), m # old, m.child \in S
               PROVE  m.parent \in S
    OBVIOUS
  <2>1. m.child # A
    BY <1>2, <1>3
  <2>2. PICK k \in TrueLinks(ls) :
          k.child = m.child /\ (k.parent = A \/ k.parent \in TrueBelow(ls, A))
    BY <1>2, <2>1, BelowHangs
  <2>3. k \in TrueLinks(links)
    BY <1>1, <1>2, <2>2 DEF TrueLinks
  <2>. QED BY <1>2, <2>2, <2>3
<1>10. ASSUME NEW k \in TrueLinks(links'), k \in links, k.parent \notin S \cup {Trash},
              k.child # Trash,
              \A z \in {k.child} \cup TrueBelow(links, k.child) : items[z].state # "deleted"
       PROVE  \A z \in {k.child} \cup TrueBelow(links', k.child) : items'[z].state # "deleted"
  <2> DEFINE Y == k.child
             C == TrueBelow(links, Y) \ S
  <2>1. k \in TrueLinks(links) /\ k # new /\ k # old
    <3>1. k \in TrueLinks(links) /\ k # new
      BY <1>3, <1>10 DEF TrueLinks
    <3>2. old # new
      BY <1>1, <1>3
    <3>. QED BY <1>1, <3>1, <3>2
  <2>2. Y \notin S
    BY <1>9, <1>10, <2>1
  <2>3. Y \in Items \ {Root, Trash}
    BY <1>2, <1>10, <2>1 DEF TreeOf, Now, TrueLinks, Link
  <2>4. Trash \notin TrueBelow(links, Y)
    <3>1. Now.links = links
      BY DEF Now
    <3>. QED BY <1>2, <2>3, <3>1, TrashNotBelow
  <2>5. ASSUME NEW m \in TrueLinks(links'), m.parent = Y \/ m.parent \in C
        PROVE  m.child \in C
    <3>1. m # new
      BY <1>3, <2>3, <2>4, <2>5
    <3>2. m \in TrueLinks(links) /\ m # old
      BY <1>1, <1>3, <3>1
    <3>3. m.child \in TrueBelow(links, Y)
      BY <1>2, <2>5, <3>2, BelowFollows
    <3>4. m.child \notin S
      BY <1>9, <2>2, <2>5, <3>2
    <3>. QED BY <3>3, <3>4
  <2>6. TrueBelow(links', Y) \subseteq C
    <3>. HIDE DEF C, Y
    <3>. QED BY <2>5, BelowLeast
  <2>7. TrueBelow(links, Y) \subseteq Items
    BY <1>2, BelowItems
  <2>. QED BY <1>4, <1>10, <2>2, <2>3, <2>6, <2>7
<1>11. \A k \in TrueLinks(links') : k \notin links => k.parent = Trash
  BY <1>1, <1>3 DEF TrueLinks
<1>12. PICK nl : Commit(p, S, WithState(S, "deleted"), nl, Idle)
  BY <1>1
<1>. HIDE DEF S
<1>. QED BY <1>8, <1>10, <1>11, <1>12, IdleAimed, CommitTrashInv

\* A restore: what hangs below the item by links its snapshot does not have is not
\* deleted, so nothing deleted leaves the trash with it.
LEMMA RestoreTrashInv ==
  ASSUME TrashInv, ParentInv', NEW p \in Requests, Restore(p)
  PROVE  TrashInv'
<1> DEFINE R == req[p].item
           ls == req[p].snap.links
           home == req[p].snap.items[R].parent
           S == TrueBelow(ls, R) \cup {R}
           old == TrueLink(Trash, R)
           new == TrueLink(home, R)
<1>0. ParentInv
  BY DEF TrashInv
<1>1. /\ req[p].step = "open" /\ R \in Items \ {Root, Trash} /\ home \in Items \ {Trash}
      /\ S \subseteq Items /\ S \cap req[p].missed = {}
      /\ \A i \in S : items[i].state \in {"live", "deleted"}
      /\ items' = WithState(S, "live")
      /\ TrueLinks(links') = (TrueLinks(links) \ {old}) \cup {new}
      /\ \E nl : Commit(p, S, WithState(S, "live"), nl, Idle)
  BY <1>0, RestoreMoves
<1>2. /\ links \in SUBSET Link /\ links' \in SUBSET Link /\ ls \in SUBSET Link
      /\ TreeOf(req[p].snap) /\ req[p].snap \in Store
  <2>1. links' \in SUBSET Link
    BY DEF ParentInv, KeyInv, TypeInv, CatalogTypeOK
  <2>. QED BY <1>0, <1>1, <2>1, LinksType, OpenFacts
<1>3. old.child = R /\ new.child = R /\ new.parent = home
  BY TrueLinkIs
<1>4. /\ \A i \in Items : i \notin S => items'[i] = items[i]
      /\ \A i \in S : items'[i].state = "live"
  <2>. HIDE DEF S
  <2>. QED BY <1>0, <1>1, MarkedItems
<1>5. Trash \notin S
  BY <1>1, <1>2, TrashNotBelow
<1>6. \A l \in TrueLinks(ls) : l.parent \in S => l.child \in S
  BY <1>2, BelowFollows
<1>7. R \in S
  OBVIOUS
<1>. HIDE DEF S
<1>8. PICK B : /\ \A z \in B : items[z].state # "deleted"
               /\ \A l \in TrueLinks(links) : l.parent \in S \cup B => l.child \in S \cup B
  BY <1>1, <1>5, <1>6, BelowWritten
<1>9. \A z \in Items \cap (S \cup B) : items'[z].state # "deleted"
  BY <1>4, <1>8
<1>10. DeletedIsInTrash'
  <2> DEFINE C == TrueBelow(links', Trash) \cup S \cup B
  <2>1. ASSUME NEW l \in TrueLinks(links), l.parent = Trash \/ l.parent \in C
        PROVE  l.child \in C
    <3>1. CASE l.parent \in S \cup B
      BY <1>8, <3>1
    <3>2. CASE l = old
      BY <1>3, <1>7, <3>2
    <3>3. CASE l # old /\ (l.parent = Trash \/ l.parent \in TrueBelow(links', Trash))
      BY <1>1, <1>2, <3>3, BelowFollows
    <3>. QED BY <2>1, <3>1, <3>2, <3>3
  <2>2. TrueBelow(links, Trash) \subseteq C
    <3>. HIDE DEF C
    <3>. QED BY <2>1, BelowLeast
  <2> SUFFICES ASSUME NEW i \in Items, items'[i].state = "deleted"
               PROVE  i \in TrueBelow(links', Trash)
    BY DEF DeletedIsInTrash
  <2>3. i \notin S \cup B
    BY <1>9
  <2>4. items[i].state = "deleted"
    BY <1>4, <2>3
  <2>. QED BY <2>2, <2>3, <2>4 DEF TrashInv, DeletedIsInTrash
<1>11. \A m \in TrueLinks(links') : m.parent \in S \cup B => m.child \in S \cup B
  BY <1>1, <1>3, <1>7, <1>8
<1>12. ASSUME NEW k \in TrueLinks(links'), k \notin links
       PROVE  \A z \in {k.child} \cup TrueBelow(links', k.child) : items'[z].state # "deleted"
  <2>1. k = new
    BY <1>1, <1>12 DEF TrueLinks
  <2>2. TrueBelow(links', R) \subseteq S \cup B
    BY <1>7, <1>11, BelowLeast
  <2>3. TrueBelow(links', R) \subseteq Items
    BY <1>2, BelowItems
  <2>. QED BY <1>1, <1>3, <1>7, <1>9, <2>1, <2>2, <2>3
<1>13. ASSUME NEW k \in TrueLinks(links'), k \in links,
              \A z \in {k.child} \cup TrueBelow(links, k.child) : items[z].state # "deleted"
       PROVE  \A z \in {k.child} \cup TrueBelow(links', k.child) : items'[z].state # "deleted"
  <2> DEFINE D == {k.child} \cup TrueBelow(links, k.child)
  <2>1. k.child \in Items /\ TrueBelow(links', k.child) \subseteq Items
    BY <1>2, BelowItems DEF TrueLinks, Link
  <2>2. ASSUME NEW m \in TrueLinks(links'), m.parent \in D \cup S \cup B
        PROVE  m.child \in D \cup S \cup B
    <3>1. CASE m = new
      BY <1>3, <1>7, <3>1
    <3>2. CASE m \in TrueLinks(links) /\ m.parent \in D
      BY <1>2, <3>2, BelowFollows
    <3>3. CASE m \in TrueLinks(links) /\ m.parent \in S \cup B
      BY <1>8, <3>3
    <3>. QED BY <1>1, <2>2, <3>1, <3>2, <3>3
  <2>3. TrueBelow(links', k.child) \subseteq D \cup S \cup B
    <3>1. k.child \in D
      OBVIOUS
    <3>. HIDE DEF D
    <3>. QED BY <2>2, <3>1, BelowLeast
  <2>4. \A z \in Items \cap D : items'[z].state # "deleted"
    BY <1>4, <1>13
  <2>. QED BY <1>9, <2>1, <2>3, <2>4
<1>14. PICK nl : Commit(p, S, WithState(S, "live"), nl, Idle)
  BY <1>1
<1>. QED BY <1>10, <1>12, <1>13, <1>14, IdleAimed, CommitTrashInv

\* A removal: an item that stays deleted is not cut off from the trash.
LEMMA HardDeleteTrashInv ==
  ASSUME TrashInv, ParentInv', NEW p \in Requests, HardDelete(p)
  PROVE  TrashInv'
<1> DEFINE ls == req[p].snap.links
           W == Present(p, Children(TrueLinks(LinksBelow(ls, req[p].item))) \cup {req[p].item})
<1>0. ParentInv
  BY DEF TrashInv
<1>1. /\ req[p].step = "open"
      /\ W \subseteq Items \ {Root, Trash} /\ W \cap req[p].missed = {}
      /\ \A i \in W : items[i].state \in {"live", "deleted"}
      /\ items' = WithState(W, "purged")
      /\ TrueLinks(links') = {l \in TrueLinks(links) : l.child \notin W}
      /\ \A l \in TrueLinks(ls) : l.parent \in W => l.child \in W
      /\ \E nl : Commit(p, W, WithState(W, "purged"), nl, Idle)
  BY <1>0, HardDeleteMoves
<1>. HIDE DEF W
<1>2. links \in SUBSET Link /\ links' \in SUBSET Link
  <2>1. links' \in SUBSET Link
    BY DEF ParentInv, KeyInv, TypeInv, CatalogTypeOK
  <2>. QED BY <1>0, <2>1, LinksType
<1>3. /\ \A i \in Items : i \notin W => items'[i] = items[i]
      /\ \A i \in W : items'[i].state = "purged"
  BY <1>0, <1>1, MarkedItems
<1>4. PICK B : /\ \A z \in B : items[z].state # "deleted"
               /\ \A l \in TrueLinks(links) : l.parent \in W \cup B => l.child \in W \cup B
  BY <1>1, BelowWritten
<1>5. DeletedIsInTrash'
  <2> DEFINE C == TrueBelow(links', Trash) \cup W \cup B
  <2>1. ASSUME NEW l \in TrueLinks(links), l.parent = Trash \/ l.parent \in C
        PROVE  l.child \in C
    <3>1. CASE l.parent \in W \cup B
      BY <1>4, <3>1
    <3>2. CASE l.child \in W
      BY <3>2
    <3>3. CASE l.child \notin W /\ (l.parent = Trash \/ l.parent \in TrueBelow(links', Trash))
      BY <1>1, <1>2, <3>3, BelowFollows
    <3>. QED BY <2>1, <3>1, <3>2, <3>3
  <2>2. TrueBelow(links, Trash) \subseteq C
    <3>. HIDE DEF C
    <3>. QED BY <2>1, BelowLeast
  <2> SUFFICES ASSUME NEW i \in Items, items'[i].state = "deleted"
               PROVE  i \in TrueBelow(links', Trash)
    BY DEF DeletedIsInTrash
  <2>3. i \notin W /\ items[i].state = "deleted"
    BY <1>3
  <2>. QED BY <1>4, <2>2, <2>3 DEF TrashInv, DeletedIsInTrash
<1>6. \A k \in TrueLinks(links') : k \in links
  BY <1>1 DEF TrueLinks
<1>7. ASSUME NEW k \in TrueLinks(links'), k \in links,
             \A z \in {k.child} \cup TrueBelow(links, k.child) : items[z].state # "deleted"
      PROVE  \A z \in {k.child} \cup TrueBelow(links', k.child) : items'[z].state # "deleted"
  <2>1. TrueBelow(links', k.child) \subseteq TrueBelow(links, k.child)
    BY <1>1, <1>2, BelowMonotone
  <2>2. TrueBelow(links', k.child) \subseteq Items /\ k.child \in Items
    BY <1>2, BelowItems DEF TrueLinks, Link
  <2>3. \A z \in Items : items[z].state # "deleted" => items'[z].state # "deleted"
    BY <1>3
  <2>. QED BY <1>7, <2>1, <2>2, <2>3
<1>8. PICK nl : Commit(p, W, WithState(W, "purged"), nl, Idle)
  BY <1>1
<1>. QED BY <1>5, <1>6, <1>7, <1>8, IdleAimed, CommitTrashInv

(* A creation adds a live item with nothing below it.                        *)
LEMMA CreateItemTrashInv ==
  ASSUME TrashInv, ParentInv', NEW p \in Requests, NEW i \in Items, CreateItem(p, i)
  PROVE  TrashInv'
<1> DEFINE up == req[p].parent
           made == [state |-> "live", version |-> 1, parent |-> up]
           ni == [items EXCEPT ![i] = made]
           after == [Idle EXCEPT !.step = "created", !.op = "create", !.item = i]
           next == IF Kind[i] = "task" THEN after ELSE Idle
           new == TrueLink(up, i)
<1>0. ParentInv
  BY DEF TrashInv
<1>1. /\ up \in Items \ {Trash, i}
      /\ items' = ni
      /\ \A l \in TrueLinks(links) : l.child # i /\ l.parent # i
      /\ TrueLinks(links') = TrueLinks(links) \cup {new}
      /\ \E nl : Commit(p, {i}, ni, nl, next)
  BY <1>0, CreateItemMoves
<1>2. links \in SUBSET Link /\ links' \in SUBSET Link
  <2>1. links' \in SUBSET Link
    BY DEF ParentInv, KeyInv, TypeInv, CatalogTypeOK
  <2>. QED BY <1>0, <2>1, LinksType
<1>3. items'[i].state = "live" /\ \A j \in Items : j # i => items'[j] = items[j]
  BY <1>0, <1>1 DEF ParentInv, KeyInv, TypeInv, CatalogTypeOK
<1>4. next.step # "open"
  BY <1>0, IdleType DEF ParentInv, KeyInv, TypeInv, Request, Idle
<1>5. new.child = i /\ new.parent = up
  BY TrueLinkIs
<1>. HIDE DEF ni, next, new, made
<1>6. DeletedIsInTrash'
  <2>1. TrueBelow(links, Trash) \subseteq TrueBelow(links', Trash)
    BY <1>1, <1>2, BelowMonotone
  <2>. QED BY <1>3, <2>1 DEF TrashInv, DeletedIsInTrash
<1>7. ASSUME NEW k \in TrueLinks(links'), k \notin links
      PROVE  \A z \in {k.child} \cup TrueBelow(links', k.child) : items'[z].state # "deleted"
  <2>1. k = new
    BY <1>1, <1>7 DEF TrueLinks
  <2>2. \A l \in TrueLinks(links') : l.parent # i
    BY <1>1, <1>5
  <2> DEFINE C == {}
  <2>3. TrueBelow(links', i) \subseteq C
    <3>1. \A l \in TrueLinks(links') : l.parent = i \/ l.parent \in C => l.child \in C
      BY <2>2
    <3>. HIDE DEF C
    <3>. QED BY <3>1, BelowLeast
  <2>. QED BY <1>3, <1>5, <2>1, <2>3
<1>8. ASSUME NEW k \in TrueLinks(links'), k \in links,
             \A z \in {k.child} \cup TrueBelow(links, k.child) : items[z].state # "deleted"
      PROVE  \A z \in {k.child} \cup TrueBelow(links', k.child) : items'[z].state # "deleted"
  <2> DEFINE C == TrueBelow(links, k.child) \cup {i}
  <2>0. k \in TrueLinks(links)
    BY <1>8 DEF TrueLinks
  <2>1. ASSUME NEW l \in TrueLinks(links'), l.parent = k.child \/ l.parent \in C
        PROVE  l.child \in C
    <3>1. CASE l = new
      BY <1>5, <3>1
    <3>2. CASE l \in TrueLinks(links)
      BY <1>1, <1>2, <2>1, <3>2, BelowFollows
    <3>. QED BY <1>1, <3>1, <3>2
  <2>2. TrueBelow(links', k.child) \subseteq C
    <3>. HIDE DEF C
    <3>. QED BY <2>1, BelowLeast
  <2>3. k.child \in Items /\ TrueBelow(links, k.child) \subseteq Items
    BY <1>2, BelowItems DEF TrueLinks, Link
  <2>. QED BY <1>3, <1>8, <2>2, <2>3
<1>9. PICK nl : Commit(p, {i}, ni, nl, next)
  BY <1>1
<1>. QED BY <1>4, <1>6, <1>7, <1>8, <1>9, CommitTrashInv

(* An update revives at most its item and moves nothing.                     *)
LEMMA UpdateExistingTrashInv ==
  ASSUME TrashInv, ParentInv', NEW p \in Requests, NEW versioned \in BOOLEAN,
         UpdateExisting(p, versioned)
  PROVE  TrashInv'
<1> DEFINE W == {req[p].item} \cap {j \in Items : Exists(req[p].snap, j)}
<1>0. ParentInv
  BY DEF TrashInv
<1>1. /\ links' = links
      /\ \A j \in Items : j \notin W => items'[j] = items[j]
      /\ \A j \in W : items'[j].state = "live"
  BY <1>0, UpdateExistingMoves
<1>2. PICK ni, nl : Commit(p, W, ni, nl, Idle)
  BY <1>0, UpdateExistingMoves
<1>. HIDE DEF W
<1>3. \A j \in Items : items'[j].state = "deleted" => items[j].state = "deleted"
  BY <1>1
<1>4. \A k \in TrueLinks(links) : {k.child} \cup TrueBelow(links, k.child) \subseteq Items
  BY <1>0, LinksType, BelowItems DEF TrueLinks, Link
<1>5. DeletedIsInTrash'
  BY <1>1, <1>3 DEF TrashInv, DeletedIsInTrash
<1>6. \A k \in TrueLinks(links') : k \in links
  BY <1>1 DEF TrueLinks
<1>7. ASSUME NEW k \in TrueLinks(links'),
             \A z \in {k.child} \cup TrueBelow(links, k.child) : items[z].state # "deleted"
      PROVE  \A z \in {k.child} \cup TrueBelow(links', k.child) : items'[z].state # "deleted"
  BY <1>1, <1>3, <1>4, <1>7
<1>. QED BY <1>2, <1>5, <1>6, <1>7, IdleAimed, CommitTrashInv

(* A removed soft link changes nothing in the tree.                          *)
LEMMA UnlinkTrashInv ==
  ASSUME TrashInv, ParentInv', NEW p \in Requests, Unlink(p)
  PROVE  TrashInv'
<1>0. ParentInv
  BY DEF TrashInv
<1>1. /\ items' = items /\ TrueLinks(links') = TrueLinks(links)
  BY <1>0, UnlinkMoves
<1>2. PICK nl : Commit(p, {}, items, nl, Idle)
  BY <1>0, UnlinkMoves
<1>3. \A i : TrueBelow(links', i) = TrueBelow(links, i)
  BY <1>1 DEF TrueBelow
<1>4. DeletedIsInTrash'
  BY <1>1, <1>3 DEF TrashInv, DeletedIsInTrash
<1>5. \A k \in TrueLinks(links') : k \in links
  BY <1>1 DEF TrueLinks
<1>. QED BY <1>1, <1>2, <1>3, <1>4, <1>5, IdleAimed, CommitTrashInv

(* Nor does a request that starts.                                           *)
LEMMA AskTrashInv ==
  ASSUME TrashInv, ParentInv', NEW p \in Requests, Ask(p)
  PROVE  TrashInv'
<1>0. req \in [Requests -> Request] /\ Idle \in Request
  BY IdleType DEF TrashInv, ParentInv, KeyInv, TypeInv, CatalogTypeOK
<1>1. ASSUME NEW r, Arrive(p, r), r.step = "open" => r.snap = Now
      PROVE  TrashInv'
  <2>1. /\ items' = items /\ TrueLinks(links') = TrueLinks(links) /\ req'[p] = r
        /\ \A q \in Requests : q # p => req'[q] = req[q]
    BY <1>0, <1>1 DEF Arrive
  <2>. QED BY <1>1, <2>1, QuietTrashInv
<1>2. ASSUME NEW k, NEW parent, NEW holder, LockPk(p, k, parent, holder)
      PROVE  TrashInv'
  <2> DEFINE r == [Idle EXCEPT !.step = "locked", !.op = "create", !.pk = k,
                               !.parent = parent, !.holder = holder]
  <2>1. r.step = "locked"
    BY <1>0 DEF Request
  <2>2. Arrive(p, r)
    BY <1>2 DEF LockPk
  <2>. HIDE DEF r
  <2>. QED BY <1>1, <2>1, <2>2
<1>3. ASSUME NEW parent, NEW child, CheckLink(p, parent, child)
      PROVE  TrashInv'
  <2> DEFINE r == [Idle EXCEPT !.step = "linking", !.op = "link",
                               !.item = child, !.parent = parent]
  <2>1. r.step = "linking"
    BY <1>0 DEF Request
  <2>2. Arrive(p, r)
    BY <1>3 DEF CheckLink
  <2>. HIDE DEF r
  <2>. QED BY <1>1, <2>1, <2>2
<1>4. ASSUME NEW op, NEW parent, NEW i, Begin(p, op, parent, i)
      PROVE  TrashInv'
  <2> DEFINE r == [Idle EXCEPT !.step = "open", !.op = op, !.item = i,
                               !.parent = parent, !.snap = Now]
  <2>1. r.snap = Now
    BY <1>0 DEF Request
  <2>2. Arrive(p, r)
    BY <1>4 DEF Begin
  <2>. HIDE DEF r
  <2>. QED BY <1>1, <2>1, <2>2
<1>5. ASSUME NEW l, NEW hard, BeginDelete(p, l, hard)
      PROVE  TrashInv'
  BY <1>4, <1>5 DEF BeginDelete
<1>6. ASSUME NEW i, BeginRestore(p, i)
      PROVE  TrashInv'
  BY <1>4, <1>6 DEF BeginRestore
<1>. QED BY <1>2, <1>3, <1>5, <1>6 DEF Ask

(* Nor a step of a request that changes no item.                             *)
LEMMA StepTrashInv ==
  ASSUME TrashInv, ParentInv', NEW p \in Requests,
         \/ FindExisting(p) \/ OpenTransaction(p) \/ InsertLink(p) \/ GiveUp(p)
         \/ \E t \in Items : FindParentTask(p, t)
  PROVE  TrashInv'
<1>0. req \in [Requests -> Request] /\ req[p] \in Request
  BY DEF TrashInv, ParentInv, KeyInv, TypeInv, CatalogTypeOK
<1>1. /\ items' = items
      /\ \A q \in Requests : q # p => req'[q] = req[q]
  BY <1>0 DEF FindExisting, OpenTransaction, InsertLink, GiveUp, FindParentTask
<1>2. TrueLinks(links') = TrueLinks(links)
  <2>1. CASE InsertLink(p)
    <3>1. \E l : ~l.true /\ links' = links \cup {l}
      BY <2>1 DEF InsertLink
    <3>. QED BY <3>1 DEF TrueLinks
  <2>2. CASE ~InsertLink(p)
    BY <2>2 DEF FindExisting, OpenTransaction, GiveUp, FindParentTask
  <2>. QED BY <2>1, <2>2
<1>3. req'[p].step = "open" => req'[p].snap = Now
  <2>1. CASE FindExisting(p)
    <3>1. CASE req' = [req EXCEPT ![p].step = "found"]
      BY <1>0, <3>1 DEF Request
    <3>2. ASSUME NEW i, req' = [req EXCEPT ![p].step = "found", ![p].item = i,
                                           ![p].seen = items[i].version]
          PROVE  req'[p].step = "found"
      <4>1. req'[p] = [req[p] EXCEPT !.step = "found", !.item = i, !.seen = items[i].version]
        BY <1>0, <3>2
      <4>. QED BY <1>0, <4>1 DEF Request
    <3>. QED BY <2>1, <3>1, <3>2 DEF FindExisting
  <2>2. CASE OpenTransaction(p)
    BY <1>0, <2>2 DEF OpenTransaction, Request
  <2>3. CASE InsertLink(p) \/ GiveUp(p)
    BY <1>0, <2>3, IdleAimed DEF InsertLink, GiveUp
  <2>4. ASSUME NEW t \in Items, FindParentTask(p, t) PROVE req'[p].step = "linking"
    BY <1>0, <2>4 DEF FindParentTask, Request
  <2>. QED BY <2>1, <2>2, <2>3, <2>4
<1>. QED BY <1>1, <1>2, <1>3, QuietTrashInv

(* The catalog starts with nothing deleted.                                  *)
LEMMA TrashInvInit == CatalogInit => TrashInv
<1> SUFFICES ASSUME CatalogInit PROVE TrashInv
  OBVIOUS
<1>1. \A i \in Items : items[i].state # "deleted"
  BY DEF CatalogInit
<1>2. \A p \in Requests : req[p] = Idle
  BY DEF CatalogInit
<1>. QED BY <1>1, <1>2, ParentInvInit, IdleAimed DEF TrashInv, DeletedIsInTrash, GrownAlive

(* So every step preserves the invariant of the trash.                       *)
LEMMA TrashInvNext == TrashInv /\ [CatalogNext]_catalogVars => TrashInv'
<1> SUFFICES ASSUME TrashInv, [CatalogNext]_catalogVars PROVE TrashInv'
  OBVIOUS
<1>1. ParentInv'
  BY ParentInvNext DEF TrashInv
<1>2. CASE UNCHANGED catalogVars
  BY <1>1, <1>2 DEF catalogVars, TrashInv, DeletedIsInTrash, GrownAlive
<1>3. ASSUME NEW p \in Requests, Ask(p) \/ Serve(p) PROVE TrashInv'
  BY <1>1, <1>3, AskTrashInv, StepTrashInv, CreateItemTrashInv, UpdateExistingTrashInv,
     HardDeleteTrashInv, SoftDeleteTrashInv, UnlinkTrashInv, RestoreTrashInv DEF Serve
<1>. QED BY <1>2, <1>3 DEF CatalogNext

\* However requests overlap, a deleted item can be reached from the trash: no
\* restore or removal that started before it was deleted cuts it off.
THEOREM DeletedStaysInTrash == CatalogSpec => []DeletedIsInTrash
<1>1. CatalogSpec => []TrashInv
  BY TrashInvInit, TrashInvNext, PTL DEF CatalogSpec
<1>2. TrashInv => DeletedIsInTrash
  BY DEF TrashInv
<1>. QED BY <1>1, <1>2, PTL

-----------------------------------------------------------------------------
(* Requests that do not overlap.                                             *)

\* A request that nobody disturbs: its transaction is up to date, what it is about
\* to link exists, and the item it found is still live.
Current(s, r) ==
  /\ r.missed = {}
  /\ r.step = "open" => r.snap = s
  /\ r.step = "linking" => Exists(s, r.parent) /\ Exists(s, r.item)
  /\ r.step = "created" => Exists(s, r.item)
  /\ r.op = "create" /\ r.step \in {"found", "open"} /\ r.item # None =>
       IsLive(s, r.item)

\* No link dangles, and what hangs directly in the trash is deleted.
Resolved(s) ==
  \A l \in s.links :
    /\ Exists(s, l.parent) /\ Exists(s, l.child)
    /\ l.true /\ l.parent = Trash => s.items[l.child].state = "deleted"

\* While requests do not overlap one is under way at most, and it is current.
AloneInv ==
  /\ TrashInv
  /\ ~overlapped =>
       /\ \A p, q \in Requests : Busy(p) /\ Busy(q) => p = q
       /\ \A p \in Requests : Current(Now, req[p])
       /\ Resolved(Now)

(* What a request knows while it is the only one.                            *)
LEMMA AloneFacts ==
  ASSUME AloneInv, ~overlapped, NEW p \in Requests, Busy(p)
  PROVE  /\ ParentInv /\ TrashInv /\ Resolved(Now) /\ Current(Now, req[p])
         /\ links \in SUBSET Link /\ TreeOf(Now) /\ Now \in Store
         /\ req[p].step = "open" => req[p].snap = Now
         /\ \A q \in Requests : q # p => req[q].step = "idle" /\ Current(Now, req[q])
<1>1. ParentInv /\ TrashInv /\ TypeInv /\ TreeOf(Now)
  BY DEF AloneInv, TrashInv, ParentInv, KeyInv
<1>2. links \in SUBSET Link /\ Now \in Store
  BY <1>1, LinksType, StoreType DEF TypeInv
<1>3. Current(Now, req[p]) /\ (req[p].step = "open" => req[p].snap = Now)
  BY DEF AloneInv, Current
<1>4. \A q \in Requests : q # p => req[q].step = "idle" /\ Current(Now, req[q])
  BY DEF AloneInv, Busy
<1>. QED BY <1>1, <1>2, <1>3, <1>4 DEF AloneInv

(* A request that is idle is current.                                        *)
LEMMA IdleCurrent ==
  /\ \A s : Current(s, Idle)
  /\ \A s, t, r : Current(s, r) /\ r.step = "idle" => Current(t, r)
  BY DEF Current, Idle

\* A commit that leaves the links resolved.
LEMMA CommitAloneInv ==
  ASSUME AloneInv, TrashInv', NEW p \in Requests, NEW W, NEW ni, NEW nl, NEW next,
         Commit(p, W, ni, nl, next),
         ~overlapped => Current(Now, next)' /\ Resolved(Now)'
  PROVE  AloneInv'
<1> SUFFICES ASSUME ~overlapped
             PROVE  /\ \A q, r \in Requests : Busy(q)' /\ Busy(r)' => q = r
                    /\ \A q \in Requests : Current(Now, req[q])'
                    /\ Resolved(Now)'
  BY DEF AloneInv, Commit
<1>1. Busy(p) /\ req'[p] = next
  BY DEF Commit, Busy
<1>2. \A q \in Requests : q # p => /\ req'[q] = req[q] /\ req[q].step = "idle"
                                   /\ Current(Now, req[q])
  BY <1>1, AloneFacts DEF Commit
<1>3. ASSUME NEW q \in Requests PROVE Current(Now, req[q])'
  <2>1. CASE q = p
    BY <1>1, <2>1 DEF Current
  <2>2. CASE q # p
    <3>1. req'[q] = req[q] /\ Current(Now', req[q])
      BY <1>2, <2>2, IdleCurrent
    <3>. QED BY <3>1
  <2>. QED BY <2>1, <2>2
<1>. QED BY <1>2, <1>3 DEF Busy

\* A step that writes no item and leaves the links resolved.
LEMMA QuietAloneInv ==
  ASSUME AloneInv, TrashInv', NEW p \in Requests, NEW r,
         req' = [req EXCEPT ![p] = r],
         ~overlapped' => /\ ~overlapped
                         /\ \A q \in Requests : q # p => ~Busy(q)
                         /\ Current(Now, r)' /\ Resolved(Now)'
  PROVE  AloneInv'
<1> SUFFICES ASSUME ~overlapped'
             PROVE  /\ \A q, t \in Requests : Busy(q)' /\ Busy(t)' => q = t
                    /\ \A q \in Requests : Current(Now, req[q])'
                    /\ Resolved(Now)'
  BY DEF AloneInv
<1>1. req'[p] = r
  BY DEF AloneInv, TrashInv, ParentInv, KeyInv, TypeInv, CatalogTypeOK
<1>2. \A q \in Requests : q # p => /\ req'[q] = req[q] /\ req[q].step = "idle"
                                   /\ Current(Now, req[q])
  BY DEF AloneInv, TrashInv, ParentInv, KeyInv, TypeInv, CatalogTypeOK, Busy
<1>3. ASSUME NEW q \in Requests PROVE Current(Now, req[q])'
  <2>1. CASE q = p
    BY <1>1, <2>1 DEF Current
  <2>2. CASE q # p
    <3>1. req'[q] = req[q] /\ Current(Now', req[q])
      BY <1>2, <2>2, IdleCurrent
    <3>. QED BY <3>1
  <2>. QED BY <2>1, <2>2
<1>. QED BY <1>2, <1>3 DEF Busy

\* A delete: what it hangs in the trash it has marked.
LEMMA SoftDeleteAloneInv ==
  ASSUME AloneInv, TrashInv', NEW p \in Requests, SoftDelete(p)
  PROVE  AloneInv'
<1> DEFINE A == req[p].item
           S == TrueBelow(req[p].snap.links, A) \cup {A}
           old == TrueLink(req[p].parent, A)
           new == TrueLink(Trash, A)
<1>0. ParentInv
  BY DEF AloneInv, TrashInv
<1>1. /\ req[p].step = "open" /\ A \in Items \ {Root, Trash}
      /\ S \subseteq Items
      /\ \A i \in S : items[i].state \in {"live", "deleted"}
      /\ items' = WithState(S, "deleted")
      /\ old \in links
      /\ TrueLinks(links') = (TrueLinks(links) \ {old}) \cup {new}
      /\ \A l \in links' : ~l.true => l \in links
      /\ \E nl : Commit(p, S, WithState(S, "deleted"), nl, Idle)
  BY <1>0, SoftDeleteMoves
<1>2. A \in S /\ Busy(p)
  BY <1>1 DEF Busy
<1>. HIDE DEF S
<1>3. /\ \A i \in Items : i \notin S => items'[i] = items[i]
      /\ \A i \in S : items'[i].state = "deleted"
      /\ \A i \in Items : Exists(Now, i)' <=> Exists(Now, i)
  BY <1>0, <1>1, MarkedItems
<1>4. ASSUME ~overlapped PROVE Resolved(Now)'
  <2>1. Resolved(Now) /\ links \in SUBSET Link /\ TreeOf(Now)
    BY <1>2, <1>4, AloneFacts
  <2>2. /\ new.child = A /\ new.parent = Trash /\ old.child = A
        /\ old \in TrueLinks(links)
    BY <1>1, TrueLinkIs DEF TrueLinks
  <2>3. Exists(Now, A) /\ Exists(Now, Trash)
    <3>1. TrueLink(Root, Trash) \in TrueLinks(links) /\ TrueLink(Root, Trash).child = Trash
      BY <2>1, TrueLinkIs DEF TreeOf, Now, TrueLinks
    <3>. QED BY <2>1, <2>2, <3>1 DEF TreeOf, Now
  <2> SUFFICES ASSUME NEW l \in links'
               PROVE  /\ Exists(Now, l.parent)' /\ Exists(Now, l.child)'
                      /\ l.true /\ l.parent = Trash => items'[l.child].state = "deleted"
    BY DEF Resolved, Now
  <2>4. CASE l = new
    BY <1>1, <1>2, <1>3, <2>2, <2>3, <2>4, CatalogAssumption
  <2>5. CASE l # new
    <3>1. l \in links
      BY <1>1, <2>5 DEF TrueLinks
    <3>2. l.parent \in Items /\ l.child \in Items
      BY <2>1, <3>1 DEF Link
    <3>3. /\ Exists(Now, l.parent) /\ Exists(Now, l.child)
          /\ l.true /\ l.parent = Trash => items[l.child].state = "deleted"
      BY <2>1, <3>1 DEF Resolved, Now
    <3>. QED BY <1>3, <3>2, <3>3
  <2>. QED BY <2>4, <2>5
<1>5. PICK nl : Commit(p, S, WithState(S, "deleted"), nl, Idle)
  BY <1>1
<1>. QED BY <1>4, <1>5, IdleCurrent, CommitAloneInv

\* What a restore revives is not in the trash by a link of its own, save the item.
LEMMA RestoreAlone ==
  ASSUME AloneInv, ~overlapped, NEW p \in Requests, Restore(p),
         NEW l \in TrueLinks(links), l.parent = Trash,
         l.child \in TrueBelow(req[p].snap.links, req[p].item) \cup {req[p].item}
  PROVE  l = TrueLink(Trash, req[p].item)
<1> DEFINE R == req[p].item
           old == TrueLink(Trash, R)
<1>0. ParentInv
  BY DEF AloneInv, TrashInv
<1>1. req[p].step = "open" /\ R \in Items \ {Root, Trash} /\ old \in links
  BY <1>0, RestoreMoves
<1>2. /\ req[p].snap = Now /\ TreeOf(Now) /\ Now \in Store
      /\ links \in SUBSET Link /\ Now.links = links
  BY <1>1, AloneFacts DEF Busy, Now
<1>3. old \in TrueLinks(links) /\ old.child = R
  BY <1>1, TrueLinkIs DEF TrueLinks
<1>4. CASE l.child = R
  BY <1>2, <1>3, <1>4 DEF TreeOf
<1>5. CASE l.child \in TrueBelow(links, R)
  <2>1. PICK k \in TrueLinks(links) :
          k.child = l.child /\ (k.parent = R \/ k.parent \in TrueBelow(links, R))
    BY <1>2, <1>5, BelowHangs
  <2>2. k = l
    BY <1>2, <2>1 DEF TreeOf
  <2>3. Trash \notin TrueBelow(links, R)
    BY <1>1, <1>2, TrashNotBelow
  <2>. QED BY <1>1, <2>1, <2>2, <2>3
<1>. QED BY <1>2, <1>4, <1>5

(* A restore: what stays in the trash stays deleted.                         *)
LEMMA RestoreAloneInv ==
  ASSUME AloneInv, TrashInv', NEW p \in Requests, Restore(p)
  PROVE  AloneInv'
<1> DEFINE R == req[p].item
           home == req[p].snap.items[R].parent
           S == TrueBelow(req[p].snap.links, R) \cup {R}
           old == TrueLink(Trash, R)
           new == TrueLink(home, R)
<1>0. ParentInv
  BY DEF AloneInv, TrashInv
<1>1. /\ req[p].step = "open" /\ R \in Items \ {Root, Trash} /\ home \in Items \ {Trash}
      /\ IsLive(req[p].snap, home)
      /\ S \subseteq Items
      /\ \A i \in S : items[i].state \in {"live", "deleted"}
      /\ items' = WithState(S, "live")
      /\ old \in links
      /\ TrueLinks(links') = (TrueLinks(links) \ {old}) \cup {new}
      /\ \A l \in links' : ~l.true => l \in links
      /\ \E nl : Commit(p, S, WithState(S, "live"), nl, Idle)
  BY <1>0, RestoreMoves
<1>2. Busy(p)
  BY <1>1 DEF Busy
<1>3. ~overlapped =>
        \A l \in TrueLinks(links) : l.parent = Trash /\ l.child \in S => l = old
  BY RestoreAlone
<1>. HIDE DEF S
<1>4. /\ \A i \in Items : i \notin S => items'[i] = items[i]
      /\ \A i \in Items : Exists(Now, i)' <=> Exists(Now, i)
  BY <1>0, <1>1, MarkedItems
<1>5. ASSUME ~overlapped PROVE Resolved(Now)'
  <2>1. Resolved(Now) /\ links \in SUBSET Link /\ TreeOf(Now) /\ req[p].snap = Now
    BY <1>1, <1>2, <1>5, AloneFacts
  <2>2. /\ new.child = R /\ new.parent = home /\ old.child = R
        /\ old \in TrueLinks(links) /\ old.true
    BY <1>1, TrueLinkIs DEF TrueLinks
  <2>3. Exists(Now, R)
    BY <2>1, <2>2 DEF TreeOf, Now
  <2>4. Exists(Now, home)
    BY <1>1, <2>1 DEF IsLive, Exists
  <2>5. new # old
    BY <1>1, TrueLinkIs
  <2>. HIDE DEF home, old, new
  <2> SUFFICES ASSUME NEW l \in links'
               PROVE  /\ Exists(Now, l.parent)' /\ Exists(Now, l.child)'
                      /\ l.true /\ l.parent = Trash => items'[l.child].state = "deleted"
    BY DEF Resolved, Now
  <2>6. CASE l = new
    BY <1>1, <1>4, <2>2, <2>3, <2>4, <2>6
  <2>7. CASE l # new
    <3>1. l \in links /\ l # old /\ (l.true => l \in TrueLinks(links))
      BY <1>1, <2>2, <2>5, <2>7 DEF TrueLinks
    <3>2. l.parent \in Items /\ l.child \in Items
      BY <2>1, <3>1 DEF Link
    <3>3. /\ Exists(Now, l.parent) /\ Exists(Now, l.child)
          /\ l.true /\ l.parent = Trash => items[l.child].state = "deleted"
      BY <2>1, <3>1 DEF Resolved, Now
    <3>4. l.true /\ l.parent = Trash => l.child \notin S
      BY <1>3, <1>5, <3>1
    <3>. QED BY <1>4, <3>2, <3>3, <3>4
  <2>. QED BY <2>6, <2>7
<1>6. PICK nl : Commit(p, S, WithState(S, "live"), nl, Idle)
  BY <1>1
<1>. QED BY <1>5, <1>6, IdleCurrent, CommitAloneInv

(* A removal for good takes every link of what it removes.                   *)
LEMMA HardDeleteAloneInv ==
  ASSUME AloneInv, TrashInv', NEW p \in Requests, HardDelete(p)
  PROVE  AloneInv'
<1> DEFINE R == req[p].item
           ls == req[p].snap.links
           W == Present(p, Children(TrueLinks(LinksBelow(ls, R))) \cup {R})
<1>0. ParentInv
  BY DEF AloneInv, TrashInv
<1>1. /\ req[p].step = "open" /\ R \in Items
      /\ W \subseteq Items \ {Root, Trash}
      /\ \A i \in W : items[i].state \in {"live", "deleted"}
      /\ items' = WithState(W, "purged")
      /\ links' = links \ Doomed(ls, R)
      /\ \E nl : Commit(p, W, WithState(W, "purged"), nl, Idle)
  BY <1>0, HardDeleteMoves
<1>2. Busy(p)
  BY <1>1 DEF Busy
<1>3. \A z \in W : z = R \/ \E k \in LinksBelow(ls, R) : k.true /\ k.child = z
  BY DEF Present, Children, TrueLinks
<1>. HIDE DEF W
<1>4. \A i \in Items : i \notin W => items'[i] = items[i]
  BY <1>0, <1>1, MarkedItems
<1>5. ASSUME ~overlapped PROVE Resolved(Now)'
  <2>1. /\ Resolved(Now) /\ links \in SUBSET Link /\ TreeOf(Now) /\ req[p].snap = Now
        /\ ls = links
    BY <1>1, <1>2, <1>5, AloneFacts DEF Now
  <2>2. /\ LinksBelow(links, R) \subseteq links
        /\ \A l \in links : l.parent = R => l \in LinksBelow(links, R)
    BY LinksBelowLeast DEF Start
  <2> SUFFICES ASSUME NEW l \in links'
               PROVE  /\ Exists(Now, l.parent)' /\ Exists(Now, l.child)'
                      /\ l.true /\ l.parent = Trash => items'[l.child].state = "deleted"
    BY DEF Resolved, Now
  <2>3. /\ l \in links /\ l \notin LinksBelow(links, R) /\ l.child # R
        /\ ~l.true => l.child \notin Children(TrueLinks(LinksBelow(links, R)))
    BY <1>1, <2>1 DEF Doomed
  <2>4. l.child \notin W
    <3> SUFFICES ASSUME NEW k \in LinksBelow(links, R), k.true, k.child = l.child
                 PROVE  FALSE
      BY <1>3, <2>1, <2>3
    <3>1. l.true
      BY <2>3 DEF Children, TrueLinks
    <3>2. k = l
      BY <2>1, <2>2, <2>3, <3>1 DEF TreeOf, Now, TrueLinks
    <3>. QED BY <2>3, <3>2
  <2>5. l.parent \notin W
    <3>1. l.parent # R
      BY <2>2, <2>3
    <3>2. ASSUME NEW k \in LinksBelow(links, R), k.child = l.parent PROVE FALSE
      BY <2>1, <2>3, <3>2, LinksBelowClosed
    <3>. QED BY <1>3, <2>1, <3>1, <3>2
  <2>6. l.parent \in Items /\ l.child \in Items
    BY <2>1, <2>3 DEF Link
  <2>7. /\ Exists(Now, l.parent) /\ Exists(Now, l.child)
        /\ l.true /\ l.parent = Trash => items[l.child].state = "deleted"
    BY <2>1, <2>3 DEF Resolved, Now
  <2>. QED BY <1>4, <2>4, <2>5, <2>6, <2>7 DEF Exists, Now
<1>6. PICK nl : Commit(p, W, WithState(W, "purged"), nl, Idle)
  BY <1>1
<1>. QED BY <1>5, <1>6, IdleCurrent, CommitAloneInv

(* A removed soft link leaves the others resolved.                           *)
LEMMA UnlinkAloneInv ==
  ASSUME AloneInv, TrashInv', NEW p \in Requests, Unlink(p)
  PROVE  AloneInv'
<1>0. ParentInv
  BY DEF AloneInv, TrashInv
<1>1. items' = items /\ links' \subseteq links
  BY <1>0, UnlinkMoves
<1>2. PICK nl : Commit(p, {}, items, nl, Idle)
  BY <1>0, UnlinkMoves
<1>3. ~overlapped => Resolved(Now)'
  BY <1>1 DEF AloneInv, Resolved, Now, Exists
<1>. QED BY <1>2, <1>3, IdleCurrent, CommitAloneInv

(* An update revives nothing: the item it found is still live.               *)
LEMMA UpdateExistingAloneInv ==
  ASSUME AloneInv, TrashInv', NEW p \in Requests, NEW versioned \in BOOLEAN,
         UpdateExisting(p, versioned)
  PROVE  AloneInv'
<1> DEFINE i == req[p].item
           W == {i} \cap {j \in Items : Exists(req[p].snap, j)}
<1>0. ParentInv
  BY DEF AloneInv, TrashInv
<1>1. /\ req[p].step = "open" /\ req[p].op = "create" /\ i \in Items
      /\ links' = links
      /\ \A j \in Items : j \notin W => items'[j] = items[j]
      /\ \A j \in W : items[j].state \in {"live", "deleted"} /\ items'[j].state = "live"
  BY <1>0, UpdateExistingMoves
<1>2. PICK ni, nl : Commit(p, W, ni, nl, Idle)
  BY <1>0, UpdateExistingMoves
<1>3. Busy(p) /\ i # None /\ W \subseteq {i}
  BY <1>1, CatalogAssumption DEF Busy
<1>. HIDE DEF W
<1>4. ASSUME ~overlapped PROVE Resolved(Now)'
  <2>1. Resolved(Now) /\ links \in SUBSET Link /\ IsLive(Now, i)
    BY <1>1, <1>3, <1>4, AloneFacts DEF Current
  <2>2. \A j \in Items : /\ Exists(Now, j) => Exists(Now, j)'
                         /\ items[j].state = "deleted" => items'[j].state = "deleted"
    BY <1>1, <1>3, <2>1 DEF Exists, IsLive, Now
  <2>3. \A l \in links : l.parent \in Items /\ l.child \in Items
    BY <2>1 DEF Link
  <2>. QED BY <1>1, <2>1, <2>2, <2>3 DEF Resolved, Now
<1>. QED BY <1>2, <1>4, IdleCurrent, CommitAloneInv

(* A creation links ends that exist, none of them the trash.                 *)
LEMMA CreateItemAloneInv ==
  ASSUME AloneInv, TrashInv', NEW p \in Requests, NEW i \in Items, CreateItem(p, i)
  PROVE  AloneInv'
<1> DEFINE up == req[p].parent
           made == [state |-> "live", version |-> 1, parent |-> up]
           ni == [items EXCEPT ![i] = made]
           after == [Idle EXCEPT !.step = "created", !.op = "create", !.item = i]
           next == IF Kind[i] = "task" THEN after ELSE Idle
           new == TrueLink(up, i)
<1>0. ParentInv
  BY DEF AloneInv, TrashInv
<1>1. /\ req[p].step = "open" /\ up \in Items \ {Trash, i}
      /\ Exists(req[p].snap, up)
      /\ req[p].holder = None \/ Exists(req[p].snap, req[p].holder)
      /\ items[i].state = "unused"
      /\ items' = ni
      /\ TrueLinks(links') = TrueLinks(links) \cup {new}
      /\ \A l \in links' : ~l.true =>
           \/ l \in links
           \/ l.parent # Trash /\ l.child = i /\ Kind[i] # "folder"
              /\ l.parent = req[p].holder
      /\ \E nl : Commit(p, {i}, ni, nl, next)
  BY <1>0, CreateItemMoves
<1>2. Busy(p)
  BY <1>1 DEF Busy
<1>3. items'[i].state = "live" /\ \A j \in Items : j # i => items'[j] = items[j]
  BY <1>0, <1>1 DEF ParentInv, KeyInv, TypeInv, CatalogTypeOK
<1>4. \A j \in Items : /\ Exists(Now, j) => Exists(Now, j)'
                       /\ items[j].state = "deleted" => items'[j].state = "deleted"
  BY <1>1, <1>3 DEF Exists, Now
<1>5. Exists(Now, i)'
  BY <1>3 DEF Exists, Now
<1>6. Current(Now, next)'
  <2>1. /\ after.step = "created" /\ after.item = i /\ after.missed = {}
    BY <1>0, IdleType DEF ParentInv, KeyInv, TypeInv, Request, Idle
  <2>. HIDE DEF after
  <2>2. Current(Now', after)
    BY <1>5, <2>1 DEF Current, Exists, Now
  <2>3. Current(Now', next)
    BY <2>2, IdleCurrent
  <2>. HIDE DEF next
  <2>. QED BY <2>3 DEF Current
<1>7. new.parent = up /\ new.child = i
  BY TrueLinkIs
<1>. HIDE DEF ni, next, new, made
<1>8. ASSUME ~overlapped PROVE Resolved(Now)'
  <2>1. Resolved(Now) /\ links \in SUBSET Link /\ req[p].snap = Now
    BY <1>1, <1>2, <1>8, AloneFacts
  <2>2. links' \in SUBSET Link
    BY DEF TrashInv, ParentInv, KeyInv, TypeInv, CatalogTypeOK
  <2> SUFFICES ASSUME NEW l \in links'
               PROVE  /\ Exists(Now, l.parent)' /\ Exists(Now, l.child)'
                      /\ l.true /\ l.parent = Trash => items'[l.child].state = "deleted"
    BY DEF Resolved, Now
  <2>3. l.parent \in Items /\ l.child \in Items
    BY <2>2 DEF Link
  <2>4. CASE l \in links
    BY <1>4, <2>1, <2>3, <2>4 DEF Resolved, Now
  <2>5. CASE l = new
    BY <1>1, <1>4, <1>5, <1>7, <2>1, <2>3, <2>5
  <2>6. CASE l \notin links /\ ~l.true
    <3>1. l.child = i /\ l.parent = req[p].holder /\ req[p].holder # None
      BY <1>1, <2>3, <2>6, CatalogAssumption
    <3>. QED BY <1>1, <1>4, <1>5, <2>1, <2>3, <2>6, <3>1
  <2>. QED BY <1>1, <2>4, <2>5, <2>6 DEF TrueLinks
<1>9. PICK nl : Commit(p, {i}, ni, nl, next)
  BY <1>1
<1>. QED BY <1>6, <1>8, <1>9, CommitAloneInv

(* A request that starts has just read what it needs.                        *)
LEMMA AskAloneInv ==
  ASSUME AloneInv, TrashInv', NEW p \in Requests, Ask(p)
  PROVE  AloneInv'
<1>0. Idle \in Request
  BY IdleType DEF AloneInv, TrashInv, ParentInv, KeyInv, TypeInv
<1>1. ASSUME NEW r, Arrive(p, r), Current(Now, r)
      PROVE  AloneInv'
  <2>1. /\ req' = [req EXCEPT ![p] = r] /\ items' = items /\ links' = links
        /\ ~overlapped' => ~overlapped /\ \A q \in Requests : ~Busy(q)
    BY <1>1 DEF Arrive
  <2>2. Current(Now, r)'
    BY <1>1, <2>1 DEF Current, Exists, IsLive, Now
  <2>3. ~overlapped => Resolved(Now)'
    BY <2>1 DEF AloneInv, Resolved, Exists, Now
  <2>. QED BY <2>1, <2>2, <2>3, QuietAloneInv
<1>2. ASSUME NEW k, NEW parent, NEW holder, LockPk(p, k, parent, holder)
      PROVE  AloneInv'
  <2> DEFINE r == [Idle EXCEPT !.step = "locked", !.op = "create", !.pk = k,
                               !.parent = parent, !.holder = holder]
  <2>1. r.step = "locked" /\ r.missed = {}
    BY <1>0 DEF Request, Idle
  <2>2. Arrive(p, r)
    BY <1>2 DEF LockPk
  <2>. HIDE DEF r
  <2>3. Current(Now, r)
    BY <2>1 DEF Current
  <2>. QED BY <1>1, <2>2, <2>3
<1>3. ASSUME NEW parent, NEW child, CheckLink(p, parent, child)
      PROVE  AloneInv'
  <2> DEFINE r == [Idle EXCEPT !.step = "linking", !.op = "link",
                               !.item = child, !.parent = parent]
  <2>1. r.step = "linking" /\ r.missed = {} /\ r.item = child /\ r.parent = parent
    BY <1>0 DEF Request, Idle
  <2>2. Arrive(p, r) /\ Exists(Now, parent) /\ Exists(Now, child)
    BY <1>3 DEF CheckLink
  <2>. HIDE DEF r
  <2>3. Current(Now, r)
    BY <2>1, <2>2 DEF Current
  <2>. QED BY <1>1, <2>2, <2>3
<1>4. ASSUME NEW op, op # "create", NEW parent, NEW i, Begin(p, op, parent, i)
      PROVE  AloneInv'
  <2> DEFINE r == [Idle EXCEPT !.step = "open", !.op = op, !.item = i,
                               !.parent = parent, !.snap = Now]
  <2>1. r.step = "open" /\ r.op = op /\ r.snap = Now /\ r.missed = {}
    BY <1>0 DEF Request, Idle
  <2>2. Arrive(p, r)
    BY <1>4 DEF Begin
  <2>. HIDE DEF r
  <2>3. Current(Now, r)
    BY <1>4, <2>1 DEF Current
  <2>. QED BY <1>1, <2>2, <2>3
<1>5. ASSUME NEW l, NEW hard, BeginDelete(p, l, hard)
      PROVE  AloneInv'
  <2>1. Begin(p, IF hard THEN "purge" ELSE "delete", l.parent, l.child)
    BY <1>5 DEF BeginDelete
  <2>2. (IF hard THEN "purge" ELSE "delete") # "create"
    OBVIOUS
  <2>. QED BY <1>4, <2>1, <2>2
<1>6. ASSUME NEW i, BeginRestore(p, i)
      PROVE  AloneInv'
  BY <1>4, <1>6 DEF BeginRestore
<1>. QED BY <1>2, <1>3, <1>5, <1>6 DEF Ask

(* A request that goes on alone reads what it has just read.                 *)
LEMMA StepAloneInv ==
  ASSUME AloneInv, TrashInv', NEW p \in Requests,
         \/ FindExisting(p) \/ OpenTransaction(p) \/ InsertLink(p) \/ GiveUp(p)
         \/ \E t \in Items : FindParentTask(p, t)
  PROVE  AloneInv'
<1>0. /\ req \in [Requests -> Request] /\ req[p] \in Request /\ WellFormed(req[p])
      /\ Aimed(req[p])
  BY DEF AloneInv, TrashInv, ParentInv, KeyInv, TypeInv, CatalogTypeOK
<1>1. Busy(p) /\ items' = items /\ overlapped' = overlapped
  BY DEF FindExisting, OpenTransaction, InsertLink, GiveUp, FindParentTask, Busy
<1>2. ~overlapped => /\ Current(Now, req[p]) /\ Resolved(Now)
                     /\ \A q \in Requests : q # p => ~Busy(q)
  BY <1>1, AloneFacts DEF Busy
<1>3. ASSUME NEW r, req' = [req EXCEPT ![p] = r], links' = links,
             ~overlapped => Current(Now, r)
      PROVE  AloneInv'
  <2>1. ~overlapped' => Current(Now, r)' /\ Resolved(Now)'
    BY <1>1, <1>2, <1>3 DEF Current, Resolved, Exists, IsLive, Now
  <2>. QED BY <1>1, <1>2, <1>3, <2>1, QuietAloneInv
<1>4. CASE FindExisting(p)
  <2>1. CASE req' = [req EXCEPT ![p].step = "found"]
    <3> DEFINE r == [req[p] EXCEPT !.step = "found"]
    <3>1. /\ req' = [req EXCEPT ![p] = r] /\ r.step = "found"
          /\ r.item = req[p].item /\ r.missed = req[p].missed
      BY <1>0, <2>1 DEF Request
    <3>. HIDE DEF r
    <3>2. r.item = None
      BY <1>0, <1>4, <3>1 DEF WellFormed, FindExisting
    <3>3. ~overlapped => Current(Now, r)
      BY <1>2, <3>1, <3>2 DEF Current
    <3>. QED BY <1>3, <1>4, <3>1, <3>3 DEF FindExisting
  <2>2. ASSUME NEW i \in Items, IsLive(Now, i),
               req' = [req EXCEPT ![p].step = "found", ![p].item = i,
                                  ![p].seen = items[i].version]
        PROVE  AloneInv'
    <3> DEFINE r == [req[p] EXCEPT !.step = "found", !.item = i, !.seen = items[i].version]
    <3>1. /\ req' = [req EXCEPT ![p] = r] /\ r.step = "found"
          /\ r.item = i /\ r.missed = req[p].missed
      BY <1>0, <2>2 DEF Request
    <3>. HIDE DEF r
    <3>2. ~overlapped => Current(Now, r)
      BY <1>2, <2>2, <3>1 DEF Current
    <3>. QED BY <1>3, <1>4, <3>1, <3>2 DEF FindExisting
  <2>. QED BY <1>4, <2>1, <2>2 DEF FindExisting
<1>5. CASE OpenTransaction(p)
  <2> DEFINE r == [req[p] EXCEPT !.step = "open", !.snap = Now]
  <2>1. /\ req' = [req EXCEPT ![p] = r] /\ r.step = "open" /\ r.snap = Now
        /\ r.op = req[p].op /\ r.item = req[p].item /\ r.missed = req[p].missed
    BY <1>0, <1>5 DEF Request, OpenTransaction
  <2>. HIDE DEF r
  <2>2. ~overlapped => Current(Now, r)
    BY <1>2, <1>5, <2>1 DEF Current, OpenTransaction
  <2>. QED BY <1>3, <1>5, <2>1, <2>2 DEF OpenTransaction
<1>6. CASE InsertLink(p)
  <2> DEFINE new == [parent |-> req[p].parent, child |-> req[p].item, true |-> FALSE]
  <2>1. ~overlapped => Exists(Now, new.parent) /\ Exists(Now, new.child)
    BY <1>2, <1>6 DEF InsertLink, Current
  <2>2. links' = links \cup {new} /\ ~new.true /\ req' = [req EXCEPT ![p] = Idle]
    BY <1>6 DEF InsertLink
  <2>. HIDE DEF new
  <2>3. ~overlapped => Resolved(Now)'
    BY <1>1, <1>2, <2>1, <2>2 DEF Resolved, Exists, Now
  <2>4. Current(Now, Idle)'
    BY IdleCurrent DEF Current, Idle
  <2>. QED BY <1>1, <1>2, <2>2, <2>3, <2>4, QuietAloneInv
<1>7. CASE GiveUp(p)
  BY <1>3, <1>7, IdleCurrent DEF GiveUp
<1>8. ASSUME NEW t \in Items, FindParentTask(p, t)
      PROVE  AloneInv'
  <2> DEFINE r == [req[p] EXCEPT !.step = "linking", !.parent = t]
  <2>1. /\ req' = [req EXCEPT ![p] = r] /\ r.step = "linking" /\ r.parent = t
        /\ r.item = req[p].item /\ r.missed = req[p].missed
    BY <1>0, <1>8 DEF Request, FindParentTask
  <2>. HIDE DEF r
  <2>2. ~overlapped => Current(Now, r)
    BY <1>2, <1>8, <2>1 DEF Current, FindParentTask
  <2>. QED BY <1>3, <1>8, <2>1, <2>2 DEF FindParentTask
<1>. QED BY <1>4, <1>5, <1>6, <1>7, <1>8

(* The catalog starts with its links resolved.                               *)
LEMMA AloneInvInit == CatalogInit => AloneInv
<1> SUFFICES ASSUME CatalogInit PROVE AloneInv
  OBVIOUS
<1>1. \A p \in Requests : req[p] = Idle
  BY DEF CatalogInit
<1>2. Existing \subseteq Items /\ \A i \in Existing \ {Root} : HomeOf(i) \in Existing \ {Trash}
  BY CatalogAssumption DEF Existing, HomeOf
<1>3. \A i \in Items : Exists(Now, i) <=> i \in Existing
  BY DEF CatalogInit, Exists, Now
<1>4. Resolved(Now)
  <2> SUFFICES ASSUME NEW l \in links
               PROVE  Exists(Now, l.parent) /\ Exists(Now, l.child) /\ l.parent # Trash
    BY DEF Resolved, Now
  <2>1. PICK i \in Existing \ {Root} : l.parent = HomeOf(i) /\ l.child = i
    BY DEF CatalogInit
  <2>. QED BY <1>2, <1>3, <2>1
<1>5. \A p \in Requests : ~Busy(p)
  BY <1>1, IdleAimed DEF Busy
<1>6. \A p \in Requests : Current(Now, req[p])
  BY <1>1, IdleCurrent
<1>. QED BY <1>4, <1>5, <1>6, TrashInvInit DEF AloneInv

(* So every step preserves the invariant of lone requests.                   *)
LEMMA AloneInvNext == AloneInv /\ [CatalogNext]_catalogVars => AloneInv'
<1> SUFFICES ASSUME AloneInv, [CatalogNext]_catalogVars PROVE AloneInv'
  OBVIOUS
<1>1. TrashInv'
  BY TrashInvNext DEF AloneInv
<1>2. CASE UNCHANGED catalogVars
  BY <1>1, <1>2 DEF catalogVars, AloneInv, Busy, Current, Resolved, Exists, IsLive, Now
<1>3. ASSUME NEW p \in Requests, Ask(p) \/ Serve(p) PROVE AloneInv'
  BY <1>1, <1>3, AskAloneInv, StepAloneInv, CreateItemAloneInv, UpdateExistingAloneInv,
     HardDeleteAloneInv, SoftDeleteAloneInv, UnlinkAloneInv, RestoreAloneInv DEF Serve
<1>. QED BY <1>2, <1>3 DEF CatalogNext

\* The tree is sound: typed, every item in one place, what is deleted to be found
\* in the trash, and no dangling link as long as requests do not overlap.
THEOREM CatalogTreeIsSound == CatalogSpec => []TreeIsSound
<1>1. CatalogSpec => []AloneInv
  BY AloneInvInit, AloneInvNext, PTL DEF CatalogSpec
<1>2. AloneInv => CatalogTypeOK /\ DeletedIsInTrash
  BY DEF AloneInv, TrashInv, ParentInv, KeyInv, TypeInv
<1>3. AloneInv => AloneLinksResolve
  BY DEF AloneInv, AloneLinksResolve, Resolved, Now
<1>4. CatalogSpec => []OneTrueParent
  BY ItemsHaveOneTrueParent
<1>5. AloneInv /\ OneTrueParent => TreeIsSound
  BY <1>2, <1>3 DEF TreeIsSound
<1>. QED BY <1>1, <1>4, <1>5, PTL

-----------------------------------------------------------------------------
(* What a restore takes out of the trash.                                    *)

SparesOthers ==
  ~overlapped' => \A l \in TrueLinks(links) :
    l.parent = Trash /\ IsLive(Now, l.child)' =>
      /\ l \notin links'
      /\ \E k \in TrueLinks(links') : k.child = l.child /\ IsLive(Now, k.parent)'

\* A step that revives no deleted item spares what is in the trash.
LEMMA RevivesNoneSpares ==
  ASSUME AloneInv, ~overlapped' => ~overlapped,
         \A i \in Items : items[i].state = "deleted" => items'[i].state # "live"
  PROVE  SparesOthers
<1> SUFFICES ASSUME ~overlapped', NEW l \in TrueLinks(links), l.parent = Trash,
                    IsLive(Now, l.child)'
             PROVE  FALSE
  BY DEF SparesOthers
<1>1. links \in SUBSET Link /\ Resolved(Now)
  BY LinksType DEF AloneInv, TrashInv
<1>2. l.child \in Items /\ items[l.child].state = "deleted"
  BY <1>1 DEF TrueLinks, Link, Resolved, Now
<1>. QED BY <1>2 DEF IsLive, Now

(* A restore hangs the item below a live home, and revives no other in it.   *)
LEMMA RestoreSpares ==
  ASSUME AloneInv, NEW p \in Requests, Restore(p)
  PROVE  SparesOthers
<1> DEFINE R == req[p].item
           home == req[p].snap.items[R].parent
           S == TrueBelow(req[p].snap.links, R) \cup {R}
           old == TrueLink(Trash, R)
           new == TrueLink(home, R)
<1>0. ParentInv
  BY DEF AloneInv, TrashInv
<1>1. /\ req[p].step = "open" /\ R \in Items \ {Root, Trash} /\ home \in Items \ {Trash}
      /\ IsLive(req[p].snap, home)
      /\ S \subseteq Items
      /\ \A i \in S : items[i].state \in {"live", "deleted"}
      /\ items' = WithState(S, "live")
      /\ old \in links
      /\ TrueLinks(links') = (TrueLinks(links) \ {old}) \cup {new}
  BY <1>0, RestoreMoves
<1>2. overlapped' = overlapped
  BY DEF Restore, Commit
<1>3. ~overlapped =>
        \A l \in TrueLinks(links) : l.parent = Trash /\ l.child \in S => l = old
  BY RestoreAlone
<1>. HIDE DEF S
<1>4. /\ \A i \in Items : i \notin S => items'[i] = items[i]
      /\ \A i \in S : items'[i].state = "live"
  BY <1>0, <1>1, MarkedItems
<1>5. /\ new.child = R /\ new.parent = home /\ old.child = R /\ old.parent = Trash
      /\ old.true
  BY TrueLinkIs
<1> SUFFICES ASSUME ~overlapped, NEW l \in TrueLinks(links), l.parent = Trash,
                    IsLive(Now, l.child)'
             PROVE  /\ l \notin links'
                    /\ \E k \in TrueLinks(links') :
                         k.child = l.child /\ IsLive(Now, k.parent)'
  BY <1>2 DEF SparesOthers
<1>6. links \in SUBSET Link /\ Resolved(Now) /\ req[p].snap = Now
  BY <1>1, AloneFacts DEF Busy
<1>7. l.child \in Items /\ items[l.child].state = "deleted"
  BY <1>6 DEF TrueLinks, Link, Resolved, Now
<1>8. l.child \in S
  BY <1>4, <1>7 DEF IsLive, Now
<1>9. l = old
  BY <1>3, <1>8
<1>10. items'[home].state = "live"
  BY <1>1, <1>4, <1>6 DEF IsLive, Now
<1>11. old \notin TrueLinks(links') /\ new \in TrueLinks(links')
  BY <1>1, <1>5
<1>12. l \notin links' /\ new.child = l.child
  BY <1>5, <1>9, <1>11 DEF TrueLinks
<1>13. \E k \in TrueLinks(links') : k.child = l.child /\ items'[k.parent].state = "live"
  BY <1>5, <1>10, <1>11, <1>12
<1>. QED BY <1>12, <1>13 DEF IsLive, Now

\* While requests do not overlap, restoring a folder leaves in the trash what was
\* put there on its own, and what leaves the trash goes below a live folder.
THEOREM RestoreLeavesOthersInTrash == CatalogSpec => RestoreSparesOthers
<1>1. ASSUME AloneInv, NEW p \in Requests, Ask(p) \/ Serve(p) PROVE SparesOthers
  <2>0. ParentInv /\ TypeInv
    BY <1>1 DEF AloneInv, TrashInv, ParentInv, KeyInv
  <2>1. CASE Ask(p)
    <3>1. items' = items /\ (~overlapped' => ~overlapped)
      BY <2>1 DEF Ask, LockPk, CheckLink, BeginDelete, BeginRestore, Begin, Arrive
    <3>. QED BY <1>1, <3>1, RevivesNoneSpares
  <2>2. CASE \/ FindExisting(p) \/ OpenTransaction(p) \/ InsertLink(p) \/ GiveUp(p)
             \/ \E t \in Items : FindParentTask(p, t)
    <3>1. items' = items /\ overlapped' = overlapped
      BY <2>2 DEF FindExisting, OpenTransaction, InsertLink, GiveUp, FindParentTask
    <3>. QED BY <1>1, <3>1, RevivesNoneSpares
  <2>3. ASSUME NEW i \in Items, CreateItem(p, i) PROVE SparesOthers
    <3>1. /\ items[i].state = "unused"
          /\ items' = [items EXCEPT ![i] = [state |-> "live", version |-> 1,
                                            parent |-> req[p].parent]]
      BY <2>0, <2>3, CreateItemMoves
    <3>2. \A j \in Items : j # i => items'[j] = items[j]
      BY <2>0, <3>1 DEF TypeInv, CatalogTypeOK
    <3>3. overlapped' = overlapped
      BY <2>3 DEF CreateItem, Commit
    <3>. QED BY <1>1, <3>1, <3>2, <3>3, RevivesNoneSpares
  <2>4. ASSUME NEW versioned \in BOOLEAN, UpdateExisting(p, versioned) PROVE SparesOthers
    <3>1. overlapped' = overlapped
      BY <2>4 DEF UpdateExisting, Commit
    <3> DEFINE i == req[p].item
               W == {i} \cap {j \in Items : Exists(req[p].snap, j)}
    <3>2. /\ req[p].step = "open" /\ req[p].op = "create" /\ i \in Items
          /\ \A j \in Items : j \notin W => items'[j] = items[j]
      BY <2>0, <2>4, UpdateExistingMoves
    <3>3. W \subseteq {i} /\ Busy(p) /\ i # None
      BY <3>2, CatalogAssumption DEF Busy
    <3>. HIDE DEF W
    <3>4. CASE ~overlapped
      <4>1. IsLive(Now, i)
        BY <1>1, <3>2, <3>3, <3>4, AloneFacts DEF Current
      <4>2. \A j \in Items : items[j].state = "deleted" => items'[j].state # "live"
        BY <3>2, <3>3, <4>1 DEF IsLive, Now
      <4>. QED BY <1>1, <3>1, <4>2, RevivesNoneSpares
    <3>5. CASE overlapped
      BY <3>1, <3>5 DEF SparesOthers
    <3>. QED BY <3>4, <3>5
  <2>5. CASE HardDelete(p)
    <3> DEFINE W == Present(p, Children(TrueLinks(LinksBelow(req[p].snap.links, req[p].item)))
                               \cup {req[p].item})
    <3>1. /\ W \subseteq Items \ {Root, Trash}
          /\ \A i \in W : items[i].state \in {"live", "deleted"}
          /\ items' = WithState(W, "purged")
      BY <2>0, <2>5, HardDeleteMoves
    <3>. HIDE DEF W
    <3>2. /\ \A i \in Items : i \notin W => items'[i] = items[i]
          /\ \A i \in W : items'[i].state = "purged"
      BY <2>0, <3>1, MarkedItems
    <3>3. overlapped' = overlapped
      BY <2>5 DEF HardDelete, Commit
    <3>. QED BY <1>1, <3>2, <3>3, RevivesNoneSpares
  <2>6. CASE SoftDelete(p)
    <3> DEFINE S == TrueBelow(req[p].snap.links, req[p].item) \cup {req[p].item}
    <3>1. /\ S \subseteq Items
          /\ \A i \in S : items[i].state \in {"live", "deleted"}
          /\ items' = WithState(S, "deleted")
      BY <2>0, <2>6, SoftDeleteMoves
    <3>. HIDE DEF S
    <3>2. /\ \A i \in Items : i \notin S => items'[i] = items[i]
          /\ \A i \in S : items'[i].state = "deleted"
      BY <2>0, <3>1, MarkedItems
    <3>3. overlapped' = overlapped
      BY <2>6 DEF SoftDelete, Commit
    <3>. QED BY <1>1, <3>2, <3>3, RevivesNoneSpares
  <2>7. CASE Unlink(p)
    <3>1. items' = items
      BY <2>0, <2>7, UnlinkMoves
    <3>2. overlapped' = overlapped
      BY <2>7 DEF Unlink, Commit
    <3>. QED BY <1>1, <3>1, <3>2, RevivesNoneSpares
  <2>8. CASE Restore(p)
    BY <1>1, <2>8, RestoreSpares
  <2>. QED BY <1>1, <2>1, <2>2, <2>3, <2>4, <2>5, <2>6, <2>7, <2>8 DEF Serve
<1>2. AloneInv /\ [CatalogNext]_catalogVars => [SparesOthers]_catalogVars
  BY <1>1 DEF CatalogNext
<1>3. CatalogSpec => []AloneInv
  BY AloneInvInit, AloneInvNext, PTL DEF CatalogSpec
<1>4. CatalogSpec => [][SparesOthers]_catalogVars
  BY <1>2, <1>3, PTL DEF CatalogSpec
<1>5. RestoreSparesOthers <=> [][SparesOthers]_catalogVars
  BY DEF RestoreSparesOthers, SparesOthers
<1>. QED BY <1>4, <1>5
=============================================================================
