---------------------------- MODULE AccessProofs ----------------------------
(* Theorems about who may use what: the seats of licences (LicenseSeats) and *)
(* the rights that the change streams pass on to Keto (AccessPipeline), for any *)
(* users, licences, documents and requests, however these overlap.           *)
EXTENDS LicenseSeats, AccessPipeline, FiniteSetTheorems, TLAPS

-----------------------------------------------------------------------------
(* The seats of the licences (LicenseSeats)                                  *)

Held == Licenses \cup {NoLicense, NoUser}
Documents == Licenses \cup Users

Snapshots == [lists : [Licenses -> SUBSET Users], full : [Licenses -> BOOLEAN],
              held : [Users -> Held], versions : [Documents -> Nat]]

Requests == [op : {"create", "add", "remove", "delete"}, license : Held,
             users : SUBSET Users, snap : Snapshots]

(* A document that has not been written since a snapshot is as the snapshot  *)
(* has it; who had no document then has none before the first write, and     *)
(* never again after it.                                                     *)
Faithful(s) ==
  /\ \A d \in Documents : s.versions[d] <= version[d]
  /\ \A l \in Licenses : s.versions[l] = version[l] =>
        s.lists[l] = user_list[l] /\ s.full[l] = limit_exceeded[l]
  /\ \A u \in Users : s.versions[u] = version[u] => s.held[u] = license_laui[u]
  /\ \A u \in Users : s.versions[u] = 0 =>
        s.held[u] = NoUser /\ \A l \in Licenses : u \notin s.lists[l]
  /\ \A u \in Users : s.held[u] = NoUser /\ s.versions[u] > 0 => license_laui[u] = NoUser

(* What the start of a request has checked. *)
WellPosed(t) ==
  /\ t.op \in {"create", "add", "remove"} => t.license \in Licenses
  /\ t.op \in {"add", "remove"} => \A u \in t.users : t.snap.versions[u] > 0
  /\ t.op = "create" => \E u \in Users : t.users = {u} /\ t.snap.versions[u] = 0
  /\ t.op = "delete" => \E u \in Users : t.users = {u}

TxnTypes == txn \in [Admins -> Requests \cup {NoTxn}] /\ version \in [Documents -> Nat]

Started(a) == txn[a].op # "none"

SeatInv ==
  /\ LicenseSeatsTypeOK /\ TxnTypes
  /\ \A a \in Admins : Started(a) => Faithful(txn[a].snap) /\ WellPosed(txn[a])
  /\ HoldersAreSeated

-----------------------------------------------------------------------------
(* A request that has started is a typed request.                            *)
LEMMA StartedTypes ==
  ASSUME TxnTypes, NEW a \in Admins, Started(a)
  PROVE  txn[a] \in Requests
  BY DEF TxnTypes, Started, NoTxn, Requests

(* A snapshot taken now is faithful.                                         *)
LEMMA SnapshotIsFaithful ==
  ASSUME LicenseSeatsTypeOK, TxnTypes
  PROVE  Snapshot \in Snapshots /\ Faithful(Snapshot)
<1>. DEFINE s == Snapshot
<1>1. /\ s.lists = user_list /\ s.full = limit_exceeded
      /\ s.held = license_laui /\ s.versions = version
  BY DEF Snapshot
<1>2. s \in Snapshots
  BY DEF Snapshot, Snapshots, LicenseSeatsTypeOK, TxnTypes, Held
<1>3. /\ \A d \in Documents : version[d] \in Nat
      /\ \A u \in Users : version[u] = 0 =>
            license_laui[u] = NoUser /\ \A l \in Licenses : u \notin user_list[l]
  BY DEF LicenseSeatsTypeOK, TxnTypes
<1>4. Faithful(s)
  BY ONLY <1>1, <1>3 DEF Faithful
<1>. QED BY <1>2, <1>4

(* A request that starts changes no document. *)
LEMMA StartKeeps ==
  ASSUME SeatInv, NEW a \in Admins, NEW request, StartsTxn(a, request),
         request \in Requests, request.snap = Snapshot, WellPosed(request)
  PROVE  SeatInv'
<1>1. /\ UNCHANGED <<user_list, limit_exceeded, license_laui, lapsed, version>>
      /\ txn' = [txn EXCEPT ![a] = request]
  BY DEF StartsTxn
<1>2. Faithful(Snapshot)
  BY SnapshotIsFaithful DEF SeatInv
<1>3. ASSUME NEW b \in Admins, (Started(b))' PROVE Faithful(txn'[b].snap) /\ WellPosed(txn'[b])
  BY <1>1, <1>2, <1>3 DEF SeatInv, TxnTypes, Started
<1>4. ASSUME NEW b \in Admins, (Started(b))' PROVE (Faithful(txn[b].snap) /\ WellPosed(txn[b]))'
  BY <1>3, <1>4, <1>1 DEF Faithful, WellPosed
<1>5. TxnTypes'
  BY <1>1 DEF SeatInv, TxnTypes
<1>6. LicenseSeatsTypeOK' /\ HoldersAreSeated'
  BY <1>1 DEF SeatInv, LicenseSeatsTypeOK, HoldersAreSeated
<1>. QED BY <1>4, <1>5, <1>6 DEF SeatInv

(* A commit that changes only documents it counts as written, and brings no  *)
(* deleted user back, leaves every snapshot faithful.                        *)
LEMMA CommitKeepsSnapshots ==
  ASSUME SeatInv, NEW a \in Admins, NEW docs \in SUBSET Documents, Commits(a, docs),
         \A l \in Licenses \ docs : user_list'[l] = user_list[l]
                                    /\ limit_exceeded'[l] = limit_exceeded[l],
         \A u \in Users \ docs : license_laui'[u] = license_laui[u],
         \A u \in Users : license_laui[u] = NoUser /\ version[u] > 0 => license_laui'[u] = NoUser
  PROVE  /\ TxnTypes'
         /\ \A d \in Documents : version'[d] = IF d \in docs THEN version[d] + 1 ELSE version[d]
         /\ \A b \in Admins : (Started(b))' => (Faithful(txn[b].snap) /\ WellPosed(txn[b]))'
<1>1. /\ \A d \in Documents : version[d] \in Nat
      /\ \A d \in Documents : version'[d] = IF d \in docs THEN version[d] + 1 ELSE version[d]
      /\ version' \in [Documents -> Nat]
  BY DEF SeatInv, TxnTypes, Commits
<1>2. txn' = [txn EXCEPT ![a] = NoTxn]
  BY DEF Commits
<1>3. TxnTypes'
  BY <1>1, <1>2 DEF SeatInv, TxnTypes
<1>4. ASSUME NEW b \in Admins, (Started(b))'
      PROVE  (Faithful(txn[b].snap) /\ WellPosed(txn[b]))'
  <2>1. b # a /\ txn'[b] = txn[b] /\ Started(b)
    BY <1>2, <1>4 DEF SeatInv, TxnTypes, Started, NoTxn
  <2>2. Faithful(txn[b].snap) /\ WellPosed(txn[b]) /\ txn[b].snap \in Snapshots
    BY <2>1, StartedTypes DEF SeatInv, Requests
  <2>. DEFINE s == txn[b].snap
  <2>3. \A d \in Documents : s.versions[d] \in Nat
    BY <2>2 DEF Snapshots
  <2>4. \A d \in Documents : /\ s.versions[d] <= version'[d]
                             /\ s.versions[d] = version'[d] =>
                                  d \notin docs /\ version'[d] = version[d]
    BY <1>1, <2>2, <2>3 DEF Faithful
  <2>5. \A l \in Licenses : s.versions[l] = version'[l] =>
           s.lists[l] = user_list'[l] /\ s.full[l] = limit_exceeded'[l]
    BY <2>2, <2>4 DEF Faithful, Documents
  <2>6. \A u \in Users : s.versions[u] = version'[u] => s.held[u] = license_laui'[u]
    BY <2>2, <2>4 DEF Faithful, Documents
  <2>7. \A u \in Users : s.held[u] = NoUser /\ s.versions[u] > 0 => license_laui'[u] = NoUser
    BY <2>2, <2>3, <1>1 DEF Faithful, Documents
  <2>8. \A u \in Users : s.versions[u] = 0 =>
           s.held[u] = NoUser /\ \A l \in Licenses : u \notin s.lists[l]
    BY <2>2 DEF Faithful
  <2>9. (Faithful(txn[b].snap))'
    BY ONLY <2>1, <2>4, <2>5, <2>6, <2>7, <2>8 DEF Faithful
  <2>10. (WellPosed(txn[b]))'
    BY <2>1, <2>2 DEF WellPosed
  <2>. QED BY <2>9, <2>10
<1>. QED BY <1>1, <1>3, <1>4

-----------------------------------------------------------------------------
(* What the commits of the four requests have in common: a request that      *)
(* started, with its types.                                                  *)
LEMMA Committing ==
  ASSUME SeatInv, NEW a \in Admins, Started(a)
  PROVE  /\ txn[a] \in Requests /\ Faithful(txn[a].snap) /\ WellPosed(txn[a])
         /\ txn[a].users \in SUBSET Users /\ txn[a].snap \in Snapshots
         /\ \A d \in Documents : txn[a].snap.versions[d] \in Nat /\ version[d] \in Nat
         /\ \A u \in Users : txn[a].snap.held[u] \in Held
         /\ \A l \in Licenses : txn[a].snap.lists[l] \in SUBSET Users
                                /\ txn[a].snap.full[l] \in BOOLEAN
  BY StartedTypes DEF SeatInv, TxnTypes, Requests, Snapshots

(* Creating a licence with its users preserves the invariant.                *)
LEMMA CreateKeeps ==
  ASSUME SeatInv, NEW a \in Admins, Create(a)
  PROVE  SeatInv'
<1>. DEFINE t == txn[a]  l == t.license
<1>1. Started(a) /\ t.op = "create" /\ l \in Licenses
  BY Committing DEF Create, Started, WellPosed
<1>2. PICK u \in Users : t.users = {u} /\ t.snap.versions[u] = 0
  BY <1>1, Committing DEF WellPosed
<1>. DEFINE docs == {l} \cup {u}
<1>3. /\ docs \in SUBSET Documents /\ Commits(a, docs) /\ TakesSeats(t) /\ Hold({u}, l)
  BY <1>1, <1>2 DEF Create, Documents
<1>4. /\ version[u] = 0 /\ version[l] = t.snap.versions[l]
  BY <1>2, <1>3 DEF Commits, Unchanged
<1>5. Known(t) = user_list[l]
  BY <1>1, <1>4, Committing DEF Known, Faithful
<1>6. /\ user_list' = [user_list EXCEPT ![l] = user_list[l] \cup ({u} \ user_list[l])]
      /\ \E f \in BOOLEAN : limit_exceeded' = [limit_exceeded EXCEPT ![l] = f]
  BY <1>2, <1>3, <1>5 DEF TakesSeats, Lists, NewUsers
<1>7. license_laui' = [w \in Users |-> IF w = u THEN l ELSE license_laui[w]]
  BY <1>3 DEF Hold
<1>8. /\ TxnTypes'
      /\ \A b \in Admins : (Started(b))' => (Faithful(txn[b].snap) /\ WellPosed(txn[b]))'
      /\ \A d \in Documents : version'[d] = IF d \in docs THEN version[d] + 1 ELSE version[d]
  BY <1>1, <1>3, <1>4, <1>6, <1>7, CommitKeepsSnapshots DEF SeatInv, LicenseSeatsTypeOK
<1>9. LicenseSeatsTypeOK'
  <2>1. \A w \in Users : version'[w] = 0 => w # u /\ version[w] = 0
    BY <1>8 DEF SeatInv, TxnTypes, Documents
  <2>2. user_list' \in [Licenses -> SUBSET Users]
    BY <1>6 DEF SeatInv, LicenseSeatsTypeOK
  <2>3. limit_exceeded' \in [Licenses -> BOOLEAN]
    BY <1>6 DEF SeatInv, LicenseSeatsTypeOK
  <2>4. license_laui' \in [Users -> Licenses \cup {NoLicense, NoUser}]
    BY <1>1, <1>7 DEF SeatInv, LicenseSeatsTypeOK
  <2>5. \A w \in Users : version'[w] = 0 =>
           license_laui'[w] = NoUser /\ \A m \in Licenses : w \notin user_list'[m]
    BY <2>1, <1>1, <1>6, <1>7 DEF SeatInv, LicenseSeatsTypeOK
  <2>. QED BY <2>2, <2>3, <2>4, <2>5 DEF LicenseSeatsTypeOK
<1>10. HoldersAreSeated'
  BY <1>1, <1>6, <1>7 DEF SeatInv, LicenseSeatsTypeOK, HoldersAreSeated
<1>. QED BY <1>8, <1>9, <1>10 DEF SeatInv

(* Adding users to a licence preserves it.                                   *)
LEMMA AddKeeps ==
  ASSUME SeatInv, NEW a \in Admins, AddUsers(a)
  PROVE  SeatInv'
<1>. DEFINE t == txn[a]  l == t.license  seen == Seen(t, NewUsers(t))  docs == {l} \cup seen
<1>1. Started(a) /\ t.op = "add" /\ l \in Licenses
  BY Committing DEF AddUsers, Started, WellPosed
<1>2. /\ NewUsers(t) \in SUBSET Users /\ seen \in SUBSET NewUsers(t)
      /\ \A u \in NewUsers(t) : t.snap.versions[u] > 0 /\ version[u] > 0
  BY <1>1, Committing DEF NewUsers, Seen, WellPosed, Faithful, Documents
<1>3. docs \in SUBSET Documents /\ Commits(a, docs) /\ TakesSeats(t) /\ Hold(seen, l)
  BY <1>1, <1>2 DEF AddUsers, Documents
<1>4. \A u \in seen : version[u] = t.snap.versions[u] /\ license_laui[u] # NoUser
  BY <1>2, <1>3, <1>1, Committing DEF Commits, Unchanged, Faithful, Seen
<1>5. /\ user_list' = [user_list EXCEPT ![l] = user_list[l] \cup NewUsers(t)]
      /\ \E f \in BOOLEAN : limit_exceeded' = [limit_exceeded EXCEPT ![l] = f]
  BY <1>3 DEF TakesSeats, Lists
<1>6. license_laui' = [w \in Users |-> IF w \in seen THEN l ELSE license_laui[w]]
  BY <1>3 DEF Hold
<1>7. /\ TxnTypes'
      /\ \A b \in Admins : (Started(b))' => (Faithful(txn[b].snap) /\ WellPosed(txn[b]))'
      /\ \A d \in Documents : version'[d] = IF d \in docs THEN version[d] + 1 ELSE version[d]
  BY <1>1, <1>3, <1>4, <1>5, <1>6, CommitKeepsSnapshots DEF SeatInv, LicenseSeatsTypeOK
<1>8. LicenseSeatsTypeOK'
  <2>1. \A u \in Users : version'[u] = 0 => u \notin docs /\ version[u] = 0 /\ u \notin NewUsers(t)
    BY <1>2, <1>7 DEF SeatInv, TxnTypes, Documents
  <2>. QED BY <2>1, <1>1, <1>2, <1>5, <1>6 DEF SeatInv, LicenseSeatsTypeOK
<1>9. HoldersAreSeated'
  BY <1>1, <1>2, <1>5, <1>6 DEF SeatInv, LicenseSeatsTypeOK, HoldersAreSeated
<1>. QED BY <1>7, <1>8, <1>9 DEF SeatInv

(* A user who leaves and whom the request did not see has no document, or is *)
(* one it never listed: nobody loses the seat of a licence still held.       *)
LEMMA RemoveKeeps ==
  ASSUME SeatInv, NEW a \in Admins, RemoveUsers(a)
  PROVE  SeatInv'
<1>. DEFINE t == txn[a]  l == t.license  seen == Seen(t, Leaving(t))  docs == {l} \cup seen
<1>1. Started(a) /\ t.op = "remove" /\ l \in Licenses
  BY Committing DEF RemoveUsers, Started, WellPosed
<1>2. /\ Leaving(t) \in SUBSET Users /\ seen \in SUBSET Leaving(t)
      /\ \A u \in Leaving(t) : t.snap.versions[u] > 0 /\ version[u] > 0
  BY <1>1, Committing DEF Leaving, Seen, WellPosed, Faithful, Documents
<1>3. docs \in SUBSET Documents /\ Commits(a, docs) /\ FreesSeats(t) /\ Hold(seen, NoLicense)
  BY <1>1, <1>2 DEF RemoveUsers, Documents
<1>4. \A u \in seen : version[u] = t.snap.versions[u] /\ license_laui[u] # NoUser
  BY <1>2, <1>3, <1>1, Committing DEF Commits, Unchanged, Faithful, Seen
<1>5. /\ user_list' = [user_list EXCEPT ![l] = user_list[l] \ Leaving(t)]
      /\ limit_exceeded' = [limit_exceeded EXCEPT ![l] = FALSE]
  BY <1>3 DEF FreesSeats, Lists
<1>6. license_laui' = [w \in Users |-> IF w \in seen THEN NoLicense ELSE license_laui[w]]
  BY <1>3 DEF Hold
<1>7. /\ TxnTypes'
      /\ \A b \in Admins : (Started(b))' => (Faithful(txn[b].snap) /\ WellPosed(txn[b]))'
      /\ \A d \in Documents : version'[d] = IF d \in docs THEN version[d] + 1 ELSE version[d]
  <2>1. \A m \in Licenses \ docs :
           user_list'[m] = user_list[m] /\ limit_exceeded'[m] = limit_exceeded[m]
    BY <1>5 DEF SeatInv, LicenseSeatsTypeOK
  <2>2. \A u \in Users \ docs : license_laui'[u] = license_laui[u]
    BY <1>6
  <2>3. \A u \in Users : license_laui[u] = NoUser /\ version[u] > 0 => license_laui'[u] = NoUser
    BY <1>4, <1>6
  <2>. QED BY <1>3, <2>1, <2>2, <2>3, CommitKeepsSnapshots
<1>8. LicenseSeatsTypeOK'
  <2>1. \A u \in Users : version'[u] = 0 => u \notin docs /\ version[u] = 0
    BY <1>2, <1>7 DEF SeatInv, TxnTypes, Documents
  <2>. QED BY <2>1, <1>1, <1>2, <1>5, <1>6 DEF SeatInv, LicenseSeatsTypeOK
<1>9. \A u \in Leaving(t) : u \notin seen => license_laui[u] = NoUser
  BY <1>1, <1>2, Committing DEF Seen, Faithful
<1>10. HoldersAreSeated'
  BY <1>1, <1>2, <1>5, <1>6, <1>9, LicenseSeatsAssumption
     DEF SeatInv, LicenseSeatsTypeOK, HoldersAreSeated
<1>. QED BY <1>7, <1>8, <1>10 DEF SeatInv

(* Deleting a user preserves it.                                             *)
LEMMA DeleteKeeps ==
  ASSUME SeatInv, NEW a \in Admins, Delete(a)
  PROVE  SeatInv'
<1>. DEFINE t == txn[a]  l == t.license
            frees == l \in Licenses /\ l \notin lapsed /\ Leaving(t) # {}
            docs == t.users \cup (IF frees THEN {l} ELSE {})
<1>1. Started(a) /\ t.op = "delete"
  BY DEF Delete, Started
<1>2. PICK u \in Users : t.users = {u}
  BY <1>1, Committing DEF WellPosed
<1>3. /\ docs \in SUBSET Documents /\ Commits(a, docs) /\ Hold({u}, NoUser)
      /\ Leaving(t) \subseteq {u}
      /\ IF frees THEN FreesSeats(t) ELSE UNCHANGED <<user_list, limit_exceeded>>
  BY <1>2 DEF Delete, Documents, Leaving
<1>4. license_laui' = [w \in Users |-> IF w = u THEN NoUser ELSE license_laui[w]]
  BY <1>3 DEF Hold
<1>5. \/ /\ frees /\ user_list' = [user_list EXCEPT ![l] = user_list[l] \ Leaving(t)]
         /\ limit_exceeded' = [limit_exceeded EXCEPT ![l] = FALSE]
      \/ UNCHANGED <<user_list, limit_exceeded>>
  BY <1>3 DEF FreesSeats, Lists
<1>6. /\ TxnTypes'
      /\ \A b \in Admins : (Started(b))' => (Faithful(txn[b].snap) /\ WellPosed(txn[b]))'
      /\ \A d \in Documents : version'[d] = IF d \in docs THEN version[d] + 1 ELSE version[d]
  BY <1>2, <1>3, <1>4, <1>5, CommitKeepsSnapshots DEF SeatInv, LicenseSeatsTypeOK
<1>7. LicenseSeatsTypeOK'
  <2>1. \A w \in Users : version'[w] = 0 => w # u /\ version[w] = 0
    BY <1>2, <1>6 DEF SeatInv, TxnTypes, Documents
  <2>2. user_list' \in [Licenses -> SUBSET Users] /\ limit_exceeded' \in [Licenses -> BOOLEAN]
    BY <1>5 DEF SeatInv, LicenseSeatsTypeOK
  <2>3. \A m \in Licenses : user_list'[m] \subseteq user_list[m]
    BY <1>5 DEF SeatInv, LicenseSeatsTypeOK
  <2>4. license_laui' \in [Users -> Licenses \cup {NoLicense, NoUser}]
    BY <1>4 DEF SeatInv, LicenseSeatsTypeOK
  <2>5. \A w \in Users : version'[w] = 0 =>
           license_laui'[w] = NoUser /\ \A m \in Licenses : w \notin user_list'[m]
    BY <2>1, <2>3, <1>4 DEF SeatInv, LicenseSeatsTypeOK
  <2>. QED BY <2>2, <2>4, <2>5 DEF LicenseSeatsTypeOK
<1>8. HoldersAreSeated'
  BY <1>3, <1>4, <1>5, LicenseSeatsAssumption DEF SeatInv, LicenseSeatsTypeOK, HoldersAreSeated
<1>. QED BY <1>6, <1>7, <1>8 DEF SeatInv

(* The invariant holds of every run.                                         *)
LEMMA SeatInvHolds == LicenseSeatsSpec => []SeatInv
<1>1. LicenseSeatsInit => SeatInv
  BY LicenseSeatsAssumption
     DEF LicenseSeatsInit, SeatInv, LicenseSeatsTypeOK, TxnTypes, HoldersAreSeated, Started,
         NoTxn, Documents
<1>2. SeatInv /\ [LicenseSeatsNext]_seatVars => SeatInv'
  <2>. SUFFICES ASSUME SeatInv, [LicenseSeatsNext]_seatVars PROVE SeatInv'
    OBVIOUS
  <2>. USE SnapshotIsFaithful DEF SeatInv
  <2>1. ASSUME NEW a \in Admins, NEW l \in Licenses, NEW u \in Users, StartCreate(a, u, l)
        PROVE  SeatInv'
    <3>. DEFINE r == [op |-> "create", license |-> l, users |-> {u}, snap |-> Snapshot]
    <3>1. StartsTxn(a, r) /\ version[u] = 0
      BY <2>1 DEF StartCreate
    <3>2. r \in Requests /\ WellPosed(r)
      BY <3>1 DEF Requests, Held, WellPosed, Snapshot
    <3>. QED BY <3>1, <3>2, StartKeeps
  <2>2. ASSUME NEW a \in Admins, NEW l \in Licenses,
               NEW A \in SUBSET {u \in Users : version[u] > 0},
               NEW op \in {"add", "remove"},
               StartsTxn(a, [op |-> op, license |-> l, users |-> A, snap |-> Snapshot])
        PROVE  SeatInv'
    <3>. DEFINE r == [op |-> op, license |-> l, users |-> A, snap |-> Snapshot]
    <3>1. r \in Requests /\ WellPosed(r)
      BY DEF Requests, Held, WellPosed, Snapshot
    <3>. QED BY <2>2, <3>1, StartKeeps
  <2>3. ASSUME NEW a \in Admins, NEW u \in Users, StartDelete(a, u) PROVE SeatInv'
    <3>. DEFINE r == [op |-> "delete", license |-> license_laui[u], users |-> {u},
                      snap |-> Snapshot]
    <3>1. StartsTxn(a, r)
      BY <2>3 DEF StartDelete
    <3>2. r \in Requests /\ WellPosed(r)
      BY DEF Requests, Held, WellPosed, Snapshot, LicenseSeatsTypeOK
    <3>. QED BY <3>1, <3>2, StartKeeps
  <2>4. ASSUME NEW a \in Admins, Aborts(a) PROVE SeatInv'
    <3>1. /\ txn' = [txn EXCEPT ![a] = NoTxn]
          /\ UNCHANGED <<user_list, limit_exceeded, license_laui, version>>
      BY <2>4 DEF Aborts
    <3>2. ASSUME NEW b \in Admins, (Started(b))' PROVE (Faithful(txn[b].snap) /\ WellPosed(txn[b]))'
      <4>1. txn'[b] = txn[b] /\ Started(b)
        BY <3>1, <3>2 DEF TxnTypes, Started, NoTxn
      <4>. QED BY <4>1, <3>1 DEF Faithful, WellPosed
    <3>. QED BY <3>1, <3>2 DEF TxnTypes, LicenseSeatsTypeOK, HoldersAreSeated
  <2>5. ASSUME NEW l \in Licenses, Lapse(l) PROVE SeatInv'
    BY <2>5 DEF Lapse, TxnTypes, LicenseSeatsTypeOK, HoldersAreSeated, Started, Faithful, WellPosed
  <2>6. CASE UNCHANGED seatVars
    BY <2>6 DEF seatVars, TxnTypes, LicenseSeatsTypeOK, HoldersAreSeated, Started, Faithful,
                WellPosed
  <2>. QED
    BY <2>1, <2>2, <2>3, <2>4, <2>5, <2>6, CreateKeeps, AddKeeps, RemoveKeeps, DeleteKeeps
       DEF LicenseSeatsNext, StartAdd, StartRemove
<1>. QED BY <1>1, <1>2, PTL DEF LicenseSeatsSpec

(* Every variable keeps its type; a user who was never created has no        *)
(* licence and no seat.                                                      *)
THEOREM SeatTypesHold == LicenseSeatsSpec => []LicenseSeatsTypeOK
<1>1. SeatInv => LicenseSeatsTypeOK
  BY DEF SeatInv
<1>. QED BY <1>1, SeatInvHolds, PTL

(* The licence a user names lists the user, whatever requests overlap: the   *)
(* two checks of the licence middleware agree (create_user, update_license,  *)
(* delete_user).                                                             *)
THEOREM HoldersAreSeatedHolds == LicenseSeatsSpec => []HoldersAreSeated
<1>1. SeatInv => HoldersAreSeated
  BY DEF SeatInv
<1>. QED BY <1>1, SeatInvHolds, PTL

-----------------------------------------------------------------------------
(* Seats *)

(* The seats of two sets of users without a common one.                      *)
LEMMA SeatsAdd ==
  ASSUME NEW S \in SUBSET Users, NEW T \in SUBSET Users, S \cap T = {}
  PROVE  /\ Cardinality(S) \in Nat /\ Cardinality(T) \in Nat
         /\ Cardinality(S \cup T) = Cardinality(S) + Cardinality(T)
<1>1. IsFiniteSet(S) /\ IsFiniteSet(T)
  BY FS_Subset, LicenseSeatsAssumption
<1>2. Cardinality(S \cap T) = 0
  BY FS_EmptySet
<1>3. Cardinality(S) \in Nat /\ Cardinality(T) \in Nat
  BY <1>1, FS_CardinalityType
<1>4. Cardinality(S \cup T) = Cardinality(S) + Cardinality(T) - Cardinality(S \cap T)
  BY <1>1, FS_Union
<1>. QED BY <1>2, <1>3, <1>4

(* Taking seated users away frees seats.                                     *)
LEMMA SeatsFreed ==
  ASSUME NEW S \in SUBSET Users, NEW R \in SUBSET Users, S \cap R # {}
  PROVE  /\ Cardinality(S) \in Nat /\ Cardinality(S \ R) \in Nat
         /\ Cardinality(S \ R) < Cardinality(S)
<1>1. IsFiniteSet(S)
  BY FS_Subset, LicenseSeatsAssumption
<1>2. S \ R \in SUBSET S /\ S \ R # S
  OBVIOUS
<1>3. /\ IsFiniteSet(S \ R)
      /\ Cardinality(S \ R) <= Cardinality(S) /\ Cardinality(S \ R) # Cardinality(S)
  BY <1>1, <1>2, FS_Subset
<1>. QED BY <1>1, <1>3, FS_CardinalityType

(* A licence as a request that commits has found it. *)
LEMMA AsFound ==
  ASSUME SeatInv, NEW a \in Admins, Started(a), txn[a].license \in Licenses,
         NEW docs, Unchanged(txn[a], docs), txn[a].license \in docs
  PROVE  /\ Known(txn[a]) = user_list[txn[a].license]
         /\ txn[a].snap.full[txn[a].license] = limit_exceeded[txn[a].license]
  BY Committing DEF Unchanged, Known, Faithful

(* A commit that takes seats leaves them counted.                            *)
LEMMA TakingKeepsCount ==
  ASSUME SeatInv, SeatsAreCounted, NEW a \in Admins, Started(a), txn[a].license \in Licenses,
         NEW docs, Unchanged(txn[a], docs), txn[a].license \in docs, TakesSeats(txn[a])
  PROVE  SeatsAreCounted'
<1>. DEFINE t == txn[a]  l == t.license  S == user_list[l]  k == Cardinality(S)
            n == Cardinality(NewUsers(t))
<1>1. Known(t) = S /\ t.snap.full[l] = limit_exceeded[l]
  BY AsFound
<1>2. S \in SUBSET Users /\ NewUsers(t) \in SUBSET Users /\ S \cap NewUsers(t) = {}
  BY <1>1, Committing DEF SeatInv, LicenseSeatsTypeOK, NewUsers
<1>3. k \in Nat /\ n \in Nat /\ Cardinality(S \cup NewUsers(t)) = k + n
  BY <1>2, SeatsAdd
<1>4. Seats[l] \in Nat /\ k <= Seats[l] /\ (limit_exceeded[l] <=> k = Seats[l])
  BY LicenseSeatsAssumption DEF SeatsAreCounted
<1>5. n <= Seats[l] - k /\ SeatsLeft(t) = Seats[l] - k
  BY <1>1 DEF TakesSeats, SeatsLeft
<1>6. /\ user_list' = [user_list EXCEPT ![l] = S \cup NewUsers(t)]
      /\ limit_exceeded' = [limit_exceeded EXCEPT ![l] = t.snap.full[l] \/ n = SeatsLeft(t)]
  BY DEF TakesSeats, Lists
<1>7. (k = Seats[l] \/ n = Seats[l] - k) <=> k + n = Seats[l]
  BY <1>3, <1>4, <1>5
<1>8. limit_exceeded'[l] = (limit_exceeded[l] \/ n = Seats[l] - k)
  BY <1>1, <1>5, <1>6 DEF SeatInv, LicenseSeatsTypeOK
<1>9. limit_exceeded'[l] <=> k + n = Seats[l]
  BY <1>4, <1>7, <1>8, Zenon
<1>10. user_list'[l] = S \cup NewUsers(t)
  BY <1>6 DEF SeatInv, LicenseSeatsTypeOK
<1>11. /\ Cardinality(user_list'[l]) <= Seats[l]
       /\ (limit_exceeded'[l] <=> Cardinality(user_list'[l]) = Seats[l])
  <2>1. k + n <= Seats[l]
    BY <1>3, <1>4, <1>5
  <2>. QED BY <2>1, <1>3, <1>9, <1>10
<1>12. \A m \in Licenses : m # l =>
          user_list'[m] = user_list[m] /\ limit_exceeded'[m] = limit_exceeded[m]
  BY <1>6 DEF SeatInv, LicenseSeatsTypeOK
<1>. QED BY <1>11, <1>12 DEF SeatsAreCounted

(* So does one that frees seats.                                             *)
LEMMA FreeingKeepsCount ==
  ASSUME SeatInv, SeatsAreCounted, NEW a \in Admins, Started(a), txn[a].license \in Licenses,
         NEW docs, Unchanged(txn[a], docs), txn[a].license \in docs,
         FreesSeats(txn[a]), Leaving(txn[a]) # {}
  PROVE  SeatsAreCounted'
<1>. DEFINE t == txn[a]  l == t.license  S == user_list[l]
<1>1. Known(t) = S
  BY AsFound
<1>2. S \in SUBSET Users /\ Leaving(t) \in SUBSET Users /\ S \cap Leaving(t) # {}
  BY <1>1, Committing DEF SeatInv, LicenseSeatsTypeOK, Leaving
<1>3. Cardinality(S) \in Nat /\ Cardinality(S \ Leaving(t)) \in Nat
      /\ Cardinality(S \ Leaving(t)) < Cardinality(S)
  BY <1>2, SeatsFreed
<1>4. Seats[l] \in Nat /\ Cardinality(S) <= Seats[l]
  BY LicenseSeatsAssumption DEF SeatsAreCounted
<1>5. Cardinality(S \ Leaving(t)) < Seats[l]
  BY <1>3, <1>4
<1>6. /\ user_list'[l] = S \ Leaving(t) /\ ~limit_exceeded'[l]
      /\ \A m \in Licenses : m # l =>
           user_list'[m] = user_list[m] /\ limit_exceeded'[m] = limit_exceeded[m]
  BY DEF FreesSeats, Lists, SeatInv, LicenseSeatsTypeOK
<1>7. Cardinality(user_list'[l]) <= Seats[l] /\ Cardinality(user_list'[l]) # Seats[l]
  BY <1>3, <1>4, <1>5, <1>6
<1>. QED BY <1>6, <1>7 DEF SeatsAreCounted

(* However requests overlap, no licence has more users than seats, and its   *)
(* flag says exactly whether it is full: get_vacant_license, which looks at  *)
(* the flag only, neither overfills a licence nor overlooks a free seat.     *)
THEOREM SeatsAreCountedHolds == LicenseSeatsSpec => []SeatsAreCounted
<1>1. LicenseSeatsInit => SeatsAreCounted
  BY FS_EmptySet, LicenseSeatsAssumption DEF LicenseSeatsInit, SeatsAreCounted
<1>2. SeatInv /\ SeatsAreCounted /\ [LicenseSeatsNext]_seatVars => SeatsAreCounted'
  <2>. SUFFICES ASSUME SeatInv, SeatsAreCounted, [LicenseSeatsNext]_seatVars PROVE SeatsAreCounted'
    OBVIOUS
  <2>1. ASSUME NEW a \in Admins, Create(a) PROVE SeatsAreCounted'
    <3>1. Started(a) /\ txn[a].license \in Licenses
      BY <2>1, Committing DEF Create, Started, WellPosed
    <3>. QED BY <2>1, <3>1, TakingKeepsCount DEF Create, Commits
  <2>2. ASSUME NEW a \in Admins, AddUsers(a) PROVE SeatsAreCounted'
    <3>1. Started(a) /\ txn[a].license \in Licenses
      BY <2>2, Committing DEF AddUsers, Started, WellPosed
    <3>. QED BY <2>2, <3>1, TakingKeepsCount DEF AddUsers, Commits
  <2>3. ASSUME NEW a \in Admins, RemoveUsers(a) PROVE SeatsAreCounted'
    <3>1. Started(a) /\ txn[a].license \in Licenses
      BY <2>3, Committing DEF RemoveUsers, Started, WellPosed
    <3>. QED BY <2>3, <3>1, FreeingKeepsCount DEF RemoveUsers, Commits
  <2>4. ASSUME NEW a \in Admins, Delete(a) PROVE SeatsAreCounted'
    <3>1. Started(a)
      BY <2>4 DEF Delete, Started
    <3>2. CASE txn[a].license \in Licenses /\ txn[a].license \notin lapsed /\ Leaving(txn[a]) # {}
      BY <2>4, <3>1, <3>2, FreeingKeepsCount DEF Delete, Commits
    <3>3. CASE UNCHANGED <<user_list, limit_exceeded>>
      BY <3>3 DEF SeatsAreCounted
    <3>. QED BY <2>4, <3>2, <3>3 DEF Delete
  <2>5. CASE UNCHANGED <<user_list, limit_exceeded>>
    BY <2>5 DEF SeatsAreCounted
  <2>. QED
    BY <2>1, <2>2, <2>3, <2>4, <2>5
       DEF LicenseSeatsNext, StartCreate, StartAdd, StartRemove, StartDelete, StartsTxn, Aborts,
           Lapse, seatVars
<1>. QED BY <1>1, <1>2, SeatInvHolds, PTL DEF LicenseSeatsSpec

(* What the runs check of the licences as one invariant: the types, the      *)
(* count of the seats and that whoever holds a licence sits on it.           *)
THEOREM SeatsAgreeHolds == LicenseSeatsSpec => []SeatsAgree
<1>1. LicenseSeatsTypeOK /\ SeatsAreCounted /\ HoldersAreSeated => SeatsAgree
  BY DEF SeatsAgree
<1>. QED BY <1>1, SeatTypesHold, SeatsAreCountedHolds, HoldersAreSeatedHolds, PTL

-----------------------------------------------------------------------------
(* The way of a right to Keto (AccessPipeline)                               *)

(* What a message does to the tuples of a relation, "viewers" or "parents".  *)
Pairs == Docs \X (Docs \cup People)
Messages ==
  {e \in [op : {"none", "patch", "link", "unlink", "delete", "user"}, doc : Docs \cup {NoDoc},
          add : SUBSET (Docs \cup People), remove : SUBSET People] :
     /\ e.add \cap e.remove = {}
     /\ e.op = "patch" => e.add \subseteq People
     /\ e.op = "link" => e.add \subseteq Docs
     /\ e.op = "user" <=> e.doc = NoDoc /\ e.op # "none"}

Grants(relation, e, t) ==
  /\ IF relation = "viewers" THEN e.op = "patch" ELSE e.op = "link"
  /\ t[1] = e.doc /\ t[2] \in e.add

Revokes(relation, e, t) ==
  \/ e.op = "delete" /\ t[1] = e.doc
  \/ /\ relation = "viewers" /\ t[2] \in e.remove
     /\ e.op = "user" \/ (e.op = "patch" /\ t[1] = e.doc)

Applied(relation, e, T) ==
  {t \in Pairs : Grants(relation, e, t) \/ (t \in T /\ ~Revokes(relation, e, t))}

(* The same of a sequence of messages: the last one that concerns a tuple    *)
(* decides.                                                                  *)
AppliedAll(relation, s, T) ==
  {t \in Pairs :
     \/ \E i \in DOMAIN s : /\ Grants(relation, s[i], t)
                            /\ \A j \in DOMAIN s : j > i => ~Revokes(relation, s[j], t)
     \/ t \in T /\ \A i \in DOMAIN s : ~Revokes(relation, s[i], t)}

(* No message, and no job in hand, change nothing.                           *)
LEMMA NothingApplied ==
  ASSUME NEW relation, NEW T \in SUBSET Pairs
  PROVE  /\ AppliedAll(relation, <<>>, T) = T
         /\ Applied(relation, NoJob, T) = T
  BY DEF AppliedAll, Applied, Grants, Revokes, NoJob, Event

(* Messages leave a set of tuples of the relation.                           *)
LEMMA AppliedTypes ==
  ASSUME NEW relation, NEW e, NEW s, NEW T
  PROVE  Applied(relation, e, T) \in SUBSET Pairs /\ AppliedAll(relation, s, T) \in SUBSET Pairs
  BY DEF Applied, AppliedAll

(* The last message is applied to what those before it leave.                *)
LEMMA AppliedLast ==
  ASSUME NEW relation, NEW s \in Seq(Messages), NEW e \in Messages, NEW T \in SUBSET Pairs
  PROVE  AppliedAll(relation, Append(s, e), T) = Applied(relation, e, AppliedAll(relation, s, T))
<1>. DEFINE n == Len(s)
            a == Append(s, e)
<1>1. /\ n \in Nat /\ DOMAIN s = 1..n /\ DOMAIN a = 1..n + 1 /\ a[n + 1] = e
      /\ \A i \in 1..n : a[i] = s[i]
  OBVIOUS
<1>2. /\ \A i \in 1..n + 1 : i \in 1..n \/ i = n + 1
      /\ \A i \in 1..n : i \in 1..n + 1 /\ n + 1 > i /\ ~(i > n + 1)
      /\ ~(n + 1 > n + 1) /\ n + 1 \in 1..n + 1
  BY <1>1
<1>. HIDE DEF n, a
<1>t. /\ AppliedAll(relation, a, T) \in SUBSET Pairs
      /\ Applied(relation, e, AppliedAll(relation, s, T)) \in SUBSET Pairs
  BY AppliedTypes
<1>. SUFFICES ASSUME NEW t \in Pairs
              PROVE  t \in AppliedAll(relation, a, T)
                       <=> t \in Applied(relation, e, AppliedAll(relation, s, T))
  BY <1>t DEF a
<1>. DEFINE G(x) == Grants(relation, x, t)
            R(x) == Revokes(relation, x, t)
<1>3. t \in AppliedAll(relation, a, T) <=>
        \/ \E i \in 1..n + 1 : G(a[i]) /\ \A j \in 1..n + 1 : j > i => ~R(a[j])
        \/ t \in T /\ \A i \in 1..n + 1 : ~R(a[i])
  BY <1>1 DEF AppliedAll
<1>4. t \in Applied(relation, e, AppliedAll(relation, s, T)) <=>
        \/ G(e)
        \/ /\ ~R(e)
           /\ \/ \E i \in 1..n : G(s[i]) /\ \A j \in 1..n : j > i => ~R(s[j])
              \/ t \in T /\ \A i \in 1..n : ~R(s[i])
  BY <1>1 DEF Applied, AppliedAll
<1>. HIDE DEF G, R
<1>5. ASSUME \E i \in 1..n + 1 : G(a[i]) /\ \A j \in 1..n + 1 : j > i => ~R(a[j])
      PROVE  G(e) \/ (~R(e) /\ \E i \in 1..n : G(s[i]) /\ \A j \in 1..n : j > i => ~R(s[j]))
  <2>1. PICK i \in 1..n + 1 : G(a[i]) /\ \A j \in 1..n + 1 : j > i => ~R(a[j])
    BY <1>5
  <2>2. CASE i = n + 1
    BY <2>1, <2>2, <1>1
  <2>3. CASE i \in 1..n
    <3>1. ~R(e)
      BY <2>1, <2>3, <1>1, <1>2
    <3>2. G(s[i]) /\ \A j \in 1..n : j > i => ~R(s[j])
      BY <2>1, <2>3, <1>1, <1>2
    <3>. QED BY <3>1, <3>2, <2>3
  <2>. QED BY <2>2, <2>3, <1>2
<1>6. ASSUME \E i \in 1..n : G(s[i]) /\ \A j \in 1..n : j > i => ~R(s[j]), ~R(e)
      PROVE  \E i \in 1..n + 1 : G(a[i]) /\ \A j \in 1..n + 1 : j > i => ~R(a[j])
  <2>1. PICK i \in 1..n : G(s[i]) /\ \A j \in 1..n : j > i => ~R(s[j])
    BY <1>6
  <2>2. G(a[i]) /\ \A j \in 1..n + 1 : j > i => ~R(a[j])
    BY <2>1, <1>6, <1>1, <1>2
  <2>. QED BY <2>2, <1>2
<1>7. G(e) => \E i \in 1..n + 1 : G(a[i]) /\ \A j \in 1..n + 1 : j > i => ~R(a[j])
  BY <1>1, <1>2
<1>8. (\A i \in 1..n + 1 : ~R(a[i])) <=> (~R(e) /\ \A i \in 1..n : ~R(s[i]))
  BY <1>1, <1>2
<1>. QED BY <1>3, <1>4, <1>5, <1>6, <1>7, <1>8

(* The first message may be applied before the others.                       *)
LEMMA AppliedFirst ==
  ASSUME NEW relation, NEW s \in Seq(Messages), s # <<>>, NEW T \in SUBSET Pairs
  PROVE  AppliedAll(relation, s, T) = AppliedAll(relation, Tail(s), Applied(relation, Head(s), T))
<1>. DEFINE n == Len(s)
            b == Tail(s)
            e == Head(s)
<1>1. /\ n \in Nat /\ n > 0 /\ DOMAIN s = 1..n /\ DOMAIN b = 1..n - 1 /\ e = s[1]
      /\ \A i \in 1..n - 1 : b[i] = s[i + 1]
  OBVIOUS
<1>2. /\ \A i \in 1..n : i = 1 \/ (i - 1 \in 1..n - 1 /\ (i - 1) + 1 = i /\ i > 1)
      /\ \A i \in 1..n - 1 : i + 1 \in 1..n /\ i + 1 > 1 /\ ~(1 > i + 1)
      /\ \A i, j \in 1..n - 1 : j > i <=> j + 1 > i + 1
      /\ 1 \in 1..n /\ ~(1 > 1)
  BY <1>1
<1>. HIDE DEF n, b, e
<1>t. /\ AppliedAll(relation, s, T) \in SUBSET Pairs
      /\ AppliedAll(relation, b, Applied(relation, e, T)) \in SUBSET Pairs
  BY AppliedTypes
<1>. SUFFICES ASSUME NEW t \in Pairs
              PROVE  t \in AppliedAll(relation, s, T)
                       <=> t \in AppliedAll(relation, b, Applied(relation, e, T))
  BY <1>t DEF b, e
<1>. DEFINE G(x) == Grants(relation, x, t)
            R(x) == Revokes(relation, x, t)
<1>3. t \in AppliedAll(relation, s, T) <=>
        \/ \E i \in 1..n : G(s[i]) /\ \A j \in 1..n : j > i => ~R(s[j])
        \/ t \in T /\ \A i \in 1..n : ~R(s[i])
  BY <1>1 DEF AppliedAll
<1>4. t \in AppliedAll(relation, b, Applied(relation, e, T)) <=>
        \/ \E i \in 1..n - 1 : G(b[i]) /\ \A j \in 1..n - 1 : j > i => ~R(b[j])
        \/ (G(e) \/ (t \in T /\ ~R(e))) /\ \A i \in 1..n - 1 : ~R(b[i])
  BY <1>1 DEF Applied, AppliedAll
<1>. HIDE DEF G, R
<1>5. (\A i \in 1..n : ~R(s[i])) <=> (~R(e) /\ \A i \in 1..n - 1 : ~R(b[i]))
  <2>1. ASSUME \A i \in 1..n : ~R(s[i]) PROVE ~R(e) /\ \A i \in 1..n - 1 : ~R(b[i])
    BY <2>1, <1>1, <1>2
  <2>2. ASSUME ~R(e), \A i \in 1..n - 1 : ~R(b[i]), NEW i \in 1..n PROVE ~R(s[i])
    <3>1. CASE i = 1
      BY <3>1, <2>2, <1>1
    <3>2. CASE i - 1 \in 1..n - 1 /\ (i - 1) + 1 = i
      BY <3>2, <2>2, <1>1
    <3>. QED BY <3>1, <3>2, <1>2
  <2>. QED BY <2>1, <2>2
<1>6. ASSUME \E i \in 1..n : G(s[i]) /\ \A j \in 1..n : j > i => ~R(s[j])
      PROVE  \/ \E i \in 1..n - 1 : G(b[i]) /\ \A j \in 1..n - 1 : j > i => ~R(b[j])
             \/ G(e) /\ \A i \in 1..n - 1 : ~R(b[i])
  <2>1. PICK i \in 1..n : G(s[i]) /\ \A j \in 1..n : j > i => ~R(s[j])
    BY <1>6
  <2>2. CASE i = 1
    <3>1. \A j \in 1..n - 1 : ~R(b[j])
      BY <2>1, <2>2, <1>1, <1>2
    <3>. QED BY <3>1, <2>1, <2>2, <1>1
  <2>3. CASE i - 1 \in 1..n - 1 /\ (i - 1) + 1 = i
    <3>. DEFINE h == i - 1
    <3>. HIDE DEF h
    <3>1. h \in 1..n - 1 /\ h + 1 = i
      BY <2>3 DEF h
    <3>2. G(b[h])
      BY <3>1, <2>1, <1>1
    <3>3. ASSUME NEW j \in 1..n - 1, j > h PROVE ~R(b[j])
      <4>1. j + 1 \in 1..n /\ j + 1 > i /\ b[j] = s[j + 1]
        BY <3>1, <3>3, <1>1, <1>2
      <4>. QED BY <4>1, <2>1
    <3>. QED BY <3>1, <3>2, <3>3
  <2>. QED BY <2>2, <2>3, <1>2
<1>7. ASSUME \E i \in 1..n - 1 : G(b[i]) /\ \A j \in 1..n - 1 : j > i => ~R(b[j])
      PROVE  \E i \in 1..n : G(s[i]) /\ \A j \in 1..n : j > i => ~R(s[j])
  <2>1. PICK i \in 1..n - 1 : G(b[i]) /\ \A j \in 1..n - 1 : j > i => ~R(b[j])
    BY <1>7
  <2>. DEFINE h == i + 1
  <2>. HIDE DEF h
  <2>2. h \in 1..n /\ h > 1 /\ h = i + 1 /\ i \in Int
    BY <1>1, <1>2 DEF h
  <2>3. G(s[h])
    BY <2>1, <2>2, <1>1
  <2>4. ASSUME NEW j \in 1..n, j > h PROVE ~R(s[j])
    <3>1. j - 1 \in 1..n - 1 /\ (j - 1) + 1 = j /\ j - 1 > i
      BY <2>2, <2>4, <1>1, <1>2
    <3>2. b[j - 1] = s[j]
      BY <3>1, <1>1
    <3>. QED BY <3>1, <3>2, <2>1
  <2>. QED BY <2>2, <2>3, <2>4
<1>8. ASSUME G(e), \A i \in 1..n - 1 : ~R(b[i])
      PROVE  \E i \in 1..n : G(s[i]) /\ \A j \in 1..n : j > i => ~R(s[j])
  <2>1. \A j \in 1..n : j > 1 => ~R(s[j])
    <3>. SUFFICES ASSUME NEW j \in 1..n, j > 1 PROVE ~R(s[j])
      OBVIOUS
    <3>1. j - 1 \in 1..n - 1 /\ (j - 1) + 1 = j
      BY <1>1, <1>2
    <3>2. b[j - 1] = s[j]
      BY <3>1, <1>1
    <3>. QED BY <3>1, <3>2, <1>8
  <2>2. G(s[1])
    BY <1>8, <1>1
  <2>. QED BY <2>1, <2>2, <1>2
<1>. QED BY <1>3, <1>4, <1>5, <1>6, <1>7, <1>8
-----------------------------------------------------------------------------
(* What the tuples T become once the message j in hand, those of Redis and   *)
(* those the watcher has still to see are processed.                         *)
Outcome(relation, o, s, j, T) ==
  AppliedAll(relation, o, AppliedAll(relation, s, Applied(relation, j, T)))

(* The watcher hands its next change on, the writer reads the next message,  *)
(* and processes it: none of this changes the outcome.                       *)
LEMMA OutcomeCommits ==
  ASSUME NEW relation, NEW o \in Seq(Messages), NEW s, NEW j, NEW T, NEW e \in Messages
  PROVE  Outcome(relation, Append(o, e), s, j, T)
           = Applied(relation, e, Outcome(relation, o, s, j, T))
<1>. DEFINE S == AppliedAll(relation, s, Applied(relation, j, T))
<1>1. S \in SUBSET Pairs
  BY AppliedTypes
<1>2. /\ Outcome(relation, Append(o, e), s, j, T) = AppliedAll(relation, Append(o, e), S)
      /\ Outcome(relation, o, s, j, T) = AppliedAll(relation, o, S)
  BY DEF Outcome
<1>. HIDE DEF S
<1>. QED BY <1>1, <1>2, AppliedLast

(* The watcher hands its next change on to Redis.                            *)
LEMMA OutcomeWatched ==
  ASSUME NEW relation, NEW o \in Seq(Messages), o # <<>>, NEW s \in Seq(Messages), NEW j, NEW T
  PROVE  Outcome(relation, Tail(o), Append(s, Head(o)), j, T) = Outcome(relation, o, s, j, T)
<1>. DEFINE J == Applied(relation, j, T)
            S == AppliedAll(relation, s, J)
<1>0. Head(o) \in Messages
  OBVIOUS
<1>1. J \in SUBSET Pairs /\ S \in SUBSET Pairs
  BY AppliedTypes
<1>2. Outcome(relation, o, s, j, T) = AppliedAll(relation, o, S)
      /\ Outcome(relation, Tail(o), Append(s, Head(o)), j, T)
           = AppliedAll(relation, Tail(o), AppliedAll(relation, Append(s, Head(o)), J))
  BY DEF Outcome
<1>3. S = AppliedAll(relation, s, J)
  OBVIOUS
<1>. HIDE DEF S, J
<1>4. AppliedAll(relation, Append(s, Head(o)), J) = Applied(relation, Head(o), S)
  BY <1>0, <1>1, <1>3, AppliedLast
<1>5. AppliedAll(relation, o, S) = AppliedAll(relation, Tail(o), Applied(relation, Head(o), S))
  BY <1>1, AppliedFirst
<1>. QED BY <1>2, <1>4, <1>5

(* The writer takes the first message of Redis in hand.                      *)
LEMMA OutcomeRead ==
  ASSUME NEW relation, NEW o, NEW s \in Seq(Messages), s # <<>>, NEW T \in SUBSET Pairs
  PROVE  Outcome(relation, o, Tail(s), Head(s), T) = Outcome(relation, o, s, NoJob, T)
<1>1. AppliedAll(relation, s, T) = AppliedAll(relation, Tail(s), Applied(relation, Head(s), T))
  BY AppliedFirst
<1>. QED BY <1>1, NothingApplied DEF Outcome

(* The writer processes the job it has in hand.                              *)
LEMMA OutcomeProcessed ==
  ASSUME NEW relation, NEW o, NEW s, NEW j, NEW T
  PROVE  Outcome(relation, o, s, NoJob, Applied(relation, j, T)) = Outcome(relation, o, s, j, T)
<1>1. Applied(relation, j, T) \in SUBSET Pairs
  BY AppliedTypes
<1>. QED BY <1>1, NothingApplied DEF Outcome

(* When nothing waits, the outcome is what Keto has.                         *)
LEMMA EmptyPipeline ==
  ASSUME NEW relation, NEW T \in SUBSET Pairs
  PROVE  Outcome(relation, <<>>, <<>>, NoJob, T) = T
  BY NothingApplied DEF Outcome

(* A message that is lost concerns only the documents it is about.           *)
LEMMA LostConcernsItsOwn ==
  ASSUME NEW relation, NEW t \in Pairs
  PROVE  /\ \A e \in Messages : t[1] \notin About(e) =>
              ~Grants(relation, e, t) /\ ~Revokes(relation, e, t)
         /\ \A e \in Messages, T \in SUBSET Pairs : t[1] \notin About(e) =>
              (t \in Applied(relation, e, T) <=> t \in T)
         /\ \A s \in Seq(Messages), T \in SUBSET Pairs :
              (\A i \in DOMAIN s : t[1] \notin About(s[i])) =>
                (t \in AppliedAll(relation, s, T) <=> t \in T)
<1>0. t[1] \in Docs /\ NoDoc \notin Docs
  BY AccessPipelineAssumption DEF Pairs
<1>1. ASSUME NEW e \in Messages, t[1] \notin About(e)
      PROVE  ~Grants(relation, e, t) /\ ~Revokes(relation, e, t)
  <2>1. t[1] # e.doc /\ e.doc # NoDoc
    BY <1>0, <1>1 DEF About
  <2>2. e.op # "user"
    BY <2>1 DEF Messages
  <2>. QED BY <2>1, <2>2 DEF Grants, Revokes
<1>2. ASSUME NEW e \in Messages, NEW T \in SUBSET Pairs, t[1] \notin About(e)
      PROVE  t \in Applied(relation, e, T) <=> t \in T
  BY <1>1, <1>2 DEF Applied
<1>3. ASSUME NEW s \in Seq(Messages), NEW T \in SUBSET Pairs,
             \A i \in DOMAIN s : t[1] \notin About(s[i])
      PROVE  t \in AppliedAll(relation, s, T) <=> t \in T
  <2>1. \A i \in DOMAIN s : s[i] \in Messages
    OBVIOUS
  <2>2. \A i \in DOMAIN s : ~Grants(relation, s[i], t) /\ ~Revokes(relation, s[i], t)
    BY <1>1, <1>3, <2>1
  <2>. QED BY <2>2 DEF AppliedAll
<1>. QED BY <1>1, <1>2, <1>3

(* What becomes of a tuple depends on no other tuple.                        *)
LEMMA AppliedPointwise ==
  ASSUME NEW relation, NEW t \in Pairs, NEW s, NEW T, NEW U, t \in T <=> t \in U
  PROVE  t \in AppliedAll(relation, s, T) <=> t \in AppliedAll(relation, s, U)
  BY DEF AppliedAll

(* A message lost in one of the three places changes no tuple of a document  *)
(* that it is not about.                                                     *)
LEMMA OutcomeDrops ==
  ASSUME NEW relation, NEW o \in Seq(Messages), NEW s \in Seq(Messages), NEW j \in Messages,
         NEW T \in SUBSET Pairs, NEW t \in Pairs
  PROVE  /\ o # <<>> /\ t[1] \notin About(Head(o)) =>
              (t \in Outcome(relation, Tail(o), s, j, T) <=> t \in Outcome(relation, o, s, j, T))
         /\ (\A i \in DOMAIN o : t[1] \notin About(o[i])) =>
              (t \in Outcome(relation, <<>>, s, j, T) <=> t \in Outcome(relation, o, s, j, T))
         /\ t[1] \notin About(j) =>
              (t \in Outcome(relation, o, s, NoJob, T) <=> t \in Outcome(relation, o, s, j, T))
<1>. DEFINE J == Applied(relation, j, T)
            S == AppliedAll(relation, s, J)
<1>1. J \in SUBSET Pairs /\ S \in SUBSET Pairs
  BY AppliedTypes
<1>2. Outcome(relation, o, s, j, T) = AppliedAll(relation, o, S)
      /\ Outcome(relation, Tail(o), s, j, T) = AppliedAll(relation, Tail(o), S)
      /\ Outcome(relation, <<>>, s, j, T) = AppliedAll(relation, <<>>, S)
  BY DEF Outcome
<1>3. ASSUME o # <<>>, t[1] \notin About(Head(o))
      PROVE  t \in Outcome(relation, Tail(o), s, j, T) <=> t \in Outcome(relation, o, s, j, T)
  <2>. HIDE DEF S, J
  <2>0. Head(o) \in Messages
    BY <1>3
  <2>1. AppliedAll(relation, o, S)
          = AppliedAll(relation, Tail(o), Applied(relation, Head(o), S))
    BY <1>1, <1>3, AppliedFirst
  <2>2. t \in Applied(relation, Head(o), S) <=> t \in S
    BY <1>1, <1>3, <2>0, LostConcernsItsOwn
  <2>. QED BY <1>2, <2>1, <2>2, AppliedPointwise
<1>4. ASSUME \A i \in DOMAIN o : t[1] \notin About(o[i])
      PROVE  t \in Outcome(relation, <<>>, s, j, T) <=> t \in Outcome(relation, o, s, j, T)
  <2>. HIDE DEF S, J
  <2>1. AppliedAll(relation, <<>>, S) = S
    BY <1>1, NothingApplied
  <2>2. t \in AppliedAll(relation, o, S) <=> t \in S
    <3>1. S \in SUBSET Pairs
      BY <1>1
    <3>. QED BY <3>1, <1>4, LostConcernsItsOwn
  <2>. QED BY <1>2, <2>1, <2>2
<1>5. ASSUME t[1] \notin About(j)
      PROVE  t \in Outcome(relation, o, s, NoJob, T) <=> t \in Outcome(relation, o, s, j, T)
  <2>1. Applied(relation, NoJob, T) = T
    BY NothingApplied
  <2>2. t \in J <=> t \in T
    BY <1>5, LostConcernsItsOwn
  <2>. HIDE DEF J, S
  <2>3. t \in AppliedAll(relation, s, J) <=> t \in AppliedAll(relation, s, T)
    BY <2>2, AppliedPointwise
  <2>. QED BY <1>2, <2>1, <2>3, AppliedPointwise DEF Outcome, S, J
<1>. QED BY <1>3, <1>4, <1>5

-----------------------------------------------------------------------------
ViewersFollow ==
  \A d \in Docs, x \in People : d \notin missed =>
    (<<d, x>> \in Outcome("viewers", oplog, stream, job, tuples) <=> Granted(d, x))

ParentsFollow ==
  \A l \in parents : l[1] \notin missed =>
    l \in Outcome("parents", oplog, stream, job, parentTuples)

PipelineTypes ==
  /\ AccessPipelineTypeOK
  /\ oplog \in Seq(Messages) /\ stream \in Seq(Messages) /\ job \in Messages

KetoInv == PipelineTypes /\ ViewersFollow /\ ParentsFollow

(* The writer does to Keto what its message says. *)
LEMMA WriterApplies ==
  ASSUME PipelineTypes
  PROVE  /\ TuplesAfter(job) = Applied("viewers", job, tuples)
         /\ ParentTuplesAfter(job) = Applied("parents", job, parentTuples)
         /\ TuplesAfter(job) \subseteq Docs \X People
         /\ ParentTuplesAfter(job) \subseteq Docs \X Docs
         /\ tuples \in SUBSET Pairs /\ parentTuples \in SUBSET Pairs
<1>1. /\ tuples \subseteq Docs \X People /\ parentTuples \subseteq Docs \X Docs
      /\ job \in Messages
  BY DEF PipelineTypes, AccessPipelineTypeOK
<1>2. TuplesAfter(job) = Applied("viewers", job, tuples)
  BY <1>1 DEF TuplesAfter, Applied, Grants, Revokes, Messages, Pairs, Of
<1>3. ParentTuplesAfter(job) = Applied("parents", job, parentTuples)
  BY <1>1 DEF ParentTuplesAfter, Applied, Grants, Revokes, Messages, Pairs, Of
<1>4. TuplesAfter(job) \subseteq Docs \X People /\ ParentTuplesAfter(job) \subseteq Docs \X Docs
  BY <1>1, AccessPipelineAssumption DEF TuplesAfter, ParentTuplesAfter, Messages, Of
<1>5. tuples \in SUBSET Pairs /\ parentTuples \in SUBSET Pairs
  BY <1>1 DEF Pairs
<1>. QED BY <1>2, <1>3, <1>4, <1>5

(* A step of the pipeline changes no document; it may lose what is missed.   *)
LEMMA PipelineKeeps ==
  ASSUME KetoInv, PipelineTypes', UNCHANGED mongo, missed \subseteq missed',
         \A t \in Pairs : t[1] \notin missed' =>
           /\ t \in Outcome("viewers", oplog, stream, job, tuples)
                <=> t \in Outcome("viewers", oplog', stream', job', tuples')
           /\ t \in Outcome("parents", oplog, stream, job, parentTuples)
                <=> t \in Outcome("parents", oplog', stream', job', parentTuples')
  PROVE  KetoInv'
<1>0. UNCHANGED <<viewers, parents, gone, sharedLate>>
  BY DEF mongo
<1>1. ViewersFollow'
  <2>. SUFFICES ASSUME NEW d \in Docs, NEW x \in People, d \notin missed'
                PROVE  <<d, x>> \in Outcome("viewers", oplog', stream', job', tuples')
                         <=> Granted(d, x)'
    BY DEF ViewersFollow
  <2>1. Granted(d, x)' <=> Granted(d, x)
    BY <1>0 DEF Granted
  <2>2. <<d, x>> \in Pairs
    BY DEF Pairs
  <2>3. <<d, x>> \in Outcome("viewers", oplog, stream, job, tuples) <=> Granted(d, x)
    BY DEF KetoInv, ViewersFollow
  <2>. QED BY <2>1, <2>2, <2>3
<1>2. ParentsFollow'
  <2>. SUFFICES ASSUME NEW l \in parents, l[1] \notin missed'
                PROVE  l \in Outcome("parents", oplog', stream', job', parentTuples')
    BY <1>0 DEF ParentsFollow
  <2>1. l \in Pairs
    BY DEF KetoInv, PipelineTypes, AccessPipelineTypeOK, Pairs
  <2>. QED BY <2>1 DEF KetoInv, ParentsFollow
<1>. QED BY <1>1, <1>2 DEF KetoInv

(* A change that commits does to what the documents grant what its message   *)
(* does to the tuples.                                                       *)
LEMMA CommitKeeps ==
  ASSUME KetoInv, NEW e \in Messages, Committed(e),
         viewers' \in [Docs -> SUBSET People], parents' \subseteq Docs \X Docs,
         gone' \subseteq Docs \cup People,
         sharedLate' \subseteq Docs \X (People \cap gone'),
         \A d \in Docs, x \in People :
           Granted(d, x)' <=> \/ Grants("viewers", e, <<d, x>>)
                              \/ Granted(d, x) /\ ~Revokes("viewers", e, <<d, x>>),
         \A l \in parents' : Grants("parents", e, l) \/ (l \in parents /\ ~Revokes("parents", e, l))
  PROVE  KetoInv'
<1>0. /\ UNCHANGED <<watching, stream, job, tuples, parentTuples>>
      /\ IF watching THEN oplog' = Append(oplog, e) /\ UNCHANGED missed
                     ELSE missed' = missed \cup About(e) /\ UNCHANGED oplog
  BY DEF Committed, keto
<1>1. /\ About(e) \subseteq Docs
      /\ oplog \in Seq(Messages) /\ stream \in Seq(Messages) /\ job \in Messages
      /\ tuples \in SUBSET Pairs /\ parentTuples \in SUBSET Pairs
  BY WriterApplies DEF About, Messages, KetoInv, PipelineTypes
<1>2. PipelineTypes'
  <2>1. oplog' \in Seq(Messages)
    BY <1>0, <1>1
  <2>2. missed' \subseteq Docs
    BY <1>0, <1>1 DEF KetoInv, PipelineTypes, AccessPipelineTypeOK
  <2>3. AccessPipelineTypeOK'
    BY <1>0, <2>2 DEF KetoInv, PipelineTypes, AccessPipelineTypeOK
  <2>. QED BY <1>0, <1>1, <2>1, <2>3 DEF PipelineTypes
<1>3. ASSUME NEW d \in Docs, NEW x \in People PROVE <<d, x>> \in Pairs
  BY DEF Pairs
<1>4. \A l \in parents' : l \in Pairs
  BY DEF Pairs
<1>5. CASE watching
  <2>1. /\ Outcome("viewers", oplog', stream', job', tuples')
             = Applied("viewers", e, Outcome("viewers", oplog, stream, job, tuples))
        /\ Outcome("parents", oplog', stream', job', parentTuples')
             = Applied("parents", e, Outcome("parents", oplog, stream, job, parentTuples))
    <3>1. oplog' = Append(oplog, e)
      BY <1>0, <1>5
    <3>. QED BY <1>0, <1>1, <3>1, OutcomeCommits
  <2>2. ViewersFollow'
    <3>. SUFFICES ASSUME NEW d \in Docs, NEW x \in People, d \notin missed'
                  PROVE  <<d, x>> \in Outcome("viewers", oplog', stream', job', tuples')
                           <=> Granted(d, x)'
      BY DEF ViewersFollow
    <3>1. <<d, x>> \in Outcome("viewers", oplog, stream, job, tuples) <=> Granted(d, x)
      BY <1>0, <1>5 DEF KetoInv, ViewersFollow
    <3>. DEFINE t == <<d, x>>
                o == Outcome("viewers", oplog, stream, job, tuples)
                grants == Grants("viewers", e, t)
                revokes == Revokes("viewers", e, t)
    <3>2. t \in Applied("viewers", e, o)
            <=> grants \/ (t \in o /\ ~revokes)
      BY <1>3 DEF Applied
    <3>3. Granted(d, x)' <=> grants \/ (Granted(d, x) /\ ~revokes)
      OBVIOUS
    <3>. HIDE DEF grants, revokes
    <3>4. t \in Applied("viewers", e, o) <=> Granted(d, x)'
      BY <3>1, <3>2, <3>3
    <3>. QED BY <2>1, <3>4
  <2>3. ParentsFollow'
    <3>. SUFFICES ASSUME NEW l \in parents', l[1] \notin missed'
                  PROVE  l \in Outcome("parents", oplog', stream', job', parentTuples')
      BY DEF ParentsFollow
    <3>1. l \in parents => l \in Outcome("parents", oplog, stream, job, parentTuples)
      BY <1>0, <1>5 DEF KetoInv, ParentsFollow
    <3>. QED BY <1>4, <2>1, <3>1 DEF Applied
  <2>. QED BY <1>2, <2>2, <2>3 DEF KetoInv
<1>6. CASE ~watching
  <2>0. missed' = missed \cup About(e) /\ UNCHANGED oplog
    BY <1>0, <1>6
  <2>2. ViewersFollow'
    <3>. SUFFICES ASSUME NEW d \in Docs, NEW x \in People, d \notin missed'
                  PROVE  <<d, x>> \in Outcome("viewers", oplog, stream, job, tuples)
                           <=> Granted(d, x)'
      BY <1>0, <2>0 DEF ViewersFollow
    <3>. DEFINE t == <<d, x>>
    <3>1. t \in Pairs /\ t[1] \notin About(e)
      BY <1>3, <2>0
    <3>2. ~Grants("viewers", e, t) /\ ~Revokes("viewers", e, t)
      BY <3>1, LostConcernsItsOwn
    <3>3. Granted(d, x)' <=> Granted(d, x)
      BY <3>2
    <3>. QED BY <2>0, <3>3 DEF KetoInv, ViewersFollow
  <2>3. ParentsFollow'
    <3>. SUFFICES ASSUME NEW l \in parents', l[1] \notin missed'
                  PROVE  l \in Outcome("parents", oplog, stream, job, parentTuples)
      BY <1>0, <2>0 DEF ParentsFollow
    <3>1. ~Grants("parents", e, l)
      BY <1>4, <2>0, LostConcernsItsOwn
    <3>2. l \in parents /\ l[1] \notin missed
      BY <3>1, <2>0
    <3>. QED BY <3>2 DEF KetoInv, ParentsFollow
  <2>. QED BY <1>2, <2>2, <2>3 DEF KetoInv
<1>. QED BY <1>5, <1>6

(* Every request that changes documents or users preserves the invariant.    *)
LEMMA ChangesKeep ==
  ASSUME KetoInv,
         \/ \E d \in Docs, add, remove \in SUBSET People : Patch(d, add, remove)
         \/ \E d, p \in Docs : Link(d, p) \/ Unlink(d, p)
         \/ \E d \in Docs : DeleteDoc(d)
         \/ \E x \in People : DeletePerson(x)
  PROVE  KetoInv'
<1>0. /\ viewers \in [Docs -> SUBSET People] /\ parents \subseteq Docs \X Docs
      /\ gone \subseteq Docs \cup People /\ sharedLate \subseteq Docs \X (People \cap gone)
  BY DEF KetoInv, PipelineTypes, AccessPipelineTypeOK
<1>1. ASSUME NEW c \in Docs, NEW add \in SUBSET People, NEW remove \in SUBSET People,
             Patch(c, add, remove)
      PROVE  KetoInv'
  <2>. DEFINE e == Event("patch", c, add, remove)
  <2>1. e \in Messages /\ Committed(e)
    BY <1>1, AccessPipelineAssumption DEF Patch, Event, Messages
  <2>2. /\ viewers' \in [Docs -> SUBSET People] /\ UNCHANGED <<parents, gone>>
        /\ viewers' = [viewers EXCEPT ![c] = (@ \cup add) \ remove]
        /\ sharedLate' = sharedLate \cup {<<c, x>> : x \in add \cap gone}
        /\ c \notin gone /\ add \cap remove = {} /\ remove \subseteq viewers[c]
        /\ add \cap viewers[c] = {}
    BY <1>0, <1>1 DEF Patch, Of
  <2>3. ASSUME NEW d \in Docs, NEW x \in People
        PROVE  Granted(d, x)' <=> \/ Grants("viewers", e, <<d, x>>)
                                  \/ Granted(d, x) /\ ~Revokes("viewers", e, <<d, x>>)
    BY <1>0, <2>2, AccessPipelineAssumption DEF Granted, Grants, Revokes, Event
  <2>4. \A l \in parents' : l \in parents /\ ~Revokes("parents", e, l)
    BY <2>2 DEF Revokes, Event
  <2>5. sharedLate' \subseteq Docs \X (People \cap gone')
    BY <1>0, <2>2
  <2>. QED BY ONLY KetoInv, <1>0, <2>1, <2>2, <2>3, <2>4, <2>5, CommitKeeps
<1>2. ASSUME NEW c \in Docs, NEW p \in Docs, Link(c, p) PROVE KetoInv'
  <2>. DEFINE e == Event("link", c, {p}, {})
  <2>1. e \in Messages /\ Committed(e)
    BY <1>2, AccessPipelineAssumption DEF Link, Event, Messages
  <2>2. UNCHANGED <<viewers, gone, sharedLate>> /\ parents' = parents \cup {<<c, p>>}
    BY <1>2 DEF Link
  <2>3. ASSUME NEW d \in Docs, NEW x \in People
        PROVE  Granted(d, x)' <=> \/ Grants("viewers", e, <<d, x>>)
                                  \/ Granted(d, x) /\ ~Revokes("viewers", e, <<d, x>>)
    BY <2>2 DEF Granted, Grants, Revokes, Event
  <2>4. \A l \in parents' : Grants("parents", e, l) \/ (l \in parents /\ ~Revokes("parents", e, l))
    BY <2>2 DEF Grants, Revokes, Event
  <2>5. parents' \subseteq Docs \X Docs
    BY <1>0, <2>2
  <2>. QED BY ONLY KetoInv, <1>0, <2>1, <2>2, <2>3, <2>4, <2>5, CommitKeeps
<1>3. ASSUME NEW c \in Docs, NEW p \in Docs, Unlink(c, p) PROVE KetoInv'
  <2>. DEFINE e == Event("unlink", c, {p}, {})
  <2>1. e \in Messages /\ Committed(e)
    BY <1>3, AccessPipelineAssumption DEF Unlink, Event, Messages
  <2>2. UNCHANGED <<viewers, gone, sharedLate>> /\ parents' = parents \ {<<c, p>>}
    BY <1>3 DEF Unlink
  <2>3. ASSUME NEW d \in Docs, NEW x \in People
        PROVE  Granted(d, x)' <=> \/ Grants("viewers", e, <<d, x>>)
                                  \/ Granted(d, x) /\ ~Revokes("viewers", e, <<d, x>>)
    BY <2>2 DEF Granted, Grants, Revokes, Event
  <2>4. \A l \in parents' : l \in parents /\ ~Revokes("parents", e, l)
    BY <2>2 DEF Revokes, Event
  <2>5. parents' \subseteq Docs \X Docs
    BY <1>0, <2>2
  <2>. QED BY ONLY KetoInv, <1>0, <2>1, <2>2, <2>3, <2>4, <2>5, CommitKeeps
<1>4. ASSUME NEW c \in Docs, DeleteDoc(c) PROVE KetoInv'
  <2>. DEFINE e == Event("delete", c, {}, {})
  <2>1. e \in Messages /\ Committed(e)
    BY <1>4, AccessPipelineAssumption DEF DeleteDoc, Event, Messages
  <2>2. /\ gone' = gone \cup {c} /\ viewers' = [viewers EXCEPT ![c] = {}] /\ UNCHANGED <<parents, sharedLate>>
        /\ \A l \in parents : c \notin {l[1], l[2]}
    BY <1>4 DEF DeleteDoc
  <2>3. ASSUME NEW d \in Docs, NEW x \in People
        PROVE  Granted(d, x)' <=> \/ Grants("viewers", e, <<d, x>>)
                                  \/ Granted(d, x) /\ ~Revokes("viewers", e, <<d, x>>)
    <3>1. x # c
      BY AccessPipelineAssumption
    <3>. QED BY <1>0, <2>2, <3>1 DEF Granted, Grants, Revokes, Event
  <2>4. \A l \in parents' : l \in parents /\ ~Revokes("parents", e, l)
    BY <2>2 DEF Revokes, Event
  <2>5. /\ viewers' \in [Docs -> SUBSET People] /\ gone' \subseteq Docs \cup People
        /\ parents' \subseteq Docs \X Docs /\ sharedLate' \subseteq Docs \X (People \cap gone')
    BY <1>0, <2>2
  <2>. QED BY ONLY KetoInv, <2>1, <2>3, <2>4, <2>5, CommitKeeps
<1>5. ASSUME NEW y \in People, DeletePerson(y) PROVE KetoInv'
  <2>. DEFINE e == Event("user", NoDoc, {}, {y})
  <2>1. e \in Messages /\ Committed(e)
    BY <1>5 DEF DeletePerson, Event, Messages
  <2>2. y \notin gone /\ gone' = gone \cup {y} /\ UNCHANGED <<viewers, parents, sharedLate>>
    BY <1>5 DEF DeletePerson
  <2>3. ASSUME NEW d \in Docs, NEW x \in People
        PROVE  Granted(d, x)' <=> \/ Grants("viewers", e, <<d, x>>)
                                  \/ Granted(d, x) /\ ~Revokes("viewers", e, <<d, x>>)
    <3>1. d # y
      BY AccessPipelineAssumption
    <3>. QED BY <1>0, <2>2, <3>1 DEF Granted, Grants, Revokes, Event
  <2>4. \A l \in parents' : l \in parents /\ ~Revokes("parents", e, l)
    <3>1. \A l \in parents : l[1] # NoDoc
      BY <1>0, AccessPipelineAssumption
    <3>. QED BY <2>2, <3>1 DEF Revokes, Event
  <2>5. gone' \subseteq Docs \cup People /\ sharedLate' \subseteq Docs \X (People \cap gone')
    BY <1>0, <2>2
  <2>. QED BY ONLY KetoInv, <1>0, <2>1, <2>2, <2>3, <2>4, <2>5, CommitKeeps
<1>. QED BY <1>1, <1>2, <1>3, <1>4, <1>5

(* Every step of the watcher and of the writer, and a loss, preserves it.    *)
LEMMA PipelineStepKeeps ==
  ASSUME KetoInv,
         Watch \/ WatcherStarts \/ RedisRefuses \/ WatcherStops \/ Read \/ Process \/ MessageIsLost
  PROVE  KetoInv'
<1>0. /\ AccessPipelineTypeOK
      /\ oplog \in Seq(Messages) /\ stream \in Seq(Messages) /\ job \in Messages
      /\ tuples \in SUBSET Pairs /\ parentTuples \in SUBSET Pairs /\ NoJob \in Messages
  BY WriterApplies DEF KetoInv, PipelineTypes, NoJob, Event, Messages
<1>1. CASE Watch
  <2>1. /\ oplog # <<>> /\ oplog' = Tail(oplog) /\ stream' = Append(stream, Head(oplog))
        /\ UNCHANGED <<mongo, watching, job, tuples, parentTuples, missed>>
    BY <1>1 DEF Watch, keto
  <2>2. PipelineTypes'
    BY <1>0, <2>1 DEF PipelineTypes, AccessPipelineTypeOK, mongo
  <2>3. ASSUME NEW relation, NEW T \in SUBSET Pairs
        PROVE  Outcome(relation, oplog, stream, job, T)
                 = Outcome(relation, oplog', stream', job', T)
    BY <1>0, <2>1, OutcomeWatched
  <2>. QED BY <1>0, <2>1, <2>2, <2>3, PipelineKeeps
<1>2. CASE WatcherStarts
  <2>1. /\ watching' = TRUE
        /\ UNCHANGED <<mongo, oplog, stream, job, tuples, parentTuples, missed>>
    BY <1>2 DEF WatcherStarts, keto
  <2>2. PipelineTypes'
    BY <1>0, <2>1 DEF PipelineTypes, AccessPipelineTypeOK, mongo
  <2>. QED BY <2>1, <2>2, PipelineKeeps
<1>3. CASE RedisRefuses
  <2>1. /\ oplog # <<>> /\ oplog' = Tail(oplog) /\ missed' = missed \cup About(Head(oplog))
        /\ UNCHANGED <<mongo, watching, stream, job, tuples, parentTuples>>
    BY <1>3 DEF RedisRefuses, keto
  <2>2. PipelineTypes'
    <3>1. Head(oplog) \in Messages
      BY <1>0, <2>1
    <3>2. About(Head(oplog)) \subseteq Docs
      BY <3>1 DEF About, Messages
    <3>. QED BY <1>0, <2>1, <3>2 DEF PipelineTypes, AccessPipelineTypeOK, mongo
  <2>3. ASSUME NEW t \in Pairs, t[1] \notin missed'
        PROVE  /\ t \in Outcome("viewers", oplog, stream, job, tuples)
                    <=> t \in Outcome("viewers", oplog', stream', job', tuples')
               /\ t \in Outcome("parents", oplog, stream, job, parentTuples)
                    <=> t \in Outcome("parents", oplog', stream', job', parentTuples')
    <3>1. t[1] \notin About(Head(oplog))
      BY <2>1, <2>3
    <3>. QED BY <1>0, <2>1, <3>1, OutcomeDrops
  <2>. QED BY <2>1, <2>2, <2>3, PipelineKeeps
<1>4. CASE WatcherStops
  <2>1. /\ watching' = FALSE /\ oplog' = <<>>
        /\ missed' = missed \cup UNION {About(oplog[i]) : i \in DOMAIN oplog}
        /\ UNCHANGED <<mongo, stream, job, tuples, parentTuples>>
    BY <1>4 DEF WatcherStops, keto
  <2>2. PipelineTypes'
    <3>1. \A i \in DOMAIN oplog : About(oplog[i]) \subseteq Docs
      <4>1. \A i \in DOMAIN oplog : oplog[i] \in Messages
        BY <1>0
      <4>. QED BY <4>1 DEF About, Messages
    <3>2. missed' \subseteq Docs
      BY <1>0, <2>1, <3>1 DEF AccessPipelineTypeOK
    <3>3. oplog' \in Seq(Messages)
      BY <2>1
    <3>. QED BY <1>0, <2>1, <3>2, <3>3 DEF PipelineTypes, AccessPipelineTypeOK, mongo
  <2>3. ASSUME NEW t \in Pairs, t[1] \notin missed'
        PROVE  /\ t \in Outcome("viewers", oplog, stream, job, tuples)
                    <=> t \in Outcome("viewers", oplog', stream', job', tuples')
               /\ t \in Outcome("parents", oplog, stream, job, parentTuples)
                    <=> t \in Outcome("parents", oplog', stream', job', parentTuples')
    <3>1. \A i \in DOMAIN oplog : t[1] \notin About(oplog[i])
      BY <2>1, <2>3
    <3>. QED BY <1>0, <2>1, <3>1, OutcomeDrops
  <2>. QED BY <2>1, <2>2, <2>3, PipelineKeeps
<1>5. CASE Read
  <2>1. /\ job = NoJob /\ stream # <<>> /\ job' = Head(stream) /\ stream' = Tail(stream)
        /\ UNCHANGED <<mongo, oplog, watching, tuples, parentTuples, missed>>
    BY <1>5 DEF Read, keto
  <2>2. PipelineTypes'
    BY <1>0, <2>1 DEF PipelineTypes, AccessPipelineTypeOK, mongo
  <2>3. ASSUME NEW relation, NEW T \in SUBSET Pairs
        PROVE  Outcome(relation, oplog, stream, job, T)
                 = Outcome(relation, oplog', stream', job', T)
    BY <1>0, <2>1, OutcomeRead
  <2>. QED BY <1>0, <2>1, <2>2, <2>3, PipelineKeeps
<1>6. ASSUME job' = NoJob, tuples' = TuplesAfter(job), parentTuples' = ParentTuplesAfter(job),
             UNCHANGED <<mongo, oplog, watching, stream>>, missed \subseteq missed',
             missed' \subseteq Docs
      PROVE  KetoInv'
  <2>1. /\ tuples' = Applied("viewers", job, tuples)
        /\ parentTuples' = Applied("parents", job, parentTuples)
        /\ tuples' \subseteq Docs \X People /\ parentTuples' \subseteq Docs \X Docs
    BY <1>6, WriterApplies DEF KetoInv
  <2>2. PipelineTypes'
    BY <1>0, <1>6, <2>1 DEF PipelineTypes, AccessPipelineTypeOK, mongo
  <2>3. ASSUME NEW relation, NEW T \in SUBSET Pairs
        PROVE  Outcome(relation, oplog, stream, job, T)
                 = Outcome(relation, oplog, stream, NoJob, Applied(relation, job, T))
    BY OutcomeProcessed
  <2>. QED BY <1>0, <1>6, <2>1, <2>2, <2>3, PipelineKeeps
<1>7. CASE Process
  BY <1>0, <1>6, <1>7 DEF Process, AccessPipelineTypeOK
<1>8. CASE MessageIsLost
  <2>1. /\ job' = NoJob /\ missed' = missed \cup About(job)
        /\ UNCHANGED <<mongo, oplog, watching, stream>>
        /\ \/ UNCHANGED <<tuples, parentTuples>>
           \/ tuples' = TuplesAfter(job) /\ parentTuples' = ParentTuplesAfter(job)
    BY <1>8 DEF MessageIsLost, keto
  <2>2. missed' \subseteq Docs
    BY <1>0, <2>1 DEF About, Messages, AccessPipelineTypeOK
  <2>3. CASE UNCHANGED <<tuples, parentTuples>>
    <3>1. PipelineTypes'
      BY <1>0, <2>1, <2>2, <2>3 DEF PipelineTypes, AccessPipelineTypeOK, mongo
    <3>2. ASSUME NEW t \in Pairs, t[1] \notin missed'
          PROVE  /\ t \in Outcome("viewers", oplog, stream, job, tuples)
                      <=> t \in Outcome("viewers", oplog', stream', job', tuples')
                 /\ t \in Outcome("parents", oplog, stream, job, parentTuples)
                      <=> t \in Outcome("parents", oplog', stream', job', parentTuples')
      <4>1. t[1] \notin About(job)
        BY <2>1, <3>2
      <4>. QED BY <1>0, <2>1, <2>3, <4>1, OutcomeDrops
    <3>. QED BY <2>1, <3>1, <3>2, PipelineKeeps
  <2>4. CASE tuples' = TuplesAfter(job) /\ parentTuples' = ParentTuplesAfter(job)
    BY <1>6, <2>1, <2>2, <2>4
  <2>. QED BY <2>1, <2>3, <2>4
<1>. QED BY <1>1, <1>2, <1>3, <1>4, <1>5, <1>7, <1>8

(* When everything has been processed, Keto grants exactly what the          *)
(* documents grant and knows the parents of every document, whatever was     *)
(* lost of others: for any documents, people, changes and faults.            *)
THEOREM KetoAgreesAlways == AccessPipelineSpec => []KetoAgrees
<1>1. AccessPipelineInit => KetoInv
  <2>. SUFFICES ASSUME AccessPipelineInit PROVE KetoInv
    OBVIOUS
  <2>1. PipelineTypes
    BY DEF AccessPipelineInit, PipelineTypes, AccessPipelineTypeOK, NoJob, Event, Messages
  <2>2. Outcome("viewers", oplog, stream, job, tuples) = {}
    BY EmptyPipeline DEF AccessPipelineInit
  <2>. QED BY <2>1, <2>2 DEF AccessPipelineInit, KetoInv, ViewersFollow, ParentsFollow, Granted
<1>2. KetoInv /\ [AccessPipelineNext]_accessVars => KetoInv'
  <2>. SUFFICES ASSUME KetoInv, [AccessPipelineNext]_accessVars PROVE KetoInv'
    OBVIOUS
  <2>1. CASE UNCHANGED accessVars
    <3>1. /\ UNCHANGED <<mongo, oplog, watching, stream, job, tuples, parentTuples, missed>>
      BY <2>1 DEF accessVars, mongo
    <3>2. PipelineTypes'
      BY <3>1 DEF KetoInv, PipelineTypes, AccessPipelineTypeOK, mongo
    <3>. QED BY <3>1, <3>2, PipelineKeeps
  <2>. QED BY <2>1, ChangesKeep, PipelineStepKeeps DEF AccessPipelineNext, Watcher, Writer
<1>3. KetoInv => KetoAgrees
  <2>. SUFFICES ASSUME KetoInv PROVE KetoAgrees
    OBVIOUS
  <2>1. Drained => /\ Outcome("viewers", oplog, stream, job, tuples) = tuples
                   /\ Outcome("parents", oplog, stream, job, parentTuples) = parentTuples
    BY WriterApplies, EmptyPipeline DEF KetoInv, Drained
  <2>. QED BY <2>1 DEF KetoInv, PipelineTypes, ViewersFollow, ParentsFollow, Granted, KetoAgrees,
                       GrantsConverge, ParentsAreKnown
<1>. QED BY <1>1, <1>2, <1>3, PTL DEF AccessPipelineSpec
=============================================================================
