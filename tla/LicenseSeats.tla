---------------------------- MODULE LicenseSeats ----------------------------
(* Licence seats: a licence lists the users that hold a seat, a user names   *)
(* one licence, and the middleware lets a user in when both agree. Requests  *)
(* change the two in a transaction: what it reads is its snapshot, and its   *)
(* writes are refused when a document it writes has changed since.           *)
EXTENDS Naturals, FiniteSets

CONSTANTS
  Licenses, Users,
  NoLicense, NoUser,   \* license_laui None; no document
  Seats,               \* max_seats of each licence
  Lapsing,             \* licences whose token expires
  Admins,              \* requests under way at once
  MaxRequests          \* bound

ASSUME LicenseSeatsAssumption ==
  /\ Seats \in [Licenses -> Nat \ {0}]
  /\ NoLicense \notin Licenses /\ NoUser \notin Licenses /\ NoLicense # NoUser
  /\ Licenses \cap Users = {} /\ IsFiniteSet(Users)
  /\ Lapsing \subseteq Licenses /\ MaxRequests \in Nat

VARIABLES
  user_list, limit_exceeded,   \* of each licence
  license_laui,                \* of each user
  lapsed,                      \* licences whose token has expired
  version,                     \* writes of each document so far
  txn,                         \* the request of each administrator
  requests

seatVars == <<user_list, limit_exceeded, license_laui, lapsed, version, txn, requests>>

-----------------------------------------------------------------------------
NoTxn == [op |-> "none"]

(* What a transaction reads. *)
Snapshot == [lists |-> user_list, full |-> limit_exceeded, held |-> license_laui,
             versions |-> version]

LicenseSeatsInit ==
  /\ user_list = [l \in Licenses |-> {}]
  /\ limit_exceeded = [l \in Licenses |-> FALSE]
  /\ license_laui = [u \in Users |-> NoUser]
  /\ lapsed = {}
  /\ version = [d \in Licenses \cup Users |-> 0]
  /\ txn = [a \in Admins |-> NoTxn]
  /\ requests = 0

StartsTxn(a, request) ==
  /\ txn[a] = NoTxn /\ requests < MaxRequests
  /\ requests' = requests + 1
  /\ txn' = [txn EXCEPT ![a] = request]
  /\ UNCHANGED <<user_list, limit_exceeded, license_laui, lapsed, version>>

(* AdminService.create_user takes any licence whose flag says it has room.   *)
StartCreate(a, u, l) ==
  /\ version[u] = 0 /\ ~limit_exceeded[l]
  /\ StartsTxn(a, [op |-> "create", license |-> l, users |-> {u}, snap |-> Snapshot])

StartAdd(a, l, A) == StartsTxn(a, [op |-> "add", license |-> l, users |-> A, snap |-> Snapshot])
StartRemove(a, l, R) == StartsTxn(a, [op |-> "remove", license |-> l, users |-> R, snap |-> Snapshot])

StartDelete(a, u) ==
  /\ license_laui[u] # NoUser
  /\ StartsTxn(a, [op |-> "delete", license |-> license_laui[u], users |-> {u}, snap |-> Snapshot])

(* The transaction ends without effect: refused, or in conflict. *)
Aborts(a) ==
  /\ txn[a] # NoTxn /\ txn' = [txn EXCEPT ![a] = NoTxn]
  /\ UNCHANGED <<user_list, limit_exceeded, license_laui, lapsed, version, requests>>

-----------------------------------------------------------------------------
(* The commit: none of the documents written has changed since the snapshot. *)
Unchanged(t, docs) == \A d \in docs : version[d] = t.snap.versions[d]

Commits(a, docs) ==
  /\ Unchanged(txn[a], docs)
  /\ version' = [d \in DOMAIN version |-> IF d \in docs THEN version[d] + 1 ELSE version[d]]
  /\ txn' = [txn EXCEPT ![a] = NoTxn]
  /\ UNCHANGED <<lapsed, requests>>

(* update_license: the users to add that are not listed, and to remove that  *)
(* are. A lapsed token cannot be decoded.                                    *)
Known(t) == t.snap.lists[t.license]
EveryOther(t) == Users \ Known(t)
NewUsers(t) == t.users \ Known(t)
Leaving(t) == t.users \cap Known(t)
SeatsLeft(t) == Seats[t.license] - Cardinality(Known(t))

Lists(t, users, full) ==
  /\ user_list' = [user_list EXCEPT ![t.license] = users]
  /\ limit_exceeded' = [limit_exceeded EXCEPT ![t.license] = full]

(* The users among them that the transaction sees. *)
NoneSeen(t, users) == {}
Seen(t, users) == {u \in users : t.snap.held[u] # NoUser}

Hold(users, l) ==
  license_laui' = [u \in Users |-> IF u \in users THEN l ELSE license_laui[u]]

TakesSeats(t) ==
  /\ t.license \notin lapsed
  /\ Cardinality(NewUsers(t)) <= SeatsLeft(t)
  /\ Lists(t, user_list[t.license] \cup NewUsers(t),
           t.snap.full[t.license] \/ Cardinality(NewUsers(t)) = SeatsLeft(t))

Create(a) ==
  LET t == txn[a]
  IN /\ t.op = "create"
     /\ TakesSeats(t)
     /\ Hold(t.users, t.license)
     /\ Commits(a, {t.license} \cup t.users)

(* AdminService.update_license: the users follow when the list has changed.  *)
AddUsers(a) ==
  LET t == txn[a]
  IN /\ t.op = "add"
     /\ TakesSeats(t)
     /\ Hold(Seen(t, NewUsers(t)), t.license)
     /\ Commits(a, {t.license} \cup Seen(t, NewUsers(t)))

FreesUnflagged(t) == Lists(t, user_list[t.license] \ Leaving(t), t.snap.full[t.license])
FreesSeats(t) == Lists(t, user_list[t.license] \ Leaving(t), FALSE)

RemoveUsers(a) ==
  LET t == txn[a]
  IN /\ t.op = "remove" /\ t.license \notin lapsed
     /\ Leaving(t) # {}
     /\ FreesSeats(t)
     /\ Hold(Seen(t, Leaving(t)), NoLicense)
     /\ Commits(a, {t.license} \cup Seen(t, Leaving(t)))

(* delete_user: an error of update_license is logged and passed over. *)
Delete(a) ==
  LET t == txn[a]
      frees == t.license \in Licenses /\ t.license \notin lapsed /\ Leaving(t) # {}
  IN /\ t.op = "delete"
     /\ Hold(t.users, NoUser)
     /\ IF frees THEN FreesSeats(t) ELSE UNCHANGED <<user_list, limit_exceeded>>
     /\ Commits(a, t.users \cup (IF frees THEN {t.license} ELSE {}))

Lapse(l) ==
  /\ l \in Lapsing \ lapsed /\ lapsed' = lapsed \cup {l}
  /\ UNCHANGED <<user_list, limit_exceeded, license_laui, version, txn, requests>>

LicenseSeatsNext ==
  \/ \E a \in Admins, l \in Licenses, u \in Users : StartCreate(a, u, l)
  \/ \E a \in Admins, l \in Licenses, A \in SUBSET {u \in Users : version[u] > 0} \ {{}} :
       StartAdd(a, l, A) \/ StartRemove(a, l, A)
  \/ \E a \in Admins, u \in Users : StartDelete(a, u)
  \/ \E a \in Admins : Create(a) \/ AddUsers(a) \/ RemoveUsers(a) \/ Delete(a) \/ Aborts(a)
  \/ \E l \in Licenses : Lapse(l)

LicenseSeatsSpec == LicenseSeatsInit /\ [][LicenseSeatsNext]_seatVars

-----------------------------------------------------------------------------
LicenseSeatsTypeOK ==
  /\ user_list \in [Licenses -> SUBSET Users]
  /\ limit_exceeded \in [Licenses -> BOOLEAN]
  /\ license_laui \in [Users -> Licenses \cup {NoLicense, NoUser}]
  /\ \A u \in Users : version[u] = 0 => /\ license_laui[u] = NoUser
                                       /\ \A l \in Licenses : u \notin user_list[l]

(* However requests overlap, a licence lists no more users than it has seats *)
(* and its flag says exactly whether one is left, so that create_user, which *)
(* looks at the flag only, finds every free seat (update_license,            *)
(* get_vacant_license).                                                      *)
SeatsAreCounted ==
  \A l \in Licenses : /\ Cardinality(user_list[l]) <= Seats[l]
                      /\ limit_exceeded[l] <=> Cardinality(user_list[l]) = Seats[l]

(* A user is never shut out by half a change: the licence a user names lists *)
(* the user (the two checks of the licence middleware), however creation,    *)
(* deletion and moves between licences overlap.                              *)
HoldersAreSeated ==
  \A u \in Users : license_laui[u] \in Licenses => u \in user_list[license_laui[u]]

(* A seat is taken only by a user who names the licence. A user moved to     *)
(* another licence keeps the old seat, and so does one whose licence has     *)
(* lapsed when it is deleted: the code does not keep this one.               *)
SeatsAreUsed ==
  \A l \in Licenses : \A u \in user_list[l] : license_laui[u] = l

(* Licences and users agree: seats are counted, holders are listed.          *)
SeatsAgree == LicenseSeatsTypeOK /\ SeatsAreCounted /\ HoldersAreSeated
=============================================================================
