----------------------------- MODULE CatalogTree -----------------------------
(* The catalog: items, the links that place them in a tree, their revisions  *)
(* and the trash (core/catalog: orchestrator.py, service.py, item/repo.py,   *)
(* link/repo.py, item_revision/repo.py).                                     *)
(*                                                                           *)
(* Each API request is a process. A create holds the Redis lock of its       *)
(* primary key, looks for an item with that key outside any transaction, and *)
(* then opens the MongoDB transaction that creates or updates. The other     *)
(* requests are one transaction. A transaction reads the snapshot taken when *)
(* it opens, and commits only if no document it writes was written by        *)
(* another since (MongoDB's write conflict); `missed` collects those writes. *)
(* create_link runs without a transaction.                                   *)
EXTENDS Naturals, FiniteSets

CONSTANTS
  Requests,   \* processes that serve API requests
  Items,      \* the lauis that may ever be given out
  Kind,       \* Kind[i]: "folder", "holder" (connection, operator, ...), "task"
  Pk,         \* Pk[i]: the primary key an item is created with
  Root,       \* the account folder
  Trash,      \* the trash folder
  None,       \* no item
  Settled,    \* items that exist at the start
  Home,       \* Home[i]: the settled item or root they were created in
  MaxVersion, \* bound on the versions of an item
  MaxCalls    \* bound on the requests served

ASSUME CatalogAssumption ==
  /\ IsFiniteSet(Items)
  /\ Root \in Items /\ Trash \in Items /\ Root # Trash
  /\ None \notin Items /\ None \notin Requests
  /\ Settled \subseteq Items \ {Root, Trash}
  /\ Home \in [Settled -> Settled \cup {Root}]
  /\ Kind \in [Items -> {"folder", "holder", "task"}]
  /\ Kind[Root] = "folder" /\ Kind[Trash] = "folder"
  /\ MaxVersion \in Nat \ {0} /\ MaxCalls \in Nat
  /\ \A i \in Settled \cup {Root, Trash}, j \in Settled \cup {Root, Trash} :
       Pk[i] = Pk[j] => i = j

VARIABLES
  items,      \* the items collection
  links,      \* the links collection
  revisions,  \* revisions[i][v]: documents of item_revisions for version v
  pkLock,     \* pkLock[k]: the request that holds lock:pk:k
  req,        \* req[p]: the request p serves
  calls,      \* requests served so far
  overlapped  \* history: two requests have been under way at once

catalogVars == <<items, links, revisions, pkLock, req, calls, overlapped>>

Pks == {Pk[i] : i \in Items}
Link == [parent : Items, child : Items, true : BOOLEAN]
Item == [state : {"unused", "live", "deleted", "purged"},
         version : 0 .. MaxVersion, parent : Items \cup {None}]

Store == [items : [Items -> Item], links : SUBSET Link]

\* Both collections as one value: the snapshot of a transaction.
Now == [items |-> items, links |-> links]
Exists(s, i) == s.items[i].state \in {"live", "deleted"}
IsLive(s, i) == s.items[i].state = "live"

-----------------------------------------------------------------------------
(* What the handlers are built from.                                         *)

\* ItemTypesManager: the kinds an item may contain; the trash takes no folder.
Supports(parent, child) ==
  IF Kind[parent] = "folder" THEN parent # Trash \/ Kind[child] # "folder"
                             ELSE Kind[child] = "task"

\* create_link asks for the supported kinds that are not folders.
Linkable(parent, child) == Supports(parent, child) /\ Kind[child] # "folder"

\* children_links_lookup: $graphLookup over the links that start at item i.
LinksBelow(ls, i) ==
  LET below[n \in 0 .. Cardinality(Items)] ==
        IF n = 0 THEN {l \in ls : l.parent = i}
        ELSE LET near == below[n - 1]
             IN  near \cup {l \in ls : l.parent \in {up.child : up \in near}}
  IN  below[Cardinality(Items)]
TrueLinks(ls) == {l \in ls : l.true}
Children(ls) == {l.child : l \in ls}
AnyBelow(ls, i) == Children(LinksBelow(ls, i))
TrueBelow(ls, i) == Children(LinksBelow(TrueLinks(ls), i))

Between(ls, parent, child) ==
  {l \in ls : l.parent = parent /\ l.child = child}

-----------------------------------------------------------------------------
(* Requests and transactions.                                                *)

Request ==
  [step : {"idle", "locked", "found", "open", "created", "linking"},
   op : {"none", "create", "link", "delete", "purge", "restore"},
   item : Items \cup {None}, parent : Items \cup {None},
   pk : Pks \cup {None}, holder : Items \cup {None}, seen : 0 .. MaxVersion,
   snap : Store \cup {None}, missed : SUBSET (Items \cup Link)]
Idle == [step |-> "idle", op |-> "none", item |-> None, parent |-> None,
         pk |-> None, holder |-> None, seen |-> 0, snap |-> None,
         missed |-> {}]
Busy(p) == req[p].step # "idle"

Existing == Settled \cup {Root, Trash}
HomeUnset(i) == None
HomeOf(i) == IF i \in Settled THEN Home[i] ELSE Root
CatalogInit ==
  /\ items = [i \in Items |->
       [state |-> IF i \in Existing THEN "live" ELSE "unused",
        version |-> IF i \in Existing THEN 1 ELSE 0,
        parent |-> IF i \in Existing \ {Root} THEN HomeOf(i) ELSE None]]
  /\ links = {[parent |-> HomeOf(i), child |-> i, true |-> TRUE] :
                i \in Existing \ {Root}}
  /\ revisions = [i \in Items |-> [v \in 1 .. MaxVersion |-> 0]]
  /\ pkLock = [k \in Pks |-> None]
  /\ req = [p \in Requests |-> Idle]
  /\ calls = 0
  /\ overlapped = FALSE

\* A request arrives. The history variable remembers whether it is alone.
Arrive(p, r) ==
  /\ ~Busy(p) /\ calls < MaxCalls
  /\ req' = [req EXCEPT ![p] = r]
  /\ calls' = calls + 1
  /\ overlapped' = (overlapped \/ \E q \in Requests : Busy(q))
  /\ UNCHANGED <<items, links, revisions>>

Unlocked(p) == [k \in Pks |-> IF pkLock[k] = p THEN None ELSE pkLock[k]]

\* A transaction of p ends with `next` for p: the items of W and the links
\* that differ from its snapshot are written. It fails when another request has
\* written one of the documents it changes, and the others now miss its writes.
Commit(p, W, newItems, newLinks, next) ==
  LET old == req[p].snap
      removed == old.links \ newLinks
      added == newLinks \ old.links
  IN  /\ req[p].step = "open"
      /\ req[p].missed \cap (W \cup removed) = {}
      /\ items' = [i \in Items |-> IF i \in W THEN newItems[i] ELSE items[i]]
      /\ links' = (links \ removed) \cup added
      /\ req' = [q \in Requests |->
           IF q = p THEN next
           ELSE IF req[q].step = "open"
                THEN [req[q] EXCEPT !.missed = @ \cup W \cup removed]
                ELSE req[q]]
      /\ pkLock' = IF next = Idle THEN Unlocked(p) ELSE pkLock
      /\ UNCHANGED <<calls, overlapped>>

\* Any request may end in an exception or a write conflict before it commits;
\* the context managers release the lock.
GiveUp(p) ==
  /\ Busy(p)
  /\ req' = [req EXCEPT ![p] = Idle]
  /\ pkLock' = Unlocked(p)
  /\ UNCHANGED <<items, links, revisions, calls, overlapped>>

-----------------------------------------------------------------------------
(* create_item: create or update by primary key.                             *)

\* lock_pk. A lock that stays taken ends the request, as if it had not come.
LockPkTaken(p, k, parent, holder) ==
  /\ Arrive(p, [Idle EXCEPT !.step = "locked", !.op = "create", !.pk = k,
                            !.parent = parent, !.holder = holder])
  /\ pkLock' = [pkLock EXCEPT ![k] = p]
LockPk(p, k, parent, holder) ==
  /\ pkLock[k] = None
  /\ Arrive(p, [Idle EXCEPT !.step = "locked", !.op = "create", !.pk = k,
                            !.parent = parent, !.holder = holder])
  /\ pkLock' = [pkLock EXCEPT ![k] = p]

\* find_existing_item_by_pk reads outside a transaction, deleted items too.
FindExisting(p) ==
  LET same == {i \in Items : Pk[i] = req[p].pk /\ Exists(Now, i)} IN
  /\ req[p].step = "locked"
  /\ \/ /\ same = {}
        /\ req' = [req EXCEPT ![p].step = "found"]
     \/ \E i \in same :
          /\ IsLive(Now, i)      \* one in the trash is refused
          /\ req' = [req EXCEPT ![p].step = "found", ![p].item = i,
                                ![p].seen = items[i].version]
  /\ UNCHANGED <<items, links, revisions, pkLock, calls, overlapped>>

\* The transaction of update_existing_item or create_item opens.
OpenTransaction(p) ==
  /\ req[p].step = "found"
  /\ req' = [req EXCEPT ![p].step = "open", ![p].snap = Now]
  /\ UNCHANGED <<items, links, revisions, pkLock, calls, overlapped>>

\* update_existing_item: the item as it was read, with the changes, is written
\* over the document, deleted_at and version included; a change of a version
\* field archives the version that was read.
UpdateExisting(p, versioned) ==
  LET i == req[p].item
      seen == req[p].seen
      version == IF versioned THEN seen + 1 ELSE seen
      W == {i} \cap {j \in Items : Exists(req[p].snap, j)}
  IN  /\ req[p].op = "create" /\ i # None /\ version <= MaxVersion
      /\ Commit(p, W, [items EXCEPT ![i].state = "live", ![i].version = version],
                req[p].snap.links, Idle)
      /\ revisions' = IF versioned
                      THEN [revisions EXCEPT ![i][seen] = @ + 1]
                      ELSE revisions

\* _create_linkable_item: the item, its true link and the links from the
\* operator, connection or other holder it names. The parent is looked up
\* whether deleted or not; a link that exists already is an error.
CreateItem(p, i) ==
  LET r == req[p]
      true == [parent |-> r.parent, child |-> i, true |-> TRUE]
      soft == IF r.holder = None THEN {}
              ELSE {[parent |-> r.holder, child |-> i, true |-> FALSE]}
  IN  /\ r.op = "create" /\ r.step = "open" /\ r.item = None
      /\ Pk[i] = r.pk /\ items[i].state = "unused"
      /\ Exists(r.snap, r.parent) /\ Supports(r.parent, i)
      /\ r.holder # None =>
           /\ Kind[i] = "task" /\ Exists(r.snap, r.holder)
           /\ Linkable(r.holder, i) /\ r.holder # r.parent
      /\ Commit(p, {i},
                [items EXCEPT ![i] = [state |-> "live", version |-> 1,
                                      parent |-> r.parent]],
                r.snap.links \cup {true} \cup soft,
                IF Kind[i] = "task"
                THEN [Idle EXCEPT !.step = "created", !.op = "create", !.item = i]
                ELSE Idle)
      /\ UNCHANGED revisions

\* _link_tasks: after the commit a task is linked below the task whose end it
\* waits for, if it names one.
FindParentTask(p, t) ==
  /\ req[p].step = "created"
  /\ Kind[t] = "task" /\ t # req[p].item /\ Exists(Now, t)
  /\ req' = [req EXCEPT ![p].step = "linking", ![p].parent = t]
  /\ UNCHANGED <<items, links, revisions, pkLock, calls, overlapped>>

-----------------------------------------------------------------------------
(* create_link: checks and insert, without a transaction.                    *)

CheckLink(p, parent, child) ==
  /\ parent # Trash
  /\ Exists(Now, parent) /\ Exists(Now, child) /\ Linkable(parent, child)
  /\ Between(links, parent, child) = {}
  /\ Arrive(p, [Idle EXCEPT !.step = "linking", !.op = "link",
                            !.item = child, !.parent = parent])
  /\ UNCHANGED pkLock

InsertLink(p) ==
  LET new == [parent |-> req[p].parent, child |-> req[p].item, true |-> FALSE] IN
  /\ req[p].step = "linking"
  /\ links' = links \cup {new}
  /\ req' = [req EXCEPT ![p] = Idle]
  /\ pkLock' = Unlocked(p)
  /\ UNCHANGED <<items, revisions, calls, overlapped>>

-----------------------------------------------------------------------------
(* delete_item and restore_item: one transaction each.                       *)

Begin(p, op, parent, i) ==
  /\ Arrive(p, [Idle EXCEPT !.step = "open", !.op = op, !.item = i,
                            !.parent = parent, !.snap = Now])
  /\ UNCHANGED pkLock

\* A client asks to delete the item at the end of a link it was shown.
BeginDelete(p, l, hard) ==
  /\ l \in links /\ l.child # Trash
  /\ Begin(p, IF hard THEN "purge" ELSE "delete", l.parent, l.child)

BeginRestore(p, i) ==
  /\ Between(links, Trash, i) # {}
  /\ Begin(p, "restore", None, i)

PresentNone(p, S) == {}
Present(p, S) == {i \in Items : i \in S /\ Exists(req[p].snap, i)}
WithState(S, state) ==
  [i \in Items |-> IF i \in S THEN [items[i] EXCEPT !.state = state]
                   ELSE items[i]]

\* The links removed with item i: all below it, those to it, and the soft ones
\* to what hangs below it by a true link.
DoomedBelow(ls, i) == LinksBelow(ls, i) \cup {l \in ls : l.child = i}
Doomed(ls, i) ==
  LET below == LinksBelow(ls, i) IN
  below \cup {l \in ls : \/ l.child = i
                         \/ ~l.true /\ l.child \in Children(TrueLinks(below))}

\* The item is removed for good, with all that $graphLookup finds behind a true
\* link, soft links on the way included.
HardDelete(p) ==
  LET r == req[p]
      ls == r.snap.links
      W == Present(p, Children(TrueLinks(LinksBelow(ls, r.item))) \cup {r.item})
  IN  /\ r.op = "purge" \/ (r.op = "delete" /\ r.parent = Trash)
      /\ Between(ls, r.parent, r.item) # {}
      /\ Commit(p, W, WithState(W, "purged"), ls \ Doomed(ls, r.item), Idle)
      /\ UNCHANGED revisions

TrashedTwice(ls, l, S) ==
  (ls \ {k \in ls : ~k.true /\ k.child \in S})
    \cup {[parent |-> Trash, child |-> l.child, true |-> TRUE]}
Trashed(ls, l, S) ==
  (ls \ ({l} \cup {k \in ls : ~k.true /\ k.child \in S}))
    \cup {[parent |-> Trash, child |-> l.child, true |-> TRUE]}

\* The item and all below it by true links are marked; its link moves to the
\* trash and soft links to any of them go.
SoftDelete(p) ==
  LET r == req[p]
      ls == r.snap.links
      S == TrueBelow(ls, r.item) \cup {r.item}
      W == Present(p, S)
  IN  /\ r.op = "delete" /\ r.parent # Trash
      /\ \E l \in TrueLinks(Between(ls, r.parent, r.item)) :
           Commit(p, W, WithState(W, "deleted"), Trashed(ls, l, S), Idle)
      /\ UNCHANGED revisions

\* Deleting a soft link leaves the item alone.
Unlink(p) ==
  LET r == req[p] IN
  /\ r.op = "delete" /\ r.parent # Trash
  /\ \E l \in Between(r.snap.links, r.parent, r.item) :
       /\ ~l.true
       /\ Commit(p, {}, items, r.snap.links \ {l}, Idle)
  /\ UNCHANGED revisions

\* The item goes back below the parent it was created in, which must be live,
\* and all below it is live again.
Restore(p) ==
  LET r == req[p]
      ls == r.snap.links
      home == r.snap.items[r.item].parent
      W == Present(p, TrueBelow(ls, r.item) \cup {r.item})
  IN  /\ r.op = "restore"
      /\ Exists(r.snap, r.item) /\ home # None /\ IsLive(r.snap, home)
      /\ \E l \in Between(ls, Trash, r.item) :
           Commit(p, W, WithState(W, "live"),
                  (ls \ {l}) \cup {[parent |-> home, child |-> r.item, true |-> TRUE]},
                  Idle)
      /\ UNCHANGED revisions

-----------------------------------------------------------------------------
Folders == {i \in Items : Kind[i] = "folder"}
Holders == {i \in Items : Kind[i] = "holder"}

Serve(p) ==
  \/ FindExisting(p)
  \/ OpenTransaction(p)
  \/ \E versioned \in BOOLEAN : UpdateExisting(p, versioned)
  \/ \E i \in Items : CreateItem(p, i)
  \/ \E t \in Items : FindParentTask(p, t)
  \/ InsertLink(p)
  \/ HardDelete(p)
  \/ SoftDelete(p)
  \/ Unlink(p)
  \/ Restore(p)
  \/ GiveUp(p)

\* Clients offer no creation in the trash or of the account and trash folders.
Ask(p) ==
  \/ \E i \in Items \ {Root, Trash}, parent \in Items \ {Trash},
        holder \in Holders \cup {None} : LockPk(p, Pk[i], parent, holder)
  \/ \E parent, child \in Items : CheckLink(p, parent, child)
  \/ \E l \in links, hard \in BOOLEAN : BeginDelete(p, l, hard)
  \/ \E i \in Items : BeginRestore(p, i)

CatalogNext == \E p \in Requests : Ask(p) \/ Serve(p)

CatalogSpec == CatalogInit /\ [][CatalogNext]_catalogVars

-----------------------------------------------------------------------------
(* Properties.                                                               *)

\* Every variable has its type.
CatalogTypeOK ==
  /\ items \in [Items -> Item]
  /\ links \subseteq Link
  /\ revisions \in [Items -> [1 .. MaxVersion -> Nat]]
  /\ pkLock \in [Pks -> Requests \cup {None}]
  /\ req \in [Requests -> Request]
  /\ calls \in Nat /\ overlapped \in BOOLEAN

\* However requests overlap, no two items have the same primary key, in the
\* trash or out of it: create_item looks and inserts under lock_pk, though the
\* look-up is outside the transaction.
OneItemPerKey ==
  \A i, j \in Items :
    Exists(Now, i) /\ Exists(Now, j) /\ Pk[i] = Pk[j] => i = j

\* However requests overlap, an item has exactly one true parent: the link
\* moves between folder and trash although no link document is guarded, because
\* delete and restore also write the item and so conflict.
OneTrueParent ==
  \A i \in Items \ {Root} :
    Exists(Now, i) => Cardinality({l \in TrueLinks(links) : l.child = i}) = 1

\* However requests overlap, a deleted item can be found from the trash, so it
\* can be restored or removed for good.
DeletedIsInTrash ==
  \A i \in Items :
    items[i].state = "deleted" => i \in TrueBelow(links, Trash)

\* However requests overlap, every version of an item but the last is archived
\* exactly once in item_revisions.
EachVersionArchivedOnce ==
  \A i \in Items : Exists(Now, i) =>
    \A v \in 1 .. MaxVersion :
      revisions[i][v] = IF v < items[i].version THEN 1 ELSE 0

\* While requests do not overlap, no link dangles and what hangs directly in
\* the trash is deleted.
AloneLinksResolve ==
  ~overlapped =>
    \A l \in links :
      /\ Exists(Now, l.parent) /\ Exists(Now, l.child)
      /\ l.true /\ l.parent = Trash => items[l.child].state = "deleted"

\* While requests do not overlap, restoring a folder leaves in the trash what
\* was put there on its own, and an item leaves the trash only to go below a
\* live folder.
RestoreSparesOthers ==
  [][~overlapped' => \A l \in TrueLinks(links) :
       l.parent = Trash /\ IsLive(Now, l.child)' =>
         /\ l \notin links'
         /\ \E k \in TrueLinks(links') : k.child = l.child /\ IsLive(Now, k.parent)']_catalogVars

\* Removing an item for good removes only what is below it by true links, and
\* no link between two items that stay.
PurgeSparesSurvivors ==
  [][\A p \in Requests : HardDelete(p) =>
       /\ \A i \in Items : Exists(Now, i) /\ ~Exists(Now, i)' =>
            i = req[p].item \/ i \in TrueBelow(req[p].snap.links, req[p].item)
       /\ \A l \in links \ links' :
            ~Exists(Now, l.parent)' \/ ~Exists(Now, l.child)']_catalogVars

\* The tree is sound: typed, one true parent each, what is deleted below the
\* trash, and without dangling links while requests do not overlap.
TreeIsSound == CatalogTypeOK /\ OneTrueParent /\ DeletedIsInTrash /\ AloneLinksResolve
=============================================================================
