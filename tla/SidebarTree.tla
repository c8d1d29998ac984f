----------------------------- MODULE SidebarTree -----------------------------
(* The folder tree of the Browse screen: what the browser shows, which       *)
(* folders it believes it has loaded, and the requests that fill it.         *)
(*                                                                           *)
(* A handler runs to its first await in one step; what it read before stays  *)
(* in the rest of its requests (React closures). Each request is then sent,  *)
(* read by the server and answered, three separate steps, and the requests   *)
(* of one handler follow one another. setItems, setLoadedChildren and the    *)
(* other setters with a function argument apply to the current state.        *)
(*                                                                           *)
(* patient: the user starts nothing while a request is under way.            *)
EXTENDS Naturals, Sequences, FiniteSets, SequencesExt

CONSTANTS
  Folders,      \* identifiers (laui) of folders
  Account,      \* the root of the tree
  Bin,          \* the trash, a child of the account
  Nowhere,      \* where a folder is before it is created
  FirstHome,    \* the parents on the server at first
  Listed,       \* the order in which the server lists the folders
  PerPage,      \* page size of a listing (10 in the code)
  Holders,      \* folders that also hold items other than folders
  Handlers,     \* handlers that may be under way at once
  MaxActs,      \* bound: actions of the user
  MaxFailures   \* bound: requests that fail

ASSUME SidebarAssumption ==
  /\ Account \in Folders /\ Bin \in Folders /\ Account # Bin
  /\ Nowhere \notin Folders
  /\ FirstHome \in [Folders -> Folders \cup {Nowhere}]
  /\ FirstHome[Account] = Nowhere /\ FirstHome[Bin] = Account
  /\ \E depth \in [Folders -> 0..Cardinality(Folders)] :
       \A f \in Folders : FirstHome[f] # Nowhere =>
         /\ depth[FirstHome[f]] < depth[f]
         /\ FirstHome[f] = Account \/ FirstHome[FirstHome[f]] # Nowhere
  /\ Listed \in Seq(Folders) /\ IsInjective(Listed)
  /\ IsFiniteSet(Folders)
  /\ PerPage \in Nat \ {0} /\ MaxActs \in Nat /\ MaxFailures \in Nat

VARIABLES
  tree,      \* items: paths of folders that have a node, with the children of each
  expanded,  \* expandedItems, in the order of insertion
  loaded,    \* loadedChildren
  loading,   \* loadingChildren
  paging,    \* childrenPagination: last page and has_next, by folder
  selected,  \* selectedItem
  home,      \* the parents on the server
  handler,   \* requests each handler has left
  patient,   \* whether the user waits
  kept,      \* nodes that showed children when the last tree refresh began
  acts, failures

sidebarVars == <<tree, expanded, loaded, loading, paging, selected, home,
                 handler, patient, kept, acts, failures>>

-----------------------------------------------------------------------------
(* The elements of s that are in S, in their order. *)
Filter(s, S) ==
  LET left[i \in 0..Len(s)] ==
        IF i = 0 THEN <<>>
        ELSE IF s[i] \in S THEN Append(left[i - 1], s[i]) ELSE left[i - 1]
  IN left[Len(s)]

(* The server's listing of the folders of a folder. *)
Children(f, h) == Filter(Listed, {c \in Folders : h[c] = f})

PageOf(f, n, h) ==
  LET all == Children(f, h)
  IN [kids |-> SubSeq(all, (n - 1) * PerPage + 1,
                      IF n * PerPage < Len(all) THEN n * PerPage ELSE Len(all)),
      at |-> [page |-> n, more |-> Len(all) > n * PerPage]]

Ancestry(f, h) ==
  LET down[g \in Folders] == IF h[g] = Nowhere THEN <<g>> ELSE Append(down[h[g]], g)
  IN down[f]

NodesOf(f, t) == {p \in DOMAIN t : Last(p) = f}
Below(p, f) == \E i \in 1..Len(p) - 1 : p[i] = f
NewNodes(f, kids, t) == {Append(q, c) : q \in NodesOf(f, t), c \in ToSet(kids)}

(* The tree in which the children of f are kids, which have no children yet: *)
(* the nodes below the former children go with them.                         *)
WithChildrenLeft(f, kids, t) ==
  [p \in DOMAIN t \cup NewNodes(f, kids, t) |->
     IF Last(p) = f THEN kids ELSE IF p \in DOMAIN t THEN t[p] ELSE <<>>]

WithChildren(f, kids, t) ==
  [p \in {q \in DOMAIN t : ~Below(q, f)} \cup NewNodes(f, kids, t) |->
     IF Last(p) = f THEN kids ELSE IF Below(p, f) THEN <<>> ELSE t[p]]

(* Children appended to those shown, without those shown already. *)
WithMoreTwice(f, kids, t) ==
  [p \in DOMAIN t \cup NewNodes(f, kids, t) |->
     IF p \notin DOMAIN t THEN <<>> ELSE IF Last(p) = f THEN t[p] \o kids ELSE t[p]]

WithMore(f, kids, t) ==
  [p \in DOMAIN t \cup NewNodes(f, kids, t) |->
     IF p \notin DOMAIN t THEN <<>>
     ELSE IF Last(p) = f THEN t[p] \o Filter(kids, Folders \ ToSet(t[p]))
     ELSE t[p]]

(* The tree of the root request: the account with all its children. *)
RootTree(kids) ==
  [p \in {<<Account>>} \cup {<<Account, c>> : c \in ToSet(kids)} |->
     IF p = <<Account>> THEN kids ELSE <<>>]

(* The tree a deep link builds: the children of the folders of a chain, put  *)
(* in from the account down as far as each is among the children of the last.*)
LinkTree(chain, kids) ==
  LET Reached(i) == \A j \in 1..i - 1 : chain[j + 1] \in ToSet(kids[chain[j]])
      paths == {SubSeq(chain, 1, i) : i \in {j \in 1..Len(chain) : Reached(j)}}
  IN [p \in paths \cup UNION {{Append(q, c) : c \in ToSet(kids[Last(q)])} : q \in paths} |->
        IF p \in paths THEN kids[Last(p)] ELSE <<>>]

(* What the user sees: nodes whose ancestors are expanded and not "Loading...". *)
Visible == {p \in DOMAIN tree :
              \A i \in 1..Len(p) - 1 : p[i] \in ToSet(expanded) \ loading}

CanExpand(p) == \/ Last(p) \notin loaded
                \/ tree[p] # <<>>
                \/ Last(p) \in Holders

-----------------------------------------------------------------------------
(* Requests. "load" asks for page 1 of the children of a folder, "more" for  *)
(* the next page, "root" for the account, "chain" for the ancestors of a     *)
(* deep link and "link" for the children of all of them.                     *)
Request(do, f, n) == [do |-> do, of |-> f, page |-> n]
Loads(fs) == [i \in 1..Len(fs) |-> Request("load", fs[i], 1)]
Quiet == [todo |-> <<>>, at |-> "none", got |-> <<>>]
Sent(todo) == IF todo = <<>> THEN Quiet ELSE [Quiet EXCEPT !.todo = todo, !.at = "sent"]
Spins(todo) == IF todo # <<>> /\ Head(todo).do \in {"load", "more"}
                 THEN {Head(todo).of} ELSE {}

Idle == {o \in Handlers : handler[o].todo = <<>>}
AtRest == Idle = Handlers

UserActs == /\ acts < MaxActs
            /\ acts' = acts + 1
            /\ patient => AtRest
            /\ UNCHANGED <<patient, failures>>

(* A handler starts its requests, shown as loading from base on. *)
Starts(o, todo, base) ==
  /\ o \in Idle
  /\ handler' = [handler EXCEPT ![o] = Sent(todo)]
  /\ loading' = base \cup Spins(todo)

SidebarInit ==
  /\ home = FirstHome
  /\ tree = RootTree(Children(Account, FirstHome))
  /\ expanded = <<>>
  /\ loaded = {Account}
  /\ loading = {}
  /\ paging = [f \in Folders |-> [page |-> 0, more |-> FALSE]]
  /\ selected = Account
  /\ handler = [o \in Handlers |-> Quiet]
  /\ patient \in BOOLEAN
  /\ kept = {}
  /\ acts = 0 /\ failures = 0

-----------------------------------------------------------------------------
(* A click on a node selects it and, when it can be expanded, toggles it.    *)
(* Selecting loads the ancestors that are not loaded, unless the node is     *)
(* selected already; expanding loads the node. The two run side by side.     *)
SelectLoads(p) ==
  IF Last(p) = selected THEN <<>>
  ELSE Loads(Filter(Front(p), Folders \ loaded))

ClickNode(p, s, o) ==
  LET f == Last(p)
      opens == f \notin ToSet(expanded)
      toggled == IF opens THEN Append(expanded, f) ELSE Filter(expanded, Folders \ {f})
      loads == IF CanExpand(p) /\ opens /\ f \notin loaded THEN Loads(<<f>>) ELSE <<>>
  IN /\ UserActs
     /\ s \in Idle /\ o \in Idle /\ s # o
     /\ handler' = [handler EXCEPT ![s] = Sent(SelectLoads(p)), ![o] = Sent(loads)]
     /\ loading' = loading \cup Spins(SelectLoads(p)) \cup Spins(loads)
     /\ expanded' = IF CanExpand(p) THEN toggled ELSE expanded
     /\ selected' = f
     /\ kept' = {}
     /\ UNCHANGED <<tree, loaded, paging, home>>

(* "Load more..." under an expanded folder. *)
LoadMore(p, o) ==
  LET f == Last(p)
  IN /\ UserActs
     /\ f \in ToSet(expanded) \ loading
     /\ paging[f].more
     /\ Starts(o, <<Request("more", f, paging[f].page + 1)>>, loading)
     /\ kept' = {}
     /\ UNCHANGED <<tree, expanded, loaded, paging, selected, home>>

(* handleRefreshItem: forget that the folder is loaded, and load it. *)
Reload(f, o) ==
  /\ loaded' = loaded \ {f}
  /\ Starts(o, Loads(<<f>>), loading \ {f})
  /\ kept' = {}
  /\ UNCHANGED <<tree, expanded, paging, selected>>

RefreshItem(p, o) == UserActs /\ Reload(Last(p), o) /\ UNCHANGED home

(* handleRefreshTree: the root, then every expanded folder found in the tree *)
(* of before, in the order in which they were expanded.                      *)
TreeRequests ==
  <<Request("root", Account, 1)>>
  \o Loads(Filter(expanded, {f \in Folders \ {Account} : NodesOf(f, tree) # {}}))

RefreshSelected(o) ==
  /\ Starts(o, Loads(<<selected>>), loading)
  /\ kept' = {}
  /\ UNCHANGED <<tree, expanded, loaded, paging, selected>>

RefreshTree(o) ==
  /\ Starts(o, TreeRequests, loading)
  /\ kept' = {p \in Visible : tree[p] # <<>> /\ Last(p) \in ToSet(expanded)}
  /\ UNCHANGED <<tree, expanded, loaded, paging, selected>>

(* A new folder in the selected one. *)
CreateFolder(f, o) ==
  /\ UserActs
  /\ f # Account /\ home[f] = Nowhere
  /\ Bin \notin ToSet(Ancestry(selected, home))
  /\ selected = Account \/ home[selected] # Nowhere
  /\ home' = [home EXCEPT ![f] = selected]
  /\ Reload(selected, o)

(* Delete moves a folder to the trash, restore moves it back. *)
DeleteFolder(p, o) ==
  LET f == Last(p)
  IN /\ UserActs
     /\ f \notin {Account, Bin} /\ Bin \notin ToSet(Ancestry(f, home))
     /\ home' = [home EXCEPT ![f] = Bin]
     /\ RefreshTree(o)

RestoreFolder(p, o) ==
  LET f == Last(p)
  IN /\ UserActs
     /\ home[f] = Bin
     /\ home' = [home EXCEPT ![f] = FirstHome[f]]
     /\ FirstHome[f] # Nowhere
     /\ RefreshTree(o)

(* A URL opened from outside the tree: useDeepLink. *)
OpenLink(f, o) ==
  /\ UserActs
  /\ home[f] # Nowhere
  /\ Starts(o, <<Request("chain", f, 1), Request("link", f, 1)>>, loading)
  /\ kept' = {}
  /\ UNCHANGED <<tree, expanded, loaded, paging, selected, home>>

-----------------------------------------------------------------------------
(* The server reads; the answer travels. *)
Reply(o) ==
  LET r == Head(handler[o].todo)
  IN CASE r.do = "root" -> Children(Account, home)
       [] r.do = "chain" -> Ancestry(r.of, home)
       [] r.do = "link" -> [f \in ToSet(Head(handler[o].got)) |-> PageOf(f, 1, home).kids]
       [] OTHER -> PageOf(r.of, r.page, home)

ServerReads(o) ==
  /\ handler[o].at = "sent"
  /\ handler' = [handler EXCEPT ![o].at = "read", ![o].got = Append(@, Reply(o))]
  /\ UNCHANGED <<tree, expanded, loaded, loading, paging, selected, home, patient,
                 kept, acts, failures>>

(* The handler goes on with what it has left. *)
Goes(o, todo, base) ==
  /\ handler' = [handler EXCEPT ![o] = Sent(todo)]
  /\ loading' = base \cup Spins(todo)

Answered(o, do) == handler[o].at = "read" /\ Head(handler[o].todo).do = do
Left(o) == Tail(handler[o].todo)
Got(o) == Last(handler[o].got)

LoadAnswered(o) ==
  LET f == Head(handler[o].todo).of
  IN /\ Answered(o, "load")
     /\ tree' = WithChildren(f, Got(o).kids, tree)
     /\ paging' = [paging EXCEPT ![f] = Got(o).at]
     /\ loaded' = loaded \cup {f}
     /\ Goes(o, Left(o), loading \ {f})
     /\ UNCHANGED <<expanded, selected, home, patient, kept, acts, failures>>

MoreAnswered(o) ==
  LET f == Head(handler[o].todo).of
  IN /\ Answered(o, "more")
     /\ tree' = WithMore(f, Got(o).kids, tree)
     /\ paging' = [paging EXCEPT ![f] = Got(o).at]
     /\ Goes(o, Left(o), loading \ {f})
     /\ UNCHANGED <<expanded, loaded, selected, home, patient, kept, acts, failures>>

RootAnswered(o) ==
  /\ Answered(o, "root")
  /\ tree' = RootTree(Got(o))
  /\ loaded' = {Account}
  /\ Goes(o, Left(o), loading)
  /\ UNCHANGED <<expanded, paging, selected, home, patient, kept, acts, failures>>

(* The ancestors are known, and their children are asked for. *)
ChainAnswered(o) ==
  /\ Answered(o, "chain")
  /\ handler' = [handler EXCEPT ![o].todo = Tail(@), ![o].at = "sent"]
  /\ UNCHANGED <<tree, expanded, loaded, loading, paging, selected, home, patient,
                 kept, acts, failures>>

(* All the children came: the tree they make replaces whatever is shown by   *)
(* now. The marks of what is loaded stay, and so do the pages.               *)
LinkAnswered(o) ==
  LET chain == Head(handler[o].got)
  IN /\ Answered(o, "link")
     /\ tree' = LinkTree(chain, Got(o))
     /\ loaded' = loaded \cup ToSet(chain)
     /\ expanded' = chain
     /\ selected' = Last(chain)
     /\ Goes(o, <<>>, loading)
     /\ UNCHANGED <<paging, home, patient, kept, acts, failures>>

(* A request fails. loadChildren swallows it and its caller goes on; the     *)
(* refresh of the tree and the deep link end.                                *)
FailsLoading(o) ==
  LET r == Head(handler[o].todo)
  IN /\ handler[o].at \in {"sent", "read"}
     /\ failures < MaxFailures
     /\ failures' = failures + 1
     /\ IF r.do \in {"load", "more"} THEN Goes(o, Left(o), loading) ELSE Goes(o, <<>>, loading)
     /\ UNCHANGED <<tree, expanded, loaded, paging, selected, home, patient, kept, acts>>

RequestFails(o) ==
  LET r == Head(handler[o].todo)
  IN /\ handler[o].at \in {"sent", "read"}
     /\ failures < MaxFailures
     /\ failures' = failures + 1
     /\ IF r.do \in {"load", "more"}
          THEN Goes(o, Left(o), loading \ {r.of})
          ELSE Goes(o, <<>>, loading)
     /\ UNCHANGED <<tree, expanded, loaded, paging, selected, home, patient, kept, acts>>

RequestEnds(o) == \/ LoadAnswered(o) \/ MoreAnswered(o) \/ RootAnswered(o)
                  \/ ChainAnswered(o) \/ LinkAnswered(o)

Proceeds(o) == ServerReads(o) \/ RequestEnds(o)

SidebarNext ==
  \/ \E p \in Visible, o \in Handlers :
       \/ \E s \in Handlers : ClickNode(p, s, o)
       \/ LoadMore(p, o) \/ RefreshItem(p, o) \/ DeleteFolder(p, o) \/ RestoreFolder(p, o)
  \/ \E f \in Folders, o \in Handlers : CreateFolder(f, o) \/ OpenLink(f, o)
  \/ \E o \in Handlers : Proceeds(o) \/ RequestFails(o)

SidebarFairness == \A o \in Handlers : WF_sidebarVars(Proceeds(o))

SidebarSpec == SidebarInit /\ [][SidebarNext]_sidebarVars /\ SidebarFairness

-----------------------------------------------------------------------------
(* The types; and a node has a node for each child it shows, and no other.   *)
SidebarTypeOK ==
  /\ \A p \in DOMAIN tree : Len(p) > 0 /\ p[1] = Account /\ ToSet(tree[p]) \subseteq Folders
  /\ DOMAIN tree = {<<Account>>} \cup UNION {{Append(p, c) : c \in ToSet(tree[p])} : p \in DOMAIN tree}
  /\ IsInjective(expanded) /\ ToSet(expanded) \subseteq Folders
  /\ loaded \subseteq Folders /\ loading \subseteq Folders /\ selected \in Folders
  /\ home \in [Folders -> Folders \cup {Nowhere}]
  /\ \A o \in Handlers : handler[o].at \in {"none", "sent", "read"}

(* No folder is shown twice among its siblings, whatever refreshes, pages    *)
(* and deep links are answered in whatever order while the listing shifts    *)
(* (appendNodeChildren).                                                     *)
SiblingsAreUnique == \A p \in DOMAIN tree : IsInjective(tree[p])

(* When a user who waits sees everything settle, each folder is shown under  *)
(* its parent: what was deleted or restored is not left at its former place  *)
(* (handleRefreshTree after a delete or a restore).                          *)
ShownWhereItIs ==
  (patient /\ AtRest /\ failures = 0) =>
     \A p \in DOMAIN tree : \A c \in ToSet(tree[p]) : home[c] = Last(p)

(* The indicator of a folder that loads goes away: every request ends, and   *)
(* loadChildren takes the folder out of loadingChildren in all cases.        *)
SpinnerStops == \A f \in Folders : (f \in loading) ~> (f \notin loading)

(* "Currently-expanded folders are re-fetched so the user's expansion state  *)
(* is preserved" (handleRefreshTree): a folder that showed its children, is  *)
(* still there and still has children shows children again.                  *)
ExpansionSurvivesRefresh ==
  (patient /\ AtRest /\ failures = 0) =>
     \A p \in kept \cap DOMAIN tree : Children(Last(p), home) # <<>> => tree[p] # <<>>

(* The tree shown is typed, without twins, and that of the server.           *)
SidebarIsRight == SidebarTypeOK /\ SiblingsAreUnique /\ ShownWhereItIs
=============================================================================
