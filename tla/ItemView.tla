------------------------------ MODULE ItemView ------------------------------
(* The details pane of the Browse screen against the address bar: in-app     *)
(* navigation sets the view and then the URL, marked as resolved; a tab,     *)
(* Back or a pasted URL sets the URL, and useDeepLink sets the view from it. *)
(*                                                                           *)
(* The view is what the setters called last have left, whichever navigation  *)
(* they belong to. calm: the user waits until everything has settled.        *)
EXTENDS Naturals, Sequences, SequencesExt

CONSTANTS
  Leaves,      \* items that are not folders
  Boxes,       \* folders
  BoxOf,       \* the folder of each item
  Nil,         \* null
  Pages,       \* pages of the list of a folder
  MaxTabs,     \* MAX_TABS (15 in the code)
  Threads,     \* asynchronous handlers under way at once
  MaxMoves,    \* bound: navigations of the user
  MaxErrors    \* bound: requests that fail

ASSUME ItemViewAssumption ==
  /\ Nil \notin Leaves \cup Boxes /\ Leaves \cap Boxes = {}
  /\ BoxOf \in [Leaves -> Boxes]
  /\ Pages \subseteq Nat \ {0} /\ 1 \in Pages
  /\ MaxTabs \in Nat \ {0} /\ MaxMoves \in Nat /\ MaxErrors \in Nat

VARIABLES
  history,    \* the entries of the browser's history
  position,   \* the current one
  resolved,   \* lastResolvedLaui
  notFound,   \* itemNotFound
  tabs,       \* openTabs
  viewing,    \* viewingItem, shown while isEditorActive
  editor,     \* isEditorActive
  chosen,     \* selectedItem
  opened,     \* openedFolder
  listFrom,   \* filteredFromItem
  listPage,   \* the page of the list shown, 0 without one
  lastFrom,   \* lastFilteredFromItem
  thread,     \* what each asynchronous handler does next
  calm,
  astray,     \* the view was last set without the URL
  moves, errors

itemViewVars == <<history, position, resolved, notFound, tabs, viewing, editor, chosen,
                  opened, listFrom, listPage, lastFrom, thread, calm, astray, moves, errors>>

browser == <<history, position, resolved>>
pane == <<viewing, editor, chosen, opened, listFrom, listPage, lastFrom>>

-----------------------------------------------------------------------------
(* A URL names an item or a folder, or a folder with a type and a page.      *)
Url(x, n) == [laui |-> x, page |-> n]
Here == history[position]
Pushed(u) == IF u = Here THEN history ELSE Append(SubSeq(history, 1, position), u)
PushedAt(u) == IF u = Here THEN position ELSE position + 1

(* navigateToPath and handleViewItem: the URL is marked before it changes.   *)
NavigatesTo(u) ==
  /\ history' = Pushed(u) /\ position' = PushedAt(u)
  /\ resolved' = u.laui

Rest == [do |-> "rest", of |-> Nil, page |-> 0, link |-> FALSE, push |-> FALSE]
Calls(do, x, n, link, push) == [do |-> do, of |-> x, page |-> n, link |-> link, push |-> push]
Free == {k \in Threads : thread[k] = Rest}
Settled == Free = Threads

Moves == /\ moves < MaxMoves /\ moves' = moves + 1
         /\ calm => Settled
         /\ UNCHANGED <<calm, errors>>
Begins(k, call) == k \in Free /\ thread' = [thread EXCEPT ![k] = call]

(* addTab: in place when open, else last, and the first one goes at the cap. *)
WithTabPastCap(x) ==
  IF x \in ToSet(tabs) THEN tabs
  ELSE IF Len(tabs) > MaxTabs THEN Append(Tail(tabs), x) ELSE Append(tabs, x)

WithTabIfRoom(x) ==
  IF x \in ToSet(tabs) \/ Len(tabs) >= MaxTabs THEN tabs ELSE Append(tabs, x)

WithTab(x) ==
  IF x \in ToSet(tabs) THEN tabs
  ELSE IF Len(tabs) >= MaxTabs THEN Append(Tail(tabs), x) ELSE Append(tabs, x)

ItemViewInit ==
  /\ history = <<Url(Nil, 0)>> /\ position = 1
  /\ resolved = Nil /\ notFound = FALSE
  /\ tabs = <<>>
  /\ viewing = Nil /\ editor = FALSE
  /\ chosen \in Boxes /\ opened = Nil
  /\ listFrom = Nil /\ listPage = 0 /\ lastFrom = Nil
  /\ thread = [k \in Threads |-> Rest]
  /\ calm \in BOOLEAN /\ astray = FALSE
  /\ moves = 0 /\ errors = 0

-----------------------------------------------------------------------------
(* In-app navigation. *)

(* handleViewItem: a row of the list. *)
ViewsItem(k, x, link) ==
  /\ NavigatesTo(Url(x, 0))
  /\ tabs' = WithTab(x)
  /\ thread' = [thread EXCEPT ![k] = Calls("view", x, 0, link, FALSE)]

OpenRow(k, x) ==
  /\ Moves
  /\ ~editor /\ listFrom = BoxOf[x]
  /\ k \in Free /\ ViewsItem(k, x, FALSE)
  /\ astray' = FALSE
  /\ UNCHANGED <<notFound, pane>>

(* handleSelectItem: a folder of the sidebar. Selected or opened already, it *)
(* keeps its list.                                                           *)
SelectBox(b) ==
  /\ Moves
  /\ viewing' = Nil /\ editor' = FALSE
  /\ chosen' = b /\ opened' = b
  /\ NavigatesTo(Url(b, 0))
  /\ IF b \in {chosen, opened}
       THEN UNCHANGED <<listFrom, listPage, lastFrom>>
       ELSE listFrom' = Nil /\ listPage' = 0 /\ lastFrom' = Nil
  /\ astray' = FALSE
  /\ UNCHANGED <<notFound, tabs, thread>>

(* handleSelectSupportedType: the list first, then the URL. *)
SelectType(k, b) ==
  /\ Moves
  /\ ~editor /\ chosen = b
  /\ viewing' = Nil /\ editor' = FALSE
  /\ Begins(k, Calls("list", b, 1, FALSE, TRUE))
  /\ astray' = FALSE
  /\ UNCHANGED <<browser, notFound, tabs, chosen, opened, listFrom, listPage, lastFrom>>

(* handleFilteredListPageChange: the page replaces the one in the URL. *)
ChangePage(k, n) ==
  /\ Moves
  /\ ~editor /\ listFrom # Nil
  /\ history' = [history EXCEPT ![position].page = n]
  /\ Begins(k, Calls("list", listFrom, n, FALSE, FALSE))
  /\ UNCHANGED <<position, resolved, notFound, tabs, pane, astray>>

(* The type in the breadcrumb: the list again, and no URL (the comment at    *)
(* handleBreadcrumbSelect says why).                                         *)
BackToList(k) ==
  /\ Moves
  /\ lastFrom # Nil
  /\ viewing' = Nil /\ editor' = FALSE
  /\ Begins(k, Calls("list", lastFrom, 1, FALSE, FALSE))
  /\ astray' = TRUE
  /\ UNCHANGED <<browser, notFound, tabs, chosen, opened, listFrom, listPage, lastFrom>>

-----------------------------------------------------------------------------
(* The URL changes by itself: the effect of useDeepLink. *)
Arrives(k, h, p) ==
  LET u == h[p]
  IN /\ history' = h /\ position' = p
     /\ astray' = (astray /\ u.laui = Here.laui)
     /\ IF u.laui = Nil
          THEN /\ resolved' = Nil /\ notFound' = FALSE
               /\ UNCHANGED thread
          ELSE /\ IF u.laui = resolved \/ u = Here
                    THEN UNCHANGED thread
                    ELSE Begins(k, Calls("meta", u.laui, u.page, TRUE, FALSE))
               /\ UNCHANGED <<resolved, notFound>>
     /\ UNCHANGED pane

ClickTab(k, x) ==
  /\ Moves /\ x \in ToSet(tabs)
  /\ Arrives(k, Pushed(Url(x, 0)), PushedAt(Url(x, 0)))
  /\ UNCHANGED tabs

(* Closing the tab of the URL goes to its right neighbour, else to the left. *)
CloseTab(k, x) ==
  LET i == CHOOSE j \in DOMAIN tabs : tabs[j] = x
      left == RemoveAt(tabs, i)
      next == IF left = <<>> THEN Nil
              ELSE IF i <= Len(left) THEN left[i] ELSE left[i - 1]
  IN /\ Moves /\ x \in ToSet(tabs)
     /\ tabs' = left
     /\ IF x = Here.laui
          THEN Arrives(k, Pushed(Url(next, 0)), PushedAt(Url(next, 0)))
          ELSE UNCHANGED <<browser, notFound, pane, thread, astray>>

CloseAllTabs(k) ==
  /\ Moves /\ tabs # <<>>
  /\ tabs' = <<>>
  /\ Arrives(k, Pushed(Url(Nil, 0)), PushedAt(Url(Nil, 0)))

(* Back and Forward. *)
Travel(k, p) ==
  /\ Moves
  /\ p \in DOMAIN history /\ p \in {position - 1, position + 1}
  /\ Arrives(k, history, p)
  /\ UNCHANGED tabs

-----------------------------------------------------------------------------
(* Answers. *)

(* handleViewItem: with the item, or without it when the request failed.     *)
ViewAnswered(k) ==
  LET c == thread[k]
  IN /\ c.do = "view"
     /\ viewing' = c.of /\ chosen' = c.of /\ editor' = TRUE
     /\ resolved' = IF c.link THEN c.of ELSE resolved
     /\ thread' = [thread EXCEPT ![k] = Rest]
     /\ UNCHANGED <<history, position, notFound, tabs, opened, listFrom, listPage,
                    lastFrom, calm, astray, moves, errors>>

(* loadChildrenByType, and what its caller does after it. *)
AfterList(c) ==
  IF c.push THEN NavigatesTo(Url(c.of, 1))
  ELSE /\ resolved' = IF c.link THEN c.of ELSE resolved
       /\ UNCHANGED <<history, position>>

ListReloads(k) ==
  LET c == thread[k]
  IN /\ c.do = "list"
     /\ listFrom' = c.of /\ listPage' = c.page /\ lastFrom' = c.of
     /\ chosen' = Nil /\ opened' = c.of
     /\ AfterList(c)
     /\ UNCHANGED <<thread, notFound, tabs, viewing, editor, calm, astray, moves, errors>>

ListAnswered(k) ==
  LET c == thread[k]
  IN /\ c.do = "list"
     /\ listFrom' = c.of /\ listPage' = c.page /\ lastFrom' = c.of
     /\ chosen' = Nil /\ opened' = c.of
     /\ AfterList(c)
     /\ thread' = [thread EXCEPT ![k] = Rest]
     /\ UNCHANGED <<notFound, tabs, viewing, editor, calm, astray, moves, errors>>

(* useDeepLink: the item and its ancestors, then their children, then the    *)
(* view. An item is viewed by handleViewItem, which goes to its URL.         *)
MetaAnswered(k) ==
  LET c == thread[k]
  IN /\ c.do = "meta"
     /\ notFound' = FALSE
     /\ thread' = [thread EXCEPT ![k].do = "kids"]
     /\ UNCHANGED <<browser, tabs, pane, calm, astray, moves, errors>>

LinkBehindEditor(k) ==
  LET c == thread[k]
  IN /\ c.do = "kids" /\ c.of \in Boxes
     /\ chosen' = c.of /\ opened' = c.of
     /\ IF c.page > 0
          THEN /\ thread' = [thread EXCEPT ![k].do = "list"]
               /\ UNCHANGED <<resolved, listFrom, listPage>>
          ELSE /\ thread' = [thread EXCEPT ![k] = Rest]
               /\ resolved' = c.of
               /\ listFrom' = Nil /\ listPage' = 0
     /\ UNCHANGED <<history, position, notFound, tabs, viewing, editor, lastFrom, calm,
                    astray, moves, errors>>

LinkToBox(k) ==
  LET c == thread[k]
  IN /\ c.do = "kids" /\ c.of \in Boxes
     /\ viewing' = Nil /\ editor' = FALSE
     /\ chosen' = c.of /\ opened' = c.of
     /\ IF c.page > 0
          THEN /\ thread' = [thread EXCEPT ![k].do = "list"]
               /\ UNCHANGED <<resolved, listFrom, listPage>>
          ELSE /\ thread' = [thread EXCEPT ![k] = Rest]
               /\ resolved' = c.of
               /\ listFrom' = Nil /\ listPage' = 0
     /\ UNCHANGED <<history, position, notFound, tabs, lastFrom, calm, astray, moves, errors>>

LinkToLeaf(k) ==
  LET c == thread[k]
  IN /\ c.do = "kids" /\ c.of \in Leaves
     /\ opened' = BoxOf[c.of] /\ lastFrom' = BoxOf[c.of]
     /\ listFrom' = Nil /\ listPage' = 0
     /\ chosen' = c.of
     /\ ViewsItem(k, c.of, TRUE)
     /\ UNCHANGED <<notFound, viewing, editor, calm, astray, moves, errors>>

(* A request of useDeepLink or of a list fails. *)
LinkFails(k) ==
  LET c == thread[k]
  IN /\ c.do \in {"meta", "kids"}
     /\ errors < MaxErrors /\ errors' = errors + 1
     /\ notFound' \in {FALSE, TRUE}
     /\ thread' = [thread EXCEPT ![k] = Rest]
     /\ UNCHANGED <<browser, tabs, pane, calm, astray, moves>>

ListFails(k) ==
  LET c == thread[k]
  IN /\ c.do = "list"
     /\ errors < MaxErrors /\ errors' = errors + 1
     /\ AfterList(c)
     /\ thread' = [thread EXCEPT ![k] = Rest]
     /\ UNCHANGED <<notFound, tabs, pane, calm, astray, moves>>

Answers(k) == \/ ViewAnswered(k) \/ ListAnswered(k) \/ MetaAnswered(k)
              \/ LinkToBox(k) \/ LinkToLeaf(k)

ItemViewNext ==
  \/ \E k \in Threads, x \in Leaves : OpenRow(k, x) \/ ClickTab(k, x) \/ CloseTab(k, x)
  \/ \E b \in Boxes : SelectBox(b) \/ \E k \in Threads : SelectType(k, b)
  \/ \E k \in Threads, n \in Pages : ChangePage(k, n)
  \/ \E k \in Threads : \/ BackToList(k) \/ CloseAllTabs(k)
                        \/ \E p \in 1..Len(history) : Travel(k, p)
  \/ \E k \in Threads : Answers(k) \/ LinkFails(k) \/ ListFails(k)

ItemViewFairness == \A k \in Threads : WF_itemViewVars(Answers(k))

ItemViewSpec == ItemViewInit /\ [][ItemViewNext]_itemViewVars /\ ItemViewFairness

-----------------------------------------------------------------------------
(* What ItemDetails renders. *)
Shown == IF editor THEN viewing
         ELSE IF chosen \in Boxes THEN chosen
         ELSE listFrom

ItemViewTypeOK ==
  /\ position \in DOMAIN history
  /\ \A i \in DOMAIN history : history[i].laui \in Leaves \cup Boxes \cup {Nil}
  /\ resolved \in Leaves \cup Boxes \cup {Nil}
  /\ IsInjective(tabs) /\ Len(tabs) <= MaxTabs /\ ToSet(tabs) \subseteq Leaves
  /\ {viewing, chosen, listFrom, lastFrom, opened} \subseteq Leaves \cup Boxes \cup {Nil}
  /\ listFrom \in Boxes <=> listPage > 0

(* For a user who waits the pane shows what the URL names, however it was    *)
(* reached: rows, folders, lists, tabs, Back and Forward (the guards on      *)
(* lastResolvedLaui skip a resolution only when the view is already right).  *)
ViewFollowsUrl ==
  (calm /\ Settled /\ errors = 0 /\ ~astray /\ Here.laui # Nil) => Shown = Here.laui

(* The item in the URL has a tab, whatever was opened, closed or dropped at  *)
(* the cap before (addTab, removeTab, the neighbour a closed tab goes to).   *)
ActiveTabIsOpen ==
  (calm /\ Settled /\ errors = 0 /\ Here.laui \in Leaves) => Here.laui \in ToSet(tabs)

(* Whatever overlaps and fails, nothing keeps navigating by itself: the      *)
(* resolutions, each of which may change the URL again, come to an end.      *)
NavigationSettles == []<>Settled

(* The pane and the tab bar agree with the address.                          *)
PaneIsRight == ItemViewTypeOK /\ ViewFollowsUrl /\ ActiveTabIsOpen
=============================================================================
