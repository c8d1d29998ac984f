------------------------------ MODULE AiSession ------------------------------
(* The chat of the AI editor (ManualEditor.tsx) and the generate_history     *)
(* item that keeps it. A prompt is saved, sent to the model and saved again  *)
(* with its reply; every save writes the whole conversation under the name   *)
(* in sessionNameRef, and the first one that succeeds makes it the session   *)
(* of the wizard, which loads it back. An editor that is left goes on with   *)
(* its send, and its effects on the wizard and on the address still count.   *)
EXTENDS Naturals, Sequences

CONSTANTS
  NoSession,       \* null
  MaxEditors,      \* bound: editors opened one after the other
  MaxSends,        \* bound: prompts
  MaxTurns,        \* bound: clears, deletions, openings and leavings
  MaxAiErrors      \* bound: failed saves, generations, loads and deletions

ASSUME AiSessionAssumption ==
  /\ MaxEditors \in Nat /\ MaxSends \in Nat /\ MaxTurns \in Nat /\ MaxAiErrors \in Nat
  /\ NoSession \notin Nat

Editors == 1..MaxEditors
Names == 1..2 * MaxSends                  \* session names, in order of creation
Session == Names \cup {NoSession}
Message == [by : {"user", "assistant"}, of : 1..MaxSends]

VARIABLES
  wizard,          \* AI context and route: mode, session, address, editor shown, editors opened
  editors,         \* state and refs of each editor; kept: its last save or load worked
  chains,          \* handleSendMessage of each editor
  loads,           \* loadSession calls under way
  deleting,        \* session whose deletion each editor waits for
  histories,       \* the generate_history items: trashed, or lost when the answer to the
                   \* deletion was
  sends, named, turns, aiErrors,
  unhurried        \* the user waits for pending calls; loads end before generations

aiVars ==
  <<wizard, editors, chains, loads, deleting, histories, sends, named, turns, aiErrors,
    unhurried>>

NoChain == [step |-> "idle", as |-> NoSession, copy |-> <<>>, content |-> 0]
FreshEditor(session) ==
  [messages |-> <<>>, content |-> 0, isLoading |-> FALSE, name |-> NoSession,
   ref |-> session, kept |-> FALSE]

AiSessionTypeOK ==
  /\ wizard \in [mode : {"list", "config", "searching", "editor", "error"},
                 session : Session, url : Session, shown : 0..MaxEditors, opened : 0..MaxEditors]
  /\ (wizard.mode = "editor") = (wizard.shown # 0)
  /\ \A e \in Editors :
       /\ editors[e].messages \in Seq(Message) /\ Len(editors[e].messages) <= 2 * sends
       /\ editors[e].content \in 0..sends /\ editors[e].kept \in BOOLEAN
       /\ {editors[e].name, editors[e].ref, deleting[e]} \subseteq 1..named \cup {NoSession}
       /\ chains[e].step \in {"idle", "prompt", "generate", "reply", "error"}
       /\ editors[e].isLoading = (chains[e].step # "idle")
  /\ \A l \in loads : l.at \in Editors /\ l.of \in 1..named
  /\ \A s \in Names : histories[s].state \in {"absent", "kept", "trashed", "lost"}
  /\ sends \in 0..MaxSends /\ named \in 0..2 * MaxSends /\ turns \in 0..MaxTurns
  /\ aiErrors \in 0..MaxAiErrors /\ unhurried \in BOOLEAN

AiSessionInit ==
  /\ wizard = [mode |-> "list", session |-> NoSession, url |-> NoSession, shown |-> 0,
               opened |-> 0]
  /\ editors = [e \in Editors |-> FreshEditor(NoSession)]
  /\ chains = [e \in Editors |-> NoChain]
  /\ loads = {} /\ deleting = [e \in Editors |-> NoSession]
  /\ histories = [s \in Names |-> [state |-> "absent", messages |-> <<>>, content |-> 0]]
  /\ sends = 0 /\ named = 0 /\ turns = 0 /\ aiErrors = 0 /\ unhurried \in BOOLEAN

-----------------------------------------------------------------------------
InTrash(s) == histories[s].state \in {"trashed", "lost"}

CallPending ==
  loads # {} \/ \E e \in Editors : chains[e].step # "idle" \/ deleting[e] # NoSession

(* What the user does to a conversation or to the editor.                    *)
Turns ==
  /\ unhurried => ~CallPending
  /\ turns < MaxTurns /\ turns' = turns + 1
  /\ UNCHANGED <<sends, aiErrors, unhurried>>

AiWorks == UNCHANGED <<sends, turns, aiErrors, unhurried>>
AiFails ==
  /\ aiErrors < MaxAiErrors /\ aiErrors' = aiErrors + 1
  /\ UNCHANGED <<sends, turns, unhurried>>

(* A change of the wizard's session reaches the editor shown: the ref        *)
(* follows, and a session is loaded.                                         *)
Load(e, s) == [at |-> e, of |-> s, got |-> <<>>]
Moved(session) == wizard.shown # 0 /\ session # wizard.session
Followed(eds, session) ==
  IF Moved(session) THEN [eds EXCEPT ![wizard.shown].ref = session] ELSE eds
LoadsOn(session) ==
  IF Moved(session) /\ session # NoSession THEN loads \cup {Load(wizard.shown, session)} ELSE loads

(* A new editor, on the session of the wizard.                               *)
Opens(session, url) ==
  LET e == wizard.opened + 1
  IN /\ e \in Editors
     /\ wizard' = [mode |-> "editor", session |-> session, url |-> url, shown |-> e, opened |-> e]
     /\ editors' = [editors EXCEPT ![e] = FreshEditor(session)]
     /\ loads' = IF session = NoSession THEN loads ELSE loads \cup {Load(e, session)}

-----------------------------------------------------------------------------
(* saveAiHistory: the session is named once, at its first save.              *)
Saves(e, eds, how, copy, content) ==
  LET s == IF eds[e].name = NoSession THEN named + 1 ELSE eds[e].name
  IN /\ named' = IF eds[e].name = NoSession THEN s ELSE named
     /\ editors' = [eds EXCEPT ![e].name = s]
     /\ chains' = [chains EXCEPT ![e] =
                     [step |-> how, as |-> s, copy |-> copy, content |-> content]]

(* handleSendMessage; what the error path writes was read when the prompt    *)
(* was sent.                                                                 *)

Send(e) ==
  LET asked == Append(editors[e].messages, [by |-> "user", of |-> sends + 1])
  IN /\ wizard.shown = e /\ ~editors[e].isLoading /\ (unhurried => ~CallPending)
     /\ sends < MaxSends /\ sends' = sends + 1
     /\ Saves(e, [editors EXCEPT ![e].messages = asked, ![e].isLoading = TRUE],
              "prompt", asked, editors[e].content)
     /\ UNCHANGED <<wizard, loads, deleting, histories, turns, aiErrors, unhurried>>

(* The item is created or updated; an item in the trash is refused.          *)
Writes(e) ==
  LET s == chains[e].as
  IN /\ ~InTrash(s)
     /\ histories' = [histories EXCEPT ![s] =
                        [state |-> "kept", messages |-> chains[e].copy,
                         content |-> chains[e].content]]

(* The session of the wizard after a save that succeeded.                    *)
SessionAfter(e) == IF editors[e].ref = NoSession THEN chains[e].as ELSE wizard.session

(* The address moves to the saved session; the route looks a session up when *)
(* it has none.                                                              *)
Navigated(e, session) ==
  IF chains[e].step # "reply" \/ editors[e].name \in {wizard.url, NoSession}
  THEN [wizard EXCEPT !.session = session]
  ELSE IF session # NoSession
  THEN [wizard EXCEPT !.session = session, !.url = editors[e].name]
  ELSE [wizard EXCEPT !.url = editors[e].name, !.mode = "searching", !.shown = 0]

NextStep(e) == IF chains[e].step = "prompt" THEN "generate" ELSE "idle"

Advanced(e) ==
  chains' = [chains EXCEPT ![e] = IF NextStep(e) = "idle" THEN NoChain
                                  ELSE [@ EXCEPT !.step = NextStep(e)]]

SaveSucceeds(e) ==
  /\ chains[e].step \in {"prompt", "reply", "error"}
  /\ Writes(e)
  /\ LET session == SessionAfter(e)
         own == [editors EXCEPT ![e].isLoading = NextStep(e) # "idle", ![e].kept = TRUE,
                                ![e].ref = IF @ = NoSession THEN chains[e].as ELSE @]
     IN /\ wizard' = Navigated(e, session)
        /\ editors' = Followed(own, session)
        /\ loads' = LoadsOn(session)
  /\ Advanced(e) /\ AiWorks
  /\ UNCHANGED <<deleting, named>>

SaveFailsLocked(e) ==
  /\ chains[e].step \in {"prompt", "reply", "error"} /\ AiFails
  /\ Advanced(e)
  /\ UNCHANGED <<wizard, editors, loads, deleting, histories, named>>
(* The error is caught and logged, and the send goes on.                     *)
SaveFails(e) ==
  /\ chains[e].step \in {"prompt", "reply", "error"}
  /\ \/ AiFails /\ (Writes(e) \/ UNCHANGED histories)
     \/ InTrash(chains[e].as) /\ AiWorks /\ UNCHANGED histories
  /\ editors' = [editors EXCEPT ![e].isLoading = NextStep(e) # "idle", ![e].kept = FALSE]
  /\ Advanced(e)
  /\ UNCHANGED <<wizard, loads, deleting, named>>

RepliesAppended(e, how, content) ==
  LET all == Append(editors[e].messages,
                    [by |-> "assistant", of |-> chains[e].copy[Len(chains[e].copy)].of])
  IN Saves(e, [editors EXCEPT ![e].messages = all,
                              ![e].content = IF how = "reply" THEN content ELSE @],
           how, all, content)
Replies(e, how, content) ==
  LET n == chains[e].copy[Len(chains[e].copy)].of
      all == Append(chains[e].copy, [by |-> "assistant", of |-> n])
  IN Saves(e, [editors EXCEPT ![e].messages = all,
                              ![e].content = IF how = "reply" THEN content ELSE @],
           how, all, content)

Generated(e) ==
  /\ chains[e].step = "generate" /\ (unhurried => loads = {})
  /\ \/ Replies(e, "reply", chains[e].copy[Len(chains[e].copy)].of) /\ AiWorks
     \/ Replies(e, "error", chains[e].content) /\ AiFails
  /\ UNCHANGED <<wizard, loads, deleting, histories>>

-----------------------------------------------------------------------------
(* loadSession: the item as the server reads it, then as it arrives.         *)
LoadRead(l) ==
  /\ l \in loads /\ l.got = <<>> /\ histories[l.of].state = "kept"
  /\ loads' = (loads \ {l}) \cup {[l EXCEPT !.got = <<histories[l.of]>>]}
  /\ AiWorks /\ UNCHANGED <<wizard, editors, chains, deleting, histories, named>>

LoadsMessages(l) ==
  /\ l \in loads /\ l.got # <<>>
  /\ loads' = loads \ {l}
  /\ editors' = [editors EXCEPT ![l.at].name = l.of, ![l.at].messages = l.got[1].messages,
                                ![l.at].kept = TRUE]
  /\ AiWorks /\ UNCHANGED <<wizard, chains, deleting, histories, named>>
LoadArrives(l) ==
  /\ l \in loads /\ l.got # <<>>
  /\ loads' = loads \ {l}
  /\ editors' = [editors EXCEPT ![l.at].name = l.of, ![l.at].messages = l.got[1].messages,
                                ![l.at].content = l.got[1].content, ![l.at].kept = TRUE]
  /\ AiWorks /\ UNCHANGED <<wizard, chains, deleting, histories, named>>

LoadFails(l) ==
  /\ l \in loads /\ loads' = loads \ {l}
  /\ AiFails \/ (l.got = <<>> /\ InTrash(l.of) /\ AiWorks)
  /\ UNCHANGED <<wizard, editors, chains, deleting, histories, named>>

-----------------------------------------------------------------------------
ClearContext(e) ==
  /\ wizard.shown = e /\ Turns
  /\ editors' = [editors EXCEPT ![e].messages = <<>>, ![e].kept = FALSE]
  /\ UNCHANGED <<wizard, chains, loads, deleting, histories, named>>

DeleteSession(e) ==
  /\ wizard.shown = e /\ wizard.session # NoSession /\ editors[e].ref # NoSession
  /\ deleting[e] = NoSession /\ Turns
  /\ deleting' = [deleting EXCEPT ![e] = editors[e].ref]
  /\ UNCHANGED <<wizard, editors, chains, loads, histories, named>>

(* A session in the trash has no link left to delete, and is refused.        *)
DeletedUnlocks(e) ==
  /\ deleting[e] # NoSession /\ ~InTrash(deleting[e])
  /\ deleting' = [deleting EXCEPT ![e] = NoSession]
  /\ histories' = [histories EXCEPT ![deleting[e]].state = "trashed"]
  /\ editors' = [Followed(editors, NoSession) EXCEPT ![e] = FreshEditor(NoSession)]
  /\ wizard' = [wizard EXCEPT !.session = NoSession]
  /\ AiWorks /\ UNCHANGED <<chains, loads, named>>
Deleted(e) ==
  /\ deleting[e] # NoSession /\ ~InTrash(deleting[e])
  /\ deleting' = [deleting EXCEPT ![e] = NoSession]
  /\ histories' = [histories EXCEPT ![deleting[e]].state = "trashed"]
  /\ editors' = [Followed(editors, NoSession) EXCEPT
                   ![e] = [FreshEditor(NoSession) EXCEPT !.isLoading = editors[e].isLoading]]
  /\ wizard' = [wizard EXCEPT !.session = NoSession]
  /\ AiWorks /\ UNCHANGED <<chains, loads, named>>

(* The error is logged and the editor stays as it is, on a session that may  *)
(* be in the trash: the answer alone may have been lost.                     *)
DeletionFails(e) ==
  /\ deleting[e] # NoSession
  /\ deleting' = [deleting EXCEPT ![e] = NoSession]
  /\ \/ AiFails /\ UNCHANGED histories
     \/ /\ AiFails /\ ~InTrash(deleting[e])
        /\ histories' = [histories EXCEPT ![deleting[e]].state = "lost"]
     \/ InTrash(deleting[e]) /\ AiWorks /\ UNCHANGED histories
  /\ UNCHANGED <<wizard, editors, chains, loads, named>>

-----------------------------------------------------------------------------
(* The wizard: back to the list, a new session by way of the configuration,  *)
(* a session of the list, and the lookup of the address.                     *)
BackInPlace ==
  /\ wizard.mode = "editor" /\ Turns
  /\ wizard' = [wizard EXCEPT !.mode = "list", !.session = NoSession, !.shown = 0]
  /\ UNCHANGED <<editors, chains, loads, deleting, histories, named>>
Back ==
  /\ wizard.mode = "editor" /\ Turns
  /\ wizard' = [wizard EXCEPT !.mode = "list", !.session = NoSession, !.url = NoSession,
                             !.shown = 0]
  /\ UNCHANGED <<editors, chains, loads, deleting, histories, named>>

NewChat ==
  /\ wizard.mode = "list" /\ Turns
  /\ wizard' = [wizard EXCEPT !.mode = "config", !.session = NoSession]
  /\ UNCHANGED <<editors, chains, loads, deleting, histories, named>>

Configured ==
  /\ wizard.mode = "config" /\ Opens(wizard.session, wizard.url)
  /\ AiWorks /\ UNCHANGED <<chains, deleting, histories, named>>

OpenSession(s) ==
  /\ wizard.mode = "list" /\ histories[s].state = "kept" /\ Turns
  /\ Opens(s, s)
  /\ UNCHANGED <<chains, deleting, histories, named>>

(* A session found that names no provider or connection is configured first. *)
SessionFound ==
  /\ wizard.mode = "searching" /\ histories[wizard.url].state = "kept"
  /\ \/ Opens(wizard.url, wizard.url)
     \/ /\ wizard' = [wizard EXCEPT !.mode = "config", !.session = wizard.url]
        /\ UNCHANGED <<editors, loads>>
  /\ AiWorks /\ UNCHANGED <<chains, deleting, histories, named>>

SessionNotFound ==
  /\ wizard.mode = "searching"
  /\ (histories[wizard.url].state # "kept" /\ AiWorks) \/ AiFails
  /\ wizard' = [wizard EXCEPT !.mode = "error"]
  /\ UNCHANGED <<editors, chains, loads, deleting, histories, named>>

SendProceeds(e) == SaveSucceeds(e) \/ SaveFails(e) \/ Generated(e)
LoadProceeds == \E l \in loads : LoadRead(l) \/ LoadArrives(l) \/ LoadFails(l)

AiSessionNext ==
  \/ \E e \in Editors :
       \/ Send(e) \/ SendProceeds(e)
       \/ ClearContext(e) \/ DeleteSession(e) \/ Deleted(e) \/ DeletionFails(e)
  \/ LoadProceeds
  \/ Back \/ NewChat \/ Configured \/ SessionFound \/ SessionNotFound
  \/ \E s \in Names : OpenSession(s)

AiSessionSpec ==
  /\ AiSessionInit /\ [][AiSessionNext]_aiVars
  /\ \A e \in Editors : WF_aiVars(SendProceeds(e))
  /\ WF_aiVars(LoadProceeds)

-----------------------------------------------------------------------------
(* Every stored conversation is one a chat can have: each reply stands right *)
(* after the prompt it answers, and no prompt is there twice, whatever is    *)
(* cleared, deleted, left or loaded while a reply is awaited                 *)
(* (ManualEditor.tsx:967-1068).                                              *)
WellFormed(messages) ==
  /\ \A i \in DOMAIN messages :
       messages[i].by = "assistant" => /\ i > 1
                                       /\ messages[i - 1] = [by |-> "user", of |-> messages[i].of]
  /\ \A i, j \in DOMAIN messages :
       messages[i].by = "user" /\ messages[j] = messages[i] => i = j
ConversationsAreWhole == \A s \in Names : WellFormed(histories[s].messages)

(* With a user who waits, an editor at rest whose last save or load worked   *)
(* shows what is stored under its name: resuming the session continues it    *)
(* (ManualEditor.tsx:883-965). The session itself is there, too, unless its  *)
(* deletion was carried out and the answer lost (ManualEditor.tsx:1127-1151).*)
ShownIsStored ==
  unhurried /\ ~CallPending =>
    \A e \in Editors : wizard.shown = e /\ editors[e].kept =>
      /\ histories[editors[e].name].state \in {"kept", "lost"}
      /\ histories[editors[e].name].messages = editors[e].messages
      /\ histories[editors[e].name].content = editors[e].content

(* With a user who waits, and at most one request that fails, the address    *)
(* names the session of the editor, once it names one that is not deleted    *)
(* (ai.create.tsx:30-81). With a second failure it need not: an editor whose *)
(* load failed saves under a name of its own, and may fail to save the reply.*)
AddressIsShown ==
  unhurried /\ ~CallPending /\ aiErrors <= 1
  /\ wizard.mode = "editor" /\ editors[wizard.shown].name # NoSession
    => \/ wizard.url \in {NoSession, editors[wizard.shown].name}
       \/ InTrash(wizard.url)

(* The send button comes back, whatever fails on the way.                    *)
EditorUnlocks == \A e \in Editors : editors[e].isLoading ~> ~editors[e].isLoading

(* In a chat that was only opened and used, the conversation shown is the    *)
(* one stored. Does not hold of a slow load: the one that the first save     *)
(* starts may bring its answer after the reply and take the reply away.      *)
ReplyStaysShown ==
  turns = 1 /\ ~CallPending => \A e \in Editors : wizard.shown = e /\ editors[e].kept =>
    histories[editors[e].name].messages = editors[e].messages

(* The conversation stored is whole, is the one shown and the one addressed. *)
SessionIsRight == AiSessionTypeOK /\ ConversationsAreWhole /\ ShownIsStored /\ AddressIsShown
=============================================================================
