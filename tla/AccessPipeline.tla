--------------------------- MODULE AccessPipeline ---------------------------
(* How a change of access in MongoDB becomes a tuple of Keto: the change     *)
(* stream, which is watched without a resume token; the Redis stream, read   *)
(* by a consumer group and never re-read; and the writer. Of the three       *)
(* relations only viewers is modelled: the others are alike.                 *)
EXTENDS Naturals, FiniteSets, Sequences, SequencesExt

CONSTANTS
  Docs, People,      \* items, and the users they are shared with
  NoDoc, NoPerson,
  MaxChanges, MaxFaults   \* bounds

ASSUME AccessPipelineAssumption ==
  /\ NoDoc \notin Docs /\ NoPerson \notin People /\ Docs \cap People = {}
  /\ IsFiniteSet(Docs) /\ IsFiniteSet(People)
  /\ MaxChanges \in Nat /\ MaxFaults \in Nat

VARIABLES
  viewers,     \* access.viewers of each document
  parents,     \* links, as <<child, parent>>
  gone,        \* documents and users deleted for good
  sharedLate,  \* history: what was shared with a user already deleted
  oplog,       \* changes the watcher has still to see
  watching,
  stream,      \* stream:events beyond the last one read
  job,         \* the message being processed
  tuples,      \* viewers in Keto, as <<document, person>>
  parentTuples,
  missed,      \* documents of which an event was lost
  changes, faults

accessVars == <<viewers, parents, gone, sharedLate, oplog, watching, stream, job,
                tuples, parentTuples, missed, changes, faults>>

mongo == <<viewers, parents, gone, sharedLate>>
keto == <<tuples, parentTuples>>

-----------------------------------------------------------------------------
Event(op, d, add, remove) == [op |-> op, doc |-> d, add |-> add, remove |-> remove]
NoJob == Event("none", NoDoc, {}, {})
OfSubject(d, S) == {<<x, d>> : x \in S}

Of(d, S) == {<<d, x>> : x \in S}

(* What an event is about: a deleted user is about no one document.          *)
About(e) == IF e.doc = NoDoc THEN Docs ELSE {e.doc}

AccessPipelineInit ==
  /\ viewers = [d \in Docs |-> {}] /\ parents = {} /\ gone = {} /\ sharedLate = {}
  /\ oplog = <<>> /\ watching = TRUE
  /\ stream = <<>> /\ job = NoJob
  /\ tuples = {} /\ parentTuples = {}
  /\ missed = {} /\ changes = 0 /\ faults = 0

(* A change commits; the stream sees it only while it is watched. *)
Committed(e) ==
  /\ changes < MaxChanges /\ changes' = changes + 1
  /\ IF watching THEN oplog' = Append(oplog, e) /\ UNCHANGED missed
                 ELSE missed' = missed \cup About(e) /\ UNCHANGED oplog
  /\ UNCHANGED <<watching, stream, job, keto, faults>>

(* One update sets and removes viewers ($set, $unset). That they exist is    *)
(* not asked.                                                                *)
Patch(d, add, remove) ==
  /\ d \notin gone /\ add \cap remove = {}
  /\ add \cap viewers[d] = {} /\ remove \subseteq viewers[d]
  /\ add \cup remove # {}
  /\ viewers' = [viewers EXCEPT ![d] = (@ \cup add) \ remove]
  /\ sharedLate' = sharedLate \cup Of(d, add \cap gone)
  /\ UNCHANGED <<parents, gone>>
  /\ Committed(Event("patch", d, add, remove))

Link(d, p) ==
  /\ {d, p} \cap gone = {} /\ d # p /\ <<d, p>> \notin parents
  /\ parents' = parents \cup {<<d, p>>}
  /\ UNCHANGED <<viewers, gone, sharedLate>>
  /\ Committed(Event("link", d, {p}, {}))

Unlink(d, p) ==
  /\ <<d, p>> \in parents
  /\ parents' = parents \ {<<d, p>>}
  /\ UNCHANGED <<viewers, gone, sharedLate>>
  /\ Committed(Event("unlink", d, {p}, {}))

DeleteDoc(d) ==
  /\ d \notin gone /\ \A l \in parents : d \notin {l[1], l[2]}
  /\ gone' = gone \cup {d}
  /\ viewers' = [viewers EXCEPT ![d] = {}]
  /\ UNCHANGED <<parents, sharedLate>>
  /\ Committed(Event("delete", d, {}, {}))

(* A user is deleted; the documents keep naming it. *)
DeletePerson(x) ==
  /\ x \notin gone /\ gone' = gone \cup {x}
  /\ UNCHANGED <<viewers, parents, sharedLate>>
  /\ Committed(Event("user", NoDoc, {}, {x}))

-----------------------------------------------------------------------------
(* The watcher: a change becomes a message, or is logged and passed over     *)
(* when Redis refuses it.                                                    *)
Watch ==
  /\ watching /\ oplog # <<>>
  /\ oplog' = Tail(oplog)
  /\ stream' = Append(stream, Head(oplog))
  /\ UNCHANGED <<mongo, watching, job, keto, missed, changes, faults>>

Fault == faults < MaxFaults /\ faults' = faults + 1

RedisRefuses ==
  /\ watching /\ oplog # <<>> /\ Fault
  /\ oplog' = Tail(oplog) /\ missed' = missed \cup About(Head(oplog))
  /\ UNCHANGED <<mongo, watching, stream, job, keto, changes>>

(* It stops, and starts again at the changes made from then on. *)
WatcherStops ==
  /\ watching /\ Fault
  /\ watching' = FALSE /\ oplog' = <<>>
  /\ missed' = missed \cup UNION {About(oplog[i]) : i \in DOMAIN oplog}
  /\ UNCHANGED <<mongo, stream, job, keto, changes>>

WatcherStarts ==
  /\ ~watching /\ watching' = TRUE
  /\ UNCHANGED <<mongo, oplog, stream, job, keto, missed, changes, faults>>

-----------------------------------------------------------------------------
(* The writer: one message at a time. *)
Read ==
  /\ job = NoJob /\ stream # <<>>
  /\ job' = Head(stream) /\ stream' = Tail(stream)
  /\ UNCHANGED <<mongo, oplog, watching, keto, missed, changes, faults>>

(* process_job: a patch is one request, inserts and deletes together; the    *)
(* tuple of a removed link is looked for as a subject_id, which no tuple of  *)
(* a parent has.                                                             *)
AddedOnly(e) ==
  CASE e.op = "patch" -> tuples \cup Of(e.doc, e.add)
    [] e.op = "delete" -> {t \in tuples : t[1] # e.doc}
    [] e.op = "user" -> {t \in tuples : t[2] \notin e.remove}
    [] OTHER -> tuples

TuplesAfter(e) ==
  CASE e.op = "patch" -> (tuples \cup Of(e.doc, e.add)) \ Of(e.doc, e.remove)
    [] e.op = "delete" -> {t \in tuples : t[1] # e.doc}
    [] e.op = "user" -> {t \in tuples : t[2] \notin e.remove}
    [] OTHER -> tuples

ParentAsObject(e) ==
  CASE e.op = "link" -> parentTuples \cup OfSubject(e.doc, e.add)
    [] e.op = "delete" -> {t \in parentTuples : t[1] # e.doc}
    [] OTHER -> parentTuples

ParentTuplesAfter(e) ==
  CASE e.op = "link" -> parentTuples \cup Of(e.doc, e.add)
    [] e.op = "delete" -> {t \in parentTuples : t[1] # e.doc}
    [] OTHER -> parentTuples

ProcessUnacked ==
  /\ job # NoJob
  /\ tuples' = TuplesAfter(job) /\ parentTuples' = ParentTuplesAfter(job)
  /\ UNCHANGED <<mongo, oplog, watching, stream, job, missed, changes, faults>>

Process ==
  /\ job # NoJob /\ job' = NoJob
  /\ tuples' = TuplesAfter(job) /\ parentTuples' = ParentTuplesAfter(job)
  /\ UNCHANGED <<mongo, oplog, watching, stream, missed, changes, faults>>

(* Keto fails, or the writer is killed: the message stays pending and ">"    *)
(* reads it no more. It may have been applied before.                        *)
MessageIsLost ==
  /\ job # NoJob /\ Fault
  /\ job' = NoJob
  /\ missed' = missed \cup About(job)
  /\ \/ UNCHANGED keto
     \/ tuples' = TuplesAfter(job) /\ parentTuples' = ParentTuplesAfter(job)
  /\ UNCHANGED <<mongo, oplog, watching, stream, changes>>

Watcher == Watch \/ WatcherStarts
Writer == Read \/ Process

AccessPipelineNext ==
  \/ \E d \in Docs, add, remove \in SUBSET People : Patch(d, add, remove)
  \/ \E d, p \in Docs : Link(d, p) \/ Unlink(d, p)
  \/ \E d \in Docs : DeleteDoc(d)
  \/ \E x \in People : DeletePerson(x)
  \/ Watcher \/ RedisRefuses \/ WatcherStops
  \/ Writer \/ MessageIsLost

AccessPipelineFairness == WF_accessVars(Watcher) /\ WF_accessVars(Writer)

AccessPipelineSpec ==
  AccessPipelineInit /\ [][AccessPipelineNext]_accessVars /\ AccessPipelineFairness

-----------------------------------------------------------------------------
Drained == oplog = <<>> /\ stream = <<>> /\ job = NoJob

(* What a document grants: to a deleted user only what was shared with it    *)
(* after its deletion, which no message takes back.                          *)
Granted(d, x) ==
  d \notin gone /\ x \in viewers[d] /\ (x \in gone => <<d, x>> \in sharedLate)

AccessPipelineTypeOK ==
  /\ viewers \in [Docs -> SUBSET People] /\ parents \subseteq Docs \X Docs
  /\ tuples \subseteq Docs \X People /\ parentTuples \subseteq Docs \X Docs
  /\ gone \subseteq Docs \cup People /\ missed \subseteq Docs
  /\ sharedLate \subseteq Docs \X (People \cap gone)
  /\ watching \in BOOLEAN

(* When everything has been processed Keto grants exactly what the documents *)
(* grant, except for the documents of which an event was lost (the order of  *)
(* the stream, the patches, what deletions remove). A user's deletion takes  *)
(* every grant made before it and none made after.                           *)
GrantsConverge ==
  Drained => \A d \in Docs \ missed : \A x \in People :
     <<d, x>> \in tuples <=> Granted(d, x)

(* A document that is not deleted has the tuples of all its parents, so what *)
(* is inherited is granted.                                                  *)
ParentsAreKnown ==
  Drained => \A l \in parents : l[1] \notin missed => l \in parentTuples

(* The pipeline ends: whatever is lost or stops, every message is dealt with.*)
ChangesArrive == []<>Drained

(* "inherited from parent": the tuple of a link that was removed is gone     *)
(* (process_link_payload). The code does not keep this one.                  *)
ParentsAreForgotten ==
  Drained => \A t \in parentTuples : t[1] \notin missed => t \in parents

(* What Keto knows, once all is processed, is what the documents say.        *)
KetoAgrees == AccessPipelineTypeOK /\ GrantsConverge /\ ParentsAreKnown
=============================================================================
