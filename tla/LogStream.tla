------------------------------ MODULE LogStream ------------------------------
(* The log viewer in its paginated mode: the last page of a file, older      *)
(* pages put above it, and polling that fetches the last page again. Two     *)
(* streams may be under way: one of the tail (controllerRef) and one of an   *)
(* older page (loadMoreControllerRef). A stream that is aborted calls no     *)
(* handler any more. Lines are numbered in the order they were written.      *)
EXTENDS Naturals, Sequences, SequencesExt

CONSTANTS
  Files,      \* log files the viewer is pointed at, one after another
  Live,       \* files that are polled and still grow
  Written,    \* lines at first, by file
  MaxLines,   \* bound: lines of a file, and of what is skipped
  PageSize,
  MaxSwitches, MaxStreamErrors             \* bounds

ASSUME LogStreamAssumption ==
  /\ Live \subseteq Files
  /\ MaxLines \in Nat /\ Written \in [Files -> 0..MaxLines]
  /\ PageSize \in Nat \ {0}
  /\ MaxSwitches \in Nat /\ MaxStreamErrors \in Nat

VARIABLES
  file,         \* logFileUrl
  written,      \* lines in each file
  lines,        \* lines shown, each with its file
  hasMore, currentSkip, loadingTail, loadingMore,
  tail, older,  \* the two streams
  steady,       \* since the last reset nothing was written, no poll met an older
                \* page, no tail failed and no older page was lost
  stuck,        \* a switch aborted an older page
  switches, streamErrors

logVars == <<file, written, lines, hasMore, currentSkip, loadingTail, loadingMore,
             tail, older, steady, stuck, switches, streamErrors>>

NoStream == [at |-> "none", skip |-> 0, got |-> <<>>, more |-> FALSE]
Asked(n) == [NoStream EXCEPT !.at = "asked", !.skip = n]

(* The page of a file that ends skip lines before its end, as the server     *)
(* finds it when it reads.                                                   *)
PageBefore(f, skip) ==
  LET end == IF written[f] > skip THEN written[f] - skip ELSE 0
      start == IF end > PageSize THEN end - PageSize ELSE 0
  IN [page |-> [i \in 1..end - start |-> <<f, start + i>>], more |-> start > 0]

(* fetchLogs: the state is reset before the answer comes; the lines stay.    *)
FetchLogs ==
  /\ tail' = Asked(0)
  /\ loadingTail' = TRUE /\ hasMore' = FALSE /\ currentSkip' = 0

LogStreamInit ==
  /\ file \in Files
  /\ written = Written
  /\ lines = <<>> /\ hasMore = FALSE /\ currentSkip = 0
  /\ loadingTail = TRUE /\ loadingMore = FALSE
  /\ tail = Asked(0) /\ older = NoStream
  /\ steady = TRUE /\ stuck = FALSE
  /\ switches = 0 /\ streamErrors = 0

(* The viewer is given another file: both streams are aborted. *)
SwitchTailOnly(f) ==
  /\ f # file /\ switches < MaxSwitches
  /\ switches' = switches + 1
  /\ file' = f /\ lines' = <<>>
  /\ FetchLogs
  /\ steady' = TRUE
  /\ UNCHANGED <<written, loadingMore, older, stuck, streamErrors>>

SwitchFile(f) ==
  /\ f # file /\ switches < MaxSwitches
  /\ switches' = switches + 1
  /\ file' = f /\ lines' = <<>>
  /\ older' = NoStream
  /\ stuck' = (stuck \/ loadingMore)
  /\ FetchLogs
  /\ steady' = TRUE
  /\ UNCHANGED <<written, loadingMore, streamErrors>>

(* The viewer's own interval fires, however often: an answer that has not    *)
(* come is given up for the next.                                            *)
Poll ==
  /\ file \in Live
  /\ FetchLogs
  /\ steady' = (older.at = "none")
  /\ UNCHANGED <<file, written, lines, loadingMore, older, stuck, switches, streamErrors>>

(* A line is written. *)
Write(f) ==
  /\ f \in Live /\ written[f] < MaxLines
  /\ written' = [written EXCEPT ![f] = @ + 1]
  /\ steady' = (steady /\ f # file)
  /\ UNCHANGED <<file, lines, hasMore, currentSkip, loadingTail, loadingMore, tail, older,
                 stuck, switches, streamErrors>>

(* handleLoadMore: the button, or the top of the list reached. *)
LoadSamePage ==
  /\ hasMore /\ ~loadingMore /\ currentSkip < MaxLines
  /\ loadingMore' = TRUE
  /\ older' = Asked(currentSkip)
  /\ steady' = (steady /\ ~loadingTail)
  /\ UNCHANGED <<file, written, lines, hasMore, currentSkip, loadingTail, tail, stuck,
                 switches, streamErrors>>

LoadOlder ==
  /\ hasMore /\ ~loadingMore /\ currentSkip < MaxLines
  /\ loadingMore' = TRUE
  /\ older' = Asked(currentSkip + PageSize)
  /\ steady' = (steady /\ ~loadingTail)
  /\ UNCHANGED <<file, written, lines, hasMore, currentSkip, loadingTail, tail, stuck,
                 switches, streamErrors>>

-----------------------------------------------------------------------------
ReadFor(s) == [s EXCEPT !.at = "read", !.got = PageBefore(file, s.skip).page,
                        !.more = PageBefore(file, s.skip).more]

ServerReadsTail ==
  /\ tail.at = "asked" /\ tail' = ReadFor(tail)
  /\ UNCHANGED <<file, written, lines, hasMore, currentSkip, loadingTail, loadingMore,
                 older, steady, stuck, switches, streamErrors>>

ServerReadsOlder ==
  /\ older.at = "asked" /\ older' = ReadFor(older)
  /\ UNCHANGED <<file, written, lines, hasMore, currentSkip, loadingTail, loadingMore,
                 tail, steady, stuck, switches, streamErrors>>

(* onEvent: an empty page is no chunk. The tail replaces the lines at once;  *)
(* the older page waits for the end of its stream.                           *)
TailHeldBack ==
  /\ tail.at = "read" /\ tail' = [tail EXCEPT !.at = "chunk"]
  /\ hasMore' = IF tail.got = <<>> THEN hasMore ELSE tail.more
  /\ UNCHANGED <<file, written, lines, currentSkip, loadingTail, loadingMore, older,
                 steady, stuck, switches, streamErrors>>

TailChunk ==
  /\ tail.at = "read" /\ tail' = [tail EXCEPT !.at = "chunk"]
  /\ IF tail.got = <<>> THEN UNCHANGED <<lines, hasMore>>
     ELSE lines' = tail.got /\ hasMore' = tail.more
  /\ UNCHANGED <<file, written, currentSkip, loadingTail, loadingMore, older, steady,
                 stuck, switches, streamErrors>>

OlderChunk ==
  /\ older.at = "read" /\ older' = [older EXCEPT !.at = "chunk"]
  /\ hasMore' = IF older.got = <<>> THEN hasMore ELSE older.more
  /\ UNCHANGED <<file, written, lines, currentSkip, loadingTail, loadingMore, tail,
                 steady, stuck, switches, streamErrors>>

(* onDone *)
TailDone ==
  /\ tail.at = "chunk" /\ tail' = NoStream
  /\ loadingTail' = FALSE
  /\ UNCHANGED <<file, written, lines, hasMore, currentSkip, loadingMore, older, steady,
                 stuck, switches, streamErrors>>

OlderDone ==
  /\ older.at = "chunk" /\ older' = NoStream
  /\ currentSkip' = older.skip
  /\ lines' = older.got \o lines
  /\ loadingMore' = FALSE
  /\ UNCHANGED <<file, written, hasMore, loadingTail, tail, steady, stuck,
                 switches, streamErrors>>

(* onError. A failure in the server comes as an error event instead of the   *)
(* chunk and the stream ends in order, with onDone: of the tail the outcome  *)
(* is the same.                                                              *)
TailFailsLoading ==
  /\ tail.at # "none" /\ streamErrors < MaxStreamErrors
  /\ streamErrors' = streamErrors + 1
  /\ tail' = NoStream /\ steady' = FALSE
  /\ UNCHANGED <<file, written, lines, hasMore, currentSkip, loadingTail, loadingMore,
                 older, stuck, switches>>

TailFails ==
  /\ tail.at # "none" /\ streamErrors < MaxStreamErrors
  /\ streamErrors' = streamErrors + 1
  /\ tail' = NoStream /\ loadingTail' = FALSE
  /\ steady' = FALSE
  /\ UNCHANGED <<file, written, lines, hasMore, currentSkip, loadingMore, older, stuck,
                 switches>>

OlderFailsLoading ==
  /\ older.at # "none" /\ streamErrors < MaxStreamErrors
  /\ streamErrors' = streamErrors + 1
  /\ older' = NoStream
  /\ UNCHANGED <<file, written, lines, hasMore, currentSkip, loadingTail, loadingMore,
                 tail, steady, stuck, switches>>

OlderFails ==
  /\ older.at # "none" /\ streamErrors < MaxStreamErrors
  /\ streamErrors' = streamErrors + 1
  /\ older' = NoStream /\ loadingMore' = FALSE
  /\ UNCHANGED <<file, written, lines, hasMore, currentSkip, loadingTail, tail, steady,
                 stuck, switches>>

(* The error event in place of an older page: onDone moves the skip on all   *)
(* the same, and the page is passed over.                                    *)
OlderErrorEvent ==
  /\ older.at \in {"asked", "read"} /\ streamErrors < MaxStreamErrors
  /\ streamErrors' = streamErrors + 1
  /\ older' = NoStream /\ loadingMore' = FALSE
  /\ currentSkip' = older.skip
  /\ steady' = FALSE
  /\ UNCHANGED <<file, written, lines, hasMore, loadingTail, tail, stuck, switches>>

TailStream == ServerReadsTail \/ TailChunk \/ TailDone
OlderStream == ServerReadsOlder \/ OlderChunk \/ OlderDone

LogStreamNext ==
  \/ \E f \in Files : SwitchFile(f) \/ Write(f)
  \/ Poll \/ LoadOlder
  \/ TailStream \/ OlderStream \/ TailFails
  \/ OlderFails \/ OlderErrorEvent

LogStreamFairness == WF_logVars(TailStream) /\ WF_logVars(OlderStream)

LogStreamSpec == LogStreamInit /\ [][LogStreamNext]_logVars /\ LogStreamFairness

-----------------------------------------------------------------------------
LogStreamTypeOK ==
  /\ file \in Files /\ written \in [Files -> 0..MaxLines]
  /\ ToSet(lines) \subseteq Files \X (1..MaxLines)
  /\ {hasMore, loadingTail, loadingMore, steady, stuck} \subseteq BOOLEAN
  /\ loadingTail <=> tail.at # "none"
  /\ older.at # "none" => loadingMore

(* Only lines of the file the viewer is on are shown, whatever was still     *)
(* under way when it was switched (the cleanup of the effect on fetchLogs).  *)
OneFileShown == \A i \in DOMAIN lines : lines[i][1] = file

(* While the file does not grow, no poll met an older page and the server    *)
(* failed on none, the lines are a run of the file without gap or repetition *)
(* that ends at its end: the skip counts exactly what is shown, whatever     *)
(* requests broke off in between (handleLoadMore, fetchLogs).                *)
LinesAreATail ==
  (steady /\ lines # <<>> /\ ~loadingTail) =>
     \A i \in DOMAIN lines : lines[i] = <<file, written[file] - Len(lines) + i>>

(* "Prepend older lines above existing (chronological order maintained)"     *)
(* (handleLoadMore): the lines are in the order they were written.           *)
LinesAreInOrder ==
  \A i \in 1..Len(lines) - 1 : lines[i][2] < lines[i + 1][2]

(* Older pages do not stay out of reach: an older page that was asked for    *)
(* ends, and another can be asked for (unless a switch aborted one, which    *)
(* leaves loadingMore set for good).                                         *)
OlderPageEnds == (loadingMore /\ ~stuck) ~> (~loadingMore \/ stuck)

(* From some time on the interval finds the answer to the last poll there.   *)
AnswersBeatPolls == <>[][Poll => tail.at = "none"]_logVars

(* A file that has lines shows some when its stream has ended without error, *)
(* if answers come before the next poll: fetchLogs gives up the one under    *)
(* way, so slower answers are never shown.                                   *)
TailArrives ==
  AnswersBeatPolls =>
    ((loadingTail /\ streamErrors = 0) ~>
       (streamErrors > 0 \/ (~loadingTail /\ (written[file] > 0 => lines # <<>>))))

(* The lines shown are of the file shown, and its end.                       *)
LogIsRight == LogStreamTypeOK /\ OneFileShown /\ LinesAreATail
=============================================================================
