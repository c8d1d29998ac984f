--------------------------- MODULE FrontendProofs ---------------------------
(* Theorems about the frontend, for any order of its requests and answers:   *)
(* the log viewer (LogStream), the open item and its tabs (ItemView), the form *)
(* that creates and edits tasks (TaskForm), the chat of the AI editor          *)
(* (AiSession) and the folder tree of the Browse screen (SidebarTree).         *)
EXTENDS LogStream, ItemView, TaskForm, AiSession, SidebarTree, FiniteSetTheorems,
        SequenceTheorems, WellFoundedInduction, TLAPS

-----------------------------------------------------------------------------
(* Lists                                                                     *)

(* A sequence without its element i: those after it move up.                 *)
LEMMA RemovedAt ==
  ASSUME NEW S, NEW s \in Seq(S), NEW i \in 1..Len(s)
  PROVE  /\ RemoveAt(s, i) \in Seq(S) /\ Len(RemoveAt(s, i)) = Len(s) - 1
         /\ \A j \in 1..(Len(s) - 1) : RemoveAt(s, i)[j] = s[IF j < i THEN j ELSE j + 1]
<1>. DEFINE n == Len(s)
            before == SubSeq(s, 1, i - 1)
            after == SubSeq(s, i + 1, n)
            left == RemoveAt(s, i)
<1>1. n \in Nat /\ i \in 1..n
  OBVIOUS
<1>2. before \in Seq(S) /\ Len(before) = i - 1 /\ \A j \in 1..(i - 1) : before[j] = s[j]
  BY <1>1
<1>3. after \in Seq(S) /\ Len(after) = n - i /\ \A j \in 1..(n - i) : after[j] = s[i + j]
  BY <1>1
<1>4. left = before \o after
  BY DEF RemoveAt, n
<1>. HIDE DEF before, after, left, n
<1>5. left \in Seq(S) /\ Len(left) = n - 1
  <2>1. left \in Seq(S) /\ Len(left) = Len(before) + Len(after)
    BY <1>2, <1>3, <1>4, ConcatProperties
  <2>2. (i - 1) + (n - i) = n - 1
    BY <1>1
  <2>. QED BY <2>1, <2>2, <1>2, <1>3
<1>6. ASSUME NEW j \in 1..(n - 1) PROVE left[j] = s[IF j < i THEN j ELSE j + 1]
  <2>1. CASE j < i
    <3>1. j \in 1..Len(before)
      BY <1>1, <1>2, <2>1
    <3>2. left[j] = before[j]
      BY <3>1, <1>2, <1>3, <1>4, ConcatProperties
    <3>. QED BY <3>1, <3>2, <2>1, <1>1, <1>2
  <2>2. CASE ~(j < i)
    <3>1. j - (i - 1) \in 1..(n - i) /\ i + (j - (i - 1)) = j + 1
      BY <1>1, <2>2
    <3>2. /\ j \in 1..(Len(before) + Len(after)) /\ ~(j <= Len(before))
          /\ j - Len(before) = j - (i - 1)
      BY <2>2, <1>1, <1>2, <1>3
    <3>3. (before \o after)[j] = after[j - Len(before)]
      BY <3>2, <1>2, <1>3, ConcatProperties, Zenon
    <3>4. left[j] = after[j - (i - 1)]
      BY <3>2, <3>3, <1>4
    <3>5. after[j - (i - 1)] = s[i + (j - (i - 1))]
      BY <3>1, <1>3
    <3>6. left[j] = s[j + 1]
      BY <3>1, <3>4, <3>5
    <3>. QED BY <3>6, <2>2
  <2>. QED BY <2>1, <2>2
<1>. QED BY <1>5, <1>6 DEF left, n

-----------------------------------------------------------------------------
(* The log viewer (LogStream)                                                *)

Streams == [at : {"none", "asked", "read", "chunk"}, skip : Nat,
            got : Seq(Files \X Nat), more : BOOLEAN]

(* Lines of the first n of a file; the run of them that ends with line n;    *)
(* and what a stream that was read has, its page of the file.                *)
OfFile(f, n, s) == s \in Seq({f} \X (1..n))
EndsAt(f, n, s) == \A i \in DOMAIN s : s[i] = <<f, n - Len(s) + i>>

HasPage(f, n, s) ==
  s.at \in {"read", "chunk"} =>
    /\ s.more <=> n > s.skip + PageSize
    /\ n > s.skip => /\ Len(s.got) = IF n > s.skip + PageSize THEN PageSize ELSE n - s.skip
                     /\ EndsAt(f, n - s.skip, s.got)

LogTypes ==
  /\ file \in Files /\ written \in [Files -> 0..MaxLines]
  /\ tail \in Streams /\ older \in Streams /\ currentSkip \in Nat
  /\ OfFile(file, written[file], lines)
  /\ OfFile(file, written[file], tail.got) /\ OfFile(file, written[file], older.got)
  /\ {hasMore, loadingTail, loadingMore, steady, stuck} \subseteq BOOLEAN
  /\ loadingTail <=> tail.at # "none"
  /\ older.at # "none" => loadingMore

(* While the viewer is steady: the skip counts what is shown, and what is    *)
(* older is just before it.                                                  *)
MoreBefore ==
  Len(lines) = currentSkip + PageSize /\ written[file] > Len(lines)

SteadyView ==
  /\ HasPage(file, written[file], tail) /\ HasPage(file, written[file], older) /\ tail.skip = 0
  /\ tail.at # "none" => older.at = "none" /\ currentSkip = 0
  /\ tail.at \in {"asked", "read"} => ~hasMore
  /\ tail.at \in {"none", "chunk"} => EndsAt(file, written[file], lines) /\ (hasMore => MoreBefore)
  /\ older.at # "none" => MoreBefore /\ older.skip = Len(lines)
  /\ older.at = "chunk" => (hasMore <=> older.more)

LogInv == LogTypes /\ (steady => SteadyView)

(* The page before the last skip lines of the file.                          *)
LEMMA PageIs ==
  ASSUME LogTypes, NEW skip \in Nat
  PROVE  /\ OfFile(file, written[file], PageBefore(file, skip).page)
         /\ PageBefore(file, skip).more \in BOOLEAN
         /\ PageBefore(file, skip).more <=> written[file] > skip + PageSize
         /\ written[file] > skip =>
              /\ Len(PageBefore(file, skip).page)
                   = IF written[file] > skip + PageSize THEN PageSize ELSE written[file] - skip
              /\ EndsAt(file, written[file] - skip, PageBefore(file, skip).page)
<1>. DEFINE w == written[file]
            end == IF w > skip THEN w - skip ELSE 0
            start == IF end > PageSize THEN end - PageSize ELSE 0
            n == end - start
            page == [i \in 1..n |-> <<file, start + i>>]
<1>1. w \in Nat /\ PageSize \in Nat /\ PageSize > 0
  BY LogStreamAssumption DEF LogTypes
<1>2. PageBefore(file, skip) = [page |-> page, more |-> start > 0]
  BY DEF PageBefore
<1>. HIDE DEF w
<1>3. /\ end \in Nat /\ start \in Nat /\ n \in Nat /\ start + n = end /\ end <= w
      /\ start > 0 <=> w > skip + PageSize
      /\ w > skip => /\ n = IF w > skip + PageSize THEN PageSize ELSE w - skip
                     /\ start = w - skip - n
  BY <1>1
<1>. HIDE DEF end, start, n
<1>4. \A i \in 1..n : start + i \in 1..w
  BY <1>1, <1>3
<1>5. page \in Seq({file} \X (1..w)) /\ Len(page) = n /\ DOMAIN page = 1..n
  BY <1>3, <1>4
<1>6. OfFile(file, w, page)
  BY <1>5 DEF OfFile, w
<1>7. PageBefore(file, skip).page = page /\ PageBefore(file, skip).more = (start > 0)
  BY <1>2
<1>8. \A i \in 1..n : page[i] = <<file, start + i>>
  OBVIOUS
<1>. HIDE DEF page
<1>9. w > skip => /\ Len(page) = IF w > skip + PageSize THEN PageSize ELSE w - skip
                 /\ EndsAt(file, w - skip, page)
  BY <1>3, <1>5, <1>8 DEF EndsAt
<1>10. (start > 0) \in BOOLEAN
  OBVIOUS
<1>. DEFINE b == start > 0
<1>11. b <=> w > skip + PageSize
  BY <1>3
<1>. HIDE DEF b
<1>. QED BY <1>6, <1>7, <1>9, <1>10, <1>11 DEF w, b

(* What a stream that is read has got.                                       *)
LEMMA ReadHasPage ==
  ASSUME LogTypes, NEW s \in Streams
  PROVE  /\ ReadFor(s) \in Streams /\ ReadFor(s).at = "read" /\ ReadFor(s).skip = s.skip
         /\ OfFile(file, written[file], ReadFor(s).got) /\ HasPage(file, written[file], ReadFor(s))
<1>1. s.skip \in Nat
  BY DEF Streams
<1>2. /\ OfFile(file, written[file], PageBefore(file, s.skip).page)
      /\ PageBefore(file, s.skip).more \in BOOLEAN
  BY <1>1, PageIs
<1>3. PageBefore(file, s.skip).page \in Seq(Files \X Nat)
  BY <1>2 DEF OfFile, LogTypes
<1>. DEFINE p == PageBefore(file, s.skip)
<1>. HIDE DEF p
<1>4. ReadFor(s) = [s EXCEPT !.at = "read", !.got = p.page, !.more = p.more]
  BY DEF ReadFor, p
<1>5. /\ ReadFor(s) \in Streams /\ ReadFor(s).at = "read" /\ ReadFor(s).skip = s.skip
      /\ ReadFor(s).got = p.page /\ ReadFor(s).more = p.more
  BY <1>2, <1>3, <1>4 DEF Streams, p
<1>6. HasPage(file, written[file], ReadFor(s))
  <2>. DEFINE n == written[file]
              r == ReadFor(s)
  <2>1. /\ p.more <=> n > s.skip + PageSize
        /\ n > s.skip => /\ Len(p.page) = IF n > s.skip + PageSize THEN PageSize ELSE n - s.skip
                         /\ EndsAt(file, n - s.skip, p.page)
    BY <1>1, PageIs DEF p
  <2>. HIDE DEF n, r
  <2>. QED BY <1>5, <2>1 DEF HasPage, n, r
<1>. QED BY <1>2, <1>5, <1>6 DEF p

(* A stream that is asked for has nothing yet.                               *)
LEMMA AskedIs ==
  ASSUME NEW n \in Nat
  PROVE  /\ Asked(n) \in Streams /\ NoStream \in Streams
         /\ Asked(n).at = "asked" /\ Asked(n).skip = n /\ Asked(n).got = <<>>
         /\ NoStream.at = "none" /\ NoStream.skip = 0 /\ NoStream.got = <<>>
<1>1. NoStream = [at |-> "none", skip |-> 0, got |-> <<>>, more |-> FALSE]
  BY DEF NoStream
<1>2. NoStream \in Streams
  <2>1. <<>> \in Seq(Files \X Nat)
    OBVIOUS
  <2>. QED BY <1>1, <2>1 DEF Streams
<1>3. NoStream.at = "none" /\ NoStream.skip = 0 /\ NoStream.got = <<>>
  BY <1>1
<1>4. /\ Asked(n) \in Streams /\ Asked(n).at = "asked" /\ Asked(n).skip = n
      /\ Asked(n).got = NoStream.got
  BY <1>2 DEF Asked, Streams
<1>. QED BY <1>2, <1>3, <1>4

(* No lines are lines of any file.                                           *)
LEMMA NoLines ==
  ASSUME NEW f, NEW n \in Nat
  PROVE  OfFile(f, n, <<>>)
  BY DEF OfFile

(* Lines of a file are lines of it when it has grown.                        *)
LEMMA FileGrows ==
  ASSUME NEW f, NEW n \in Nat, NEW m \in Nat, n <= m, NEW s, OfFile(f, n, s)
  PROVE  OfFile(f, m, s)
<1>1. {f} \X (1..n) \subseteq {f} \X (1..m)
  OBVIOUS
<1>. QED BY <1>1 DEF OfFile

(* What is put above the lines ends where they begin.                        *)
LEMMA PutAbove ==
  ASSUME NEW f, NEW n \in Nat, NEW g, NEW l, OfFile(f, n, g), OfFile(f, n, l)
  PROVE  /\ OfFile(f, n, g \o l) /\ Len(g \o l) = Len(g) + Len(l)
         /\ EndsAt(f, n - Len(l), g) /\ EndsAt(f, n, l) => EndsAt(f, n, g \o l)
<1>. DEFINE S == {f} \X (1..n)
<1>1. g \in Seq(S) /\ l \in Seq(S)
  BY DEF OfFile
<1>. HIDE DEF S
<1>2. g \o l \in Seq(S) /\ Len(g \o l) = Len(g) + Len(l)
  BY <1>1
<1>3. ASSUME EndsAt(f, n - Len(l), g), EndsAt(f, n, l) PROVE EndsAt(f, n, g \o l)
  <2>. SUFFICES ASSUME NEW i \in DOMAIN (g \o l)
                PROVE  (g \o l)[i] = <<f, n - Len(g \o l) + i>>
    BY DEF EndsAt
  <2>1. /\ i \in 1..Len(g) + Len(l) /\ Len(g) \in Nat /\ Len(l) \in Nat
        /\ DOMAIN g = 1..Len(g) /\ DOMAIN l = 1..Len(l)
    BY <1>1, <1>2
  <2>2. CASE i <= Len(g)
    <3>1. (g \o l)[i] = g[i] /\ i \in DOMAIN g
      BY <1>1, <2>1, <2>2
    <3>2. g[i] = <<f, (n - Len(l)) - Len(g) + i>>
      BY <1>3, <3>1 DEF EndsAt
    <3>. QED BY <1>2, <2>1, <3>1, <3>2
  <2>3. CASE i > Len(g)
    <3>1. (g \o l)[i] = l[i - Len(g)] /\ i - Len(g) \in DOMAIN l
      BY <1>1, <2>1, <2>3
    <3>2. l[i - Len(g)] = <<f, n - Len(l) + (i - Len(g))>>
      BY <1>3, <3>1 DEF EndsAt
    <3>. QED BY <1>2, <2>1, <3>1, <3>2
  <2>. QED BY <2>1, <2>2, <2>3
<1>. QED BY <1>2, <1>3 DEF OfFile, S

-----------------------------------------------------------------------------

(* The numbers of a typed viewer.                                            *)
LEMMA LogTypesGive ==
  ASSUME LogTypes
  PROVE  /\ written[file] \in Nat /\ PageSize \in Nat \ {0} /\ MaxLines \in Nat
         /\ \A f \in Files : written[f] \in Nat
         /\ Len(lines) \in Nat /\ Len(tail.got) \in Nat /\ Len(older.got) \in Nat
  BY LogStreamAssumption DEF LogTypes, OfFile

(* The viewer opens another file, or polls.                                  *)
LEMMA FetchKeeps ==
  ASSUME LogInv, \/ \E f \in Files : SwitchFile(f)
                 \/ Poll
  PROVE  LogInv'
<1>1. /\ Asked(0) \in Streams /\ NoStream \in Streams
      /\ Asked(0).at = "asked" /\ Asked(0).skip = 0 /\ Asked(0).got = <<>>
      /\ NoStream.at = "none" /\ NoStream.skip = 0 /\ NoStream.got = <<>>
  BY AskedIs
<1>2. ASSUME NEW f \in Files, SwitchFile(f) PROVE LogInv'
  <2>1. /\ file' = f /\ lines' = <<>> /\ tail' = Asked(0) /\ older' = NoStream
        /\ loadingTail' = TRUE /\ hasMore' = FALSE /\ currentSkip' = 0 /\ steady' = TRUE
        /\ stuck' = (stuck \/ loadingMore) /\ UNCHANGED <<written, loadingMore>>
    BY <1>2 DEF SwitchFile, FetchLogs
  <2>2. OfFile(f, written[f], <<>>)
    BY NoLines, LogTypesGive DEF LogInv
  <2>3. LogTypes'
    BY <1>1, <2>1, <2>2 DEF LogInv, LogTypes
  <2>4. SteadyView'
    BY <1>1, <2>1 DEF SteadyView, HasPage
  <2>. QED BY <2>3, <2>4 DEF LogInv
<1>3. CASE Poll
  <2>1. /\ tail' = Asked(0) /\ loadingTail' = TRUE /\ hasMore' = FALSE /\ currentSkip' = 0
        /\ steady' = (older.at = "none")
        /\ UNCHANGED <<file, written, lines, loadingMore, older, stuck>>
    BY <1>3 DEF Poll, FetchLogs
  <2>2. OfFile(file, written[file], <<>>)
    BY NoLines, LogTypesGive DEF LogInv
  <2>3. LogTypes'
    BY <1>1, <2>1, <2>2 DEF LogInv, LogTypes
  <2>4. steady' => SteadyView'
    BY <1>1, <2>1 DEF SteadyView, HasPage
  <2>. QED BY <2>3, <2>4 DEF LogInv
<1>. QED BY <1>2, <1>3

(* A process writes a line to a log file.                                    *)
LEMMA WriteKeeps ==
  ASSUME LogInv, NEW f \in Files, Write(f)
  PROVE  LogInv'
<1>1. /\ f \in Files /\ written[f] < MaxLines /\ written' = [written EXCEPT ![f] = @ + 1]
      /\ steady' = (steady /\ f # file)
      /\ UNCHANGED <<file, lines, hasMore, currentSkip, loadingTail, loadingMore, tail, older,
                     stuck>>
  BY DEF Write
<1>2. /\ written \in [Files -> 0..MaxLines] /\ MaxLines \in Nat /\ file \in Files
  BY LogStreamAssumption DEF LogInv, LogTypes
<1>3. /\ written' \in [Files -> 0..MaxLines]
      /\ written[file] \in Nat /\ written'[file] \in Nat /\ written[file] <= written'[file]
      /\ f # file => written'[file] = written[file]
  BY <1>1, <1>2
<1>4. \A s : OfFile(file, written[file], s) => OfFile(file, written'[file], s)
  BY <1>3, FileGrows
<1>5. LogTypes'
  BY <1>1, <1>3, <1>4 DEF LogInv, LogTypes
<1>6. steady' => SteadyView'
  BY <1>1, <1>3 DEF LogInv, SteadyView, MoreBefore
<1>. QED BY <1>5, <1>6 DEF LogInv

(* The stream of the last lines: read, received, ended or broken off.        *)
LEMMA TailKeeps ==
  ASSUME LogInv, ServerReadsTail \/ TailChunk \/ TailDone \/ TailFails
  PROVE  LogInv'
<1>0. /\ tail \in Streams /\ older \in Streams /\ written[file] \in Nat
      /\ PageSize \in Nat \ {0} /\ NoStream \in Streams
      /\ NoStream.at = "none" /\ NoStream.skip = 0 /\ NoStream.got = <<>>
      /\ OfFile(file, written[file], <<>>)
  BY LogTypesGive, NoLines, AskedIs DEF LogInv, LogTypes
<1>1. CASE ServerReadsTail
  <2>1. /\ tail.at = "asked" /\ tail' = ReadFor(tail)
        /\ UNCHANGED <<file, written, lines, hasMore, currentSkip, loadingTail, loadingMore,
                       older, steady, stuck>>
    BY <1>1 DEF ServerReadsTail
  <2>2. /\ tail' \in Streams /\ tail'.at = "read" /\ tail'.skip = tail.skip
        /\ OfFile(file, written[file], tail'.got) /\ HasPage(file, written[file], tail')
    BY <1>0, <2>1, ReadHasPage DEF LogInv
  <2>3. LogTypes'
    BY <2>1, <2>2 DEF LogInv, LogTypes
  <2>4. steady' => SteadyView'
    BY <2>1, <2>2 DEF LogInv, SteadyView, MoreBefore
  <2>. QED BY <2>3, <2>4 DEF LogInv
<1>2. CASE TailChunk
  <2>1. /\ tail.at = "read" /\ tail' = [tail EXCEPT !.at = "chunk"]
        /\ IF tail.got = <<>> THEN UNCHANGED <<lines, hasMore>>
           ELSE lines' = tail.got /\ hasMore' = tail.more
        /\ UNCHANGED <<file, written, currentSkip, loadingTail, loadingMore, older, steady, stuck>>
    BY <1>2 DEF TailChunk
  <2>2. /\ tail' \in Streams /\ tail'.at = "chunk" /\ tail'.skip = tail.skip
        /\ tail'.got = tail.got /\ tail'.more = tail.more /\ tail.more \in BOOLEAN
    BY <1>0, <2>1 DEF Streams
  <2>3. LogTypes'
    BY <2>1, <2>2 DEF LogInv, LogTypes
  <2>4. ASSUME steady PROVE SteadyView'
    <3>1. /\ HasPage(file, written[file], tail) /\ tail.skip = 0 /\ ~hasMore
          /\ older.at = "none" /\ currentSkip = 0
      BY <2>1, <2>4 DEF LogInv, SteadyView
    <3>2. EndsAt(file, written[file], lines') /\ (hasMore' => MoreBefore')
      <4>1. CASE written[file] > 0
        <5>1. /\ tail.more <=> written[file] > PageSize
              /\ Len(tail.got) = IF written[file] > PageSize THEN PageSize ELSE written[file]
              /\ EndsAt(file, written[file], tail.got)
          BY <1>0, <2>1, <3>1, <4>1 DEF HasPage
        <5>2. tail.got # <<>>
          BY <1>0, <4>1, <5>1
        <5>. QED BY <1>0, <2>1, <3>1, <5>1, <5>2 DEF MoreBefore
      <4>2. CASE written[file] = 0
        <5>1. tail.got = <<>> /\ lines = <<>>
          <6>1. {file} \X (1..written[file]) = {}
            BY <4>2
          <6>. QED BY <6>1 DEF LogInv, LogTypes, OfFile
        <5>. QED BY <2>1, <3>1, <5>1 DEF EndsAt
      <4>. QED BY <1>0, <4>1, <4>2
    <3>3. HasPage(file, written[file], tail')
      BY <2>1, <2>2, <3>1 DEF HasPage
    <3>4. HasPage(file, written[file], older)
      BY <3>1 DEF HasPage
    <3>. QED BY <2>1, <2>2, <3>1, <3>2, <3>3, <3>4 DEF SteadyView
  <2>. QED BY <2>1, <2>3, <2>4 DEF LogInv
<1>3. CASE TailDone
  <2>1. /\ tail.at = "chunk" /\ tail' = NoStream /\ loadingTail' = FALSE
        /\ UNCHANGED <<file, written, lines, hasMore, currentSkip, loadingMore, older, steady,
                       stuck>>
    BY <1>3 DEF TailDone
  <2>2. LogTypes'
    BY <1>0, <2>1 DEF LogInv, LogTypes
  <2>3. steady' => SteadyView'
    BY <1>0, <2>1 DEF LogInv, SteadyView, MoreBefore, HasPage
  <2>. QED BY <2>2, <2>3 DEF LogInv
<1>4. CASE TailFails
  <2>1. /\ tail' = NoStream /\ loadingTail' = FALSE /\ steady' = FALSE
        /\ UNCHANGED <<file, written, lines, hasMore, currentSkip, loadingMore, older, stuck>>
    BY <1>4 DEF TailFails
  <2>2. LogTypes'
    BY <1>0, <2>1 DEF LogInv, LogTypes
  <2>. QED BY <2>1, <2>2 DEF LogInv
<1>. QED BY <1>1, <1>2, <1>3, <1>4

(* The stream of older lines: asked for, read, received, ended, broken off.  *)
LEMMA OlderKeeps ==
  ASSUME LogInv, LoadOlder \/ ServerReadsOlder \/ OlderChunk \/ OlderDone \/ OlderFails
         \/ OlderErrorEvent
  PROVE  LogInv'
<1>0. /\ tail \in Streams /\ older \in Streams /\ written[file] \in Nat
      /\ PageSize \in Nat \ {0} /\ NoStream \in Streams /\ currentSkip \in Nat
      /\ NoStream.at = "none" /\ NoStream.skip = 0 /\ NoStream.got = <<>>
      /\ OfFile(file, written[file], <<>>)
      /\ loadingTail <=> tail.at # "none"
      /\ tail.at \in {"none", "asked", "read", "chunk"}
  BY LogTypesGive, NoLines, AskedIs DEF LogInv, LogTypes, Streams
<1>1. CASE LoadOlder
  <2>1. /\ hasMore /\ ~loadingMore /\ loadingMore' = TRUE
        /\ older' = Asked(currentSkip + PageSize) /\ steady' = (steady /\ ~loadingTail)
        /\ UNCHANGED <<file, written, lines, hasMore, currentSkip, loadingTail, tail, stuck>>
    BY <1>1 DEF LoadOlder
  <2>2. /\ older' \in Streams /\ older'.at = "asked" /\ older'.skip = currentSkip + PageSize
        /\ older'.got = <<>>
    BY <1>0, <2>1, AskedIs
  <2>3. LogTypes'
    BY <1>0, <2>1, <2>2 DEF LogInv, LogTypes
  <2>4. steady' => SteadyView'
    BY <1>0, <2>1, <2>2 DEF LogInv, SteadyView, MoreBefore, HasPage
  <2>. QED BY <2>3, <2>4 DEF LogInv
<1>2. CASE ServerReadsOlder
  <2>1. /\ older.at = "asked" /\ older' = ReadFor(older)
        /\ UNCHANGED <<file, written, lines, hasMore, currentSkip, loadingTail, loadingMore,
                       tail, steady, stuck>>
    BY <1>2 DEF ServerReadsOlder
  <2>2. /\ older' \in Streams /\ older'.at = "read" /\ older'.skip = older.skip
        /\ OfFile(file, written[file], older'.got) /\ HasPage(file, written[file], older')
    BY <1>0, <2>1, ReadHasPage DEF LogInv
  <2>3. LogTypes'
    BY <2>1, <2>2 DEF LogInv, LogTypes
  <2>4. steady' => SteadyView'
    BY <2>1, <2>2 DEF LogInv, SteadyView, MoreBefore
  <2>. QED BY <2>3, <2>4 DEF LogInv
<1>3. CASE OlderChunk
  <2>1. /\ older.at = "read" /\ older' = [older EXCEPT !.at = "chunk"]
        /\ hasMore' = IF older.got = <<>> THEN hasMore ELSE older.more
        /\ UNCHANGED <<file, written, lines, currentSkip, loadingTail, loadingMore, tail,
                       steady, stuck>>
    BY <1>3 DEF OlderChunk
  <2>2. /\ older' \in Streams /\ older'.at = "chunk" /\ older'.skip = older.skip
        /\ older'.got = older.got /\ older'.more = older.more /\ older.more \in BOOLEAN
    BY <1>0, <2>1 DEF Streams
  <2>3. LogTypes'
    BY <2>1, <2>2 DEF LogInv, LogTypes
  <2>4. ASSUME steady PROVE SteadyView'
    <3>1. /\ HasPage(file, written[file], older) /\ MoreBefore /\ older.skip = Len(lines)
          /\ tail.at = "none" /\ EndsAt(file, written[file], lines)
          /\ HasPage(file, written[file], tail) /\ tail.skip = 0
      BY <1>0, <2>1, <2>4 DEF LogInv, SteadyView
    <3>2. older.got # <<>>
      BY <1>0, <2>1, <2>2, <3>1 DEF HasPage, MoreBefore, Streams
    <3>3. HasPage(file, written[file], older')
      BY <2>1, <2>2, <3>1 DEF HasPage
    <3>4. hasMore' = older.more
      BY <2>1, <3>2
    <3>5. MoreBefore'
      BY <2>1, <3>1 DEF MoreBefore
    <3>. QED BY <2>1, <2>2, <3>1, <3>3, <3>4, <3>5 DEF SteadyView
  <2>. QED BY <2>1, <2>3, <2>4 DEF LogInv
<1>4. CASE OlderDone
  <2>1. /\ older.at = "chunk" /\ older' = NoStream /\ currentSkip' = older.skip
        /\ lines' = older.got \o lines /\ loadingMore' = FALSE
        /\ UNCHANGED <<file, written, hasMore, loadingTail, tail, steady, stuck>>
    BY <1>4 DEF OlderDone
  <2>2. /\ OfFile(file, written[file], lines') /\ Len(lines') = Len(older.got) + Len(lines)
        /\ EndsAt(file, written[file] - Len(lines), older.got) /\ EndsAt(file, written[file], lines)
             => EndsAt(file, written[file], lines')
    BY <1>0, <2>1, PutAbove DEF LogInv, LogTypes
  <2>3. older.skip \in Nat
    BY <1>0 DEF Streams
  <2>4. LogTypes'
    BY <1>0, <2>1, <2>2, <2>3 DEF LogInv, LogTypes
  <2>5. ASSUME steady PROVE SteadyView'
    <3>1. /\ HasPage(file, written[file], older) /\ MoreBefore /\ older.skip = Len(lines)
          /\ tail.at = "none" /\ EndsAt(file, written[file], lines)
          /\ tail.skip = 0 /\ (hasMore <=> older.more)
      BY <1>0, <2>1, <2>5 DEF LogInv, SteadyView
    <3>2. /\ EndsAt(file, written[file] - Len(lines), older.got)
          /\ older.more <=> written[file] > older.skip + PageSize
          /\ older.more => Len(older.got) = PageSize
      BY <1>0, <2>1, <2>3, <3>1 DEF HasPage, MoreBefore
    <3>3. EndsAt(file, written[file], lines')
      BY <2>2, <3>1, <3>2
    <3>4. ASSUME hasMore' PROVE MoreBefore'
      <4>1. hasMore
        BY <2>1, <3>4
      <4>2. older.more
        BY <3>1, <4>1
      <4>3. /\ written[file] > older.skip + PageSize /\ Len(older.got) = PageSize
            /\ older.skip = Len(lines)
        BY <3>1, <3>2, <4>2
      <4>4. Len(lines') = PageSize + older.skip
        BY <2>2, <4>3
      <4>5. Len(lines') = currentSkip' + PageSize /\ written'[file'] > Len(lines')
        BY <1>0, <2>1, <2>3, <4>3, <4>4
      <4>. QED BY <4>5 DEF MoreBefore
    <3>. QED BY <1>0, <2>1, <3>1, <3>3, <3>4 DEF SteadyView, HasPage
  <2>. QED BY <2>1, <2>4, <2>5 DEF LogInv
<1>5. CASE OlderFails
  <2>1. /\ older' = NoStream /\ loadingMore' = FALSE
        /\ UNCHANGED <<file, written, lines, hasMore, currentSkip, loadingTail, tail, steady,
                       stuck>>
    BY <1>5 DEF OlderFails
  <2>2. LogTypes'
    BY <1>0, <2>1 DEF LogInv, LogTypes
  <2>3. steady' => SteadyView'
    BY <1>0, <2>1 DEF LogInv, SteadyView, MoreBefore, HasPage
  <2>. QED BY <2>2, <2>3 DEF LogInv
<1>6. CASE OlderErrorEvent
  <2>1. /\ older' = NoStream /\ loadingMore' = FALSE /\ currentSkip' = older.skip
        /\ steady' = FALSE
        /\ UNCHANGED <<file, written, lines, hasMore, loadingTail, tail, stuck>>
    BY <1>6 DEF OlderErrorEvent
  <2>2. older.skip \in Nat
    BY <1>0 DEF Streams
  <2>3. LogTypes'
    BY <1>0, <2>1, <2>2 DEF LogInv, LogTypes
  <2>. QED BY <2>1, <2>3 DEF LogInv
<1>. QED BY <1>1, <1>2, <1>3, <1>4, <1>5, <1>6

(* The viewer shows lines of its file only, and while it is steady a run of  *)
(* them that ends with the last, for any files, pages, polls, switches and   *)
(* failures.                                                                 *)
THEOREM LogIsAlwaysRight == LogStreamSpec => []LogIsRight
<1>1. LogStreamInit => LogInv
  <2>. SUFFICES ASSUME LogStreamInit PROVE LogInv
    OBVIOUS
  <2>1. written \in [Files -> 0..MaxLines] /\ file \in Files /\ written[file] \in Nat
    BY LogStreamAssumption DEF LogStreamInit
  <2>2. /\ Asked(0) \in Streams /\ NoStream \in Streams
        /\ Asked(0).at = "asked" /\ Asked(0).skip = 0 /\ Asked(0).got = <<>>
        /\ NoStream.at = "none" /\ NoStream.skip = 0 /\ NoStream.got = <<>>
    BY AskedIs
  <2>3. OfFile(file, written[file], <<>>)
    BY <2>1, NoLines
  <2>4. LogTypes
    BY <2>1, <2>2, <2>3 DEF LogStreamInit, LogTypes
  <2>5. SteadyView
    BY <2>2 DEF LogStreamInit, SteadyView, HasPage
  <2>. QED BY <2>4, <2>5 DEF LogInv
<1>2. LogInv /\ [LogStreamNext]_logVars => LogInv'
  <2>. SUFFICES ASSUME LogInv, [LogStreamNext]_logVars PROVE LogInv'
    OBVIOUS
  <2>1. CASE UNCHANGED logVars
    <3>1. UNCHANGED <<file, written, lines, hasMore, currentSkip, loadingTail, loadingMore,
                      tail, older, steady, stuck>>
      BY <2>1 DEF logVars
    <3>. QED BY <3>1 DEF LogInv, LogTypes, SteadyView, MoreBefore
  <2>. QED BY <2>1, FetchKeeps, WriteKeeps, TailKeeps, OlderKeeps
           DEF LogStreamNext, TailStream, OlderStream
<1>3. LogInv => LogIsRight
  <2>. SUFFICES ASSUME LogInv PROVE LogIsRight
    OBVIOUS
  <2>1. /\ written[file] \in Nat /\ written[file] <= MaxLines /\ MaxLines \in Nat /\ file \in Files
    BY LogStreamAssumption DEF LogInv, LogTypes
  <2>2. \A i \in DOMAIN lines : lines[i] \in {file} \X (1..written[file])
    BY DEF LogInv, LogTypes, OfFile
  <2>3. ToSet(lines) \subseteq Files \X (1..MaxLines)
    BY <2>1, <2>2 DEF ToSet
  <2>4. LogStreamTypeOK
    BY <2>3 DEF LogInv, LogTypes, LogStreamTypeOK
  <2>5. OneFileShown
    BY <2>2 DEF OneFileShown
  <2>6. LinesAreATail
    BY DEF LinesAreATail, LogInv, LogTypes, SteadyView, EndsAt
  <2>. QED BY <2>4, <2>5, <2>6 DEF LogIsRight
<1>. QED BY <1>1, <1>2, <1>3, PTL DEF LogStreamSpec

-----------------------------------------------------------------------------
(* The open item and its tabs (ItemView)                                     *)

Places == Leaves \cup Boxes
NamedBy == Places \cup {Nil}
Urls == [laui : NamedBy, page : Nat]

(* What a handler under way has.                                             *)
CallTypes == [do : {"rest", "view", "list", "meta", "kids"}, of : NamedBy, page : Nat,
              link : BOOLEAN, push : BOOLEAN]
Handles(c) ==
  \/ c = Rest
  \/ c.do = "view" /\ c.of \in Leaves
  \/ c.do = "list" /\ c.of \in Boxes /\ c.page > 0
  \/ c.do \in {"meta", "kids"} /\ c.of \in Places

ThreadsHandle(th) == th \in [Threads -> CallTypes] /\ \A k \in Threads : Handles(th[k])

BrowserTypes(h, p, r) == h \in Seq(Urls) /\ p \in 1..Len(h) /\ r \in NamedBy
TabTypes(t) == t \in Seq(Leaves) /\ IsInjective(t) /\ Len(t) <= MaxTabs
PaneTypes(v, c, o, from, n, last) ==
  /\ v \in NamedBy /\ c \in NamedBy
  /\ {o, from, last} \subseteq Boxes \cup {Nil}
  /\ n \in Nat /\ (from \in Boxes <=> n > 0)

ViewTypes ==
  /\ BrowserTypes(history, position, resolved)
  /\ TabTypes(tabs)
  /\ PaneTypes(viewing, chosen, opened, listFrom, listPage, lastFrom)
  /\ ThreadsHandle(thread)
  /\ {notFound, editor, calm, astray} \subseteq BOOLEAN
  /\ moves \in Nat /\ errors \in Nat

(* Of a user who waits, while no request has failed: one handler is under    *)
(* way at most. Settled, the view is what the URL names, whose resolution is *)
(* remembered, and the list kept is that of the folder that is open.         *)
TabIsOpen(u, t) == u \in Leaves => u \in ToSet(t)
ShownIs(e, v, c, from) == IF e THEN v ELSE IF c \in Boxes THEN c ELSE from
ListIsOpen(from, o, c) == from # Nil => from = o /\ (c \in Boxes => c = o)

SettledView(u, r, t, e, v, c, o, from, stray) ==
  /\ r = u
  /\ ~stray /\ u # Nil => ShownIs(e, v, c, from) = u
  /\ TabIsOpen(u, t)
  /\ ListIsOpen(from, o, c)

(* While a handler is under way: where it leads, and what is so already.     *)
Leads(call, u, r, t, e, o, from, stray) ==
  /\ call.do = "view" =>
       call.of = u /\ r = u /\ TabIsOpen(u, t) /\ from \in {Nil, o}
  /\ call.do = "list" =>
       /\ ~e
       /\ ~call.push =>
            /\ TabIsOpen(u, t)
            /\ call.link => call.of = u
            /\ ~call.link => r = u /\ (~stray /\ u # Nil => call.of = u)
  /\ call.do \in {"meta", "kids"} => call.of = u /\ call.link /\ ~call.push

OneAtATime(th) ==
  \A k, l \in Threads : th[k] # Rest /\ th[l] # Rest => k = l

CalmView ==
  /\ OneAtATime(thread)
  /\ Settled =>
       SettledView(Here.laui, resolved, tabs, editor, viewing, chosen, opened, listFrom, astray)
  /\ \A k \in Threads : thread[k] # Rest =>
       Leads(thread[k], Here.laui, resolved, tabs, editor, opened, listFrom, astray)

ViewInv == ViewTypes /\ (calm /\ errors = 0 => CalmView)

-----------------------------------------------------------------------------
(* Going to a URL that is the current one leaves the history; any other is   *)
(* put after the current one.                                                *)
LEMMA PushedIsThere ==
  ASSUME BrowserTypes(history, position, resolved), NEW u \in Urls
  PROVE  /\ Pushed(u) \in Seq(Urls) /\ PushedAt(u) \in 1..Len(Pushed(u))
         /\ Pushed(u)[PushedAt(u)] = u
<1>1. history \in Seq(Urls) /\ position \in 1..Len(history)
  BY DEF BrowserTypes
<1>2. CASE u = Here
  BY <1>1, <1>2 DEF Pushed, PushedAt, Here
<1>3. CASE u # Here
  <2>. DEFINE remaining == SubSeq(history, 1, position)
  <2>1. remaining \in Seq(Urls) /\ Len(remaining) = position
    BY <1>1, SubSeqProperties
  <2>. HIDE DEF remaining
  <2>2. /\ Append(remaining, u) \in Seq(Urls) /\ Len(Append(remaining, u)) = position + 1
        /\ Append(remaining, u)[position + 1] = u
    BY <2>1, <1>1, AppendProperties
  <2>3. Pushed(u) = Append(remaining, u) /\ PushedAt(u) = position + 1
    BY <1>3 DEF Pushed, PushedAt, remaining
  <2>. QED BY <2>2, <2>3, <1>1
<1>. QED BY <1>2, <1>3

(* The current URL is a URL.                                                 *)
LEMMA HereIsUrl ==
  ASSUME BrowserTypes(history, position, resolved)
  PROVE  Here \in Urls /\ Here.laui \in NamedBy
<1>1. Here \in Urls
  BY DEF BrowserTypes, Here
<1>. QED BY <1>1 DEF Urls

(* A tab at the end of others: the item has it, no item has two.             *)
LEMMA TabAdded ==
  ASSUME NEW t \in Seq(Leaves), IsInjective(t), Len(t) < MaxTabs,
         NEW x \in Leaves, x \notin ToSet(t)
  PROVE  TabTypes(Append(t, x)) /\ x \in ToSet(Append(t, x))
<1>. DEFINE s == Append(t, x)
<1>1. /\ s \in Seq(Leaves) /\ Len(s) = Len(t) + 1 /\ s[Len(s)] = x
      /\ \A i \in 1..Len(t) : s[i] = t[i]
  BY AppendProperties
<1>. HIDE DEF s
<1>2. Len(t) \in Nat /\ DOMAIN t = 1..Len(t) /\ DOMAIN s = 1..Len(s)
  BY <1>1
<1>3. \A i \in DOMAIN t : t[i] # x
  BY DEF ToSet
<1>4. ASSUME NEW i \in DOMAIN s, NEW j \in DOMAIN s, s[i] = s[j] PROVE i = j
  <2>1. i \in DOMAIN t \/ i = Len(s)
    BY <1>1, <1>2
  <2>2. j \in DOMAIN t \/ j = Len(s)
    BY <1>1, <1>2
  <2>3. CASE i \in DOMAIN t /\ j \in DOMAIN t
    BY <2>3, <1>1, <1>2, <1>4 DEF IsInjective
  <2>4. CASE i = Len(s) /\ j \in DOMAIN t
    BY <2>4, <1>1, <1>2, <1>3, <1>4
  <2>5. CASE i \in DOMAIN t /\ j = Len(s)
    BY <2>5, <1>1, <1>2, <1>3, <1>4
  <2>. QED BY <2>1, <2>2, <2>3, <2>4, <2>5
<1>5. IsInjective(s)
  BY <1>4 DEF IsInjective
<1>6. Len(s) <= MaxTabs
  BY <1>1, <1>2, ItemViewAssumption
<1>7. x \in ToSet(s)
  BY <1>1, <1>2 DEF ToSet
<1>. QED BY <1>1, <1>5, <1>6, <1>7 DEF TabTypes, s

(* Opening an item leaves the tabs well formed, and the item has one.        *)
LEMMA TabIsAdded ==
  ASSUME TabTypes(tabs), NEW x \in Leaves
  PROVE  TabTypes(WithTab(x)) /\ x \in ToSet(WithTab(x))
<1>1. tabs \in Seq(Leaves) /\ IsInjective(tabs) /\ Len(tabs) <= MaxTabs /\ Len(tabs) \in Nat
  BY DEF TabTypes
<1>2. CASE x \in ToSet(tabs)
  BY <1>2 DEF WithTab
<1>3. CASE x \notin ToSet(tabs) /\ Len(tabs) >= MaxTabs
  <2>1. MaxTabs \in Nat /\ MaxTabs > 0
    BY ItemViewAssumption
  <2>2. tabs # <<>>
    BY <1>1, <1>3, <2>1
  <2>3. /\ Tail(tabs) \in Seq(Leaves) /\ Len(Tail(tabs)) = Len(tabs) - 1
        /\ \A i \in 1..Len(Tail(tabs)) : Tail(tabs)[i] = tabs[i + 1]
    BY <1>1, <2>2, HeadTailProperties
  <2>4. IsInjective(Tail(tabs))
    <3>. SUFFICES ASSUME NEW i \in DOMAIN Tail(tabs), NEW j \in DOMAIN Tail(tabs),
                         Tail(tabs)[i] = Tail(tabs)[j]
                  PROVE  i = j
      BY DEF IsInjective
    <3>1. i \in 1..(Len(tabs) - 1) /\ j \in 1..(Len(tabs) - 1)
      BY <2>3
    <3>2. i + 1 \in DOMAIN tabs /\ j + 1 \in DOMAIN tabs
      BY <3>1, <1>1
    <3>3. tabs[i + 1] = tabs[j + 1]
      BY <3>1, <2>3
    <3>4. i + 1 = j + 1
      BY <3>2, <3>3, <1>1 DEF IsInjective
    <3>. QED BY <3>4, <3>1
  <2>5. x \notin ToSet(Tail(tabs))
    <3>. SUFFICES ASSUME NEW i \in DOMAIN Tail(tabs) PROVE Tail(tabs)[i] # x
      BY DEF ToSet
    <3>1. i \in 1..(Len(tabs) - 1)
      BY <2>3
    <3>2. i + 1 \in DOMAIN tabs /\ Tail(tabs)[i] = tabs[i + 1]
      BY <3>1, <1>1, <2>3
    <3>. QED BY <3>2, <1>3 DEF ToSet
  <2>6. Len(Tail(tabs)) < MaxTabs
    BY <1>1, <2>1, <2>3
  <2>7. WithTab(x) = Append(Tail(tabs), x)
    BY <1>3 DEF WithTab
  <2>. QED BY <2>3, <2>4, <2>5, <2>6, <2>7, TabAdded
<1>4. CASE x \notin ToSet(tabs) /\ ~(Len(tabs) >= MaxTabs)
  <2>1. Len(tabs) < MaxTabs
    BY <1>1, <1>4, ItemViewAssumption
  <2>. QED BY <1>1, <1>4, <2>1, TabAdded DEF WithTab
<1>. QED BY <1>2, <1>3, <1>4

(* Without the tab of x: the others, in their order.                         *)
LEMMA TabIsRemoved ==
  ASSUME TabTypes(tabs), NEW i \in DOMAIN tabs
  PROVE  LET left == RemoveAt(tabs, i)
         IN /\ TabTypes(left) /\ Len(left) = Len(tabs) - 1
            /\ \A y \in ToSet(tabs) : y # tabs[i] => y \in ToSet(left)
            /\ tabs[i] \notin ToSet(left)
<1>. DEFINE n == Len(tabs)
            left == RemoveAt(tabs, i)
            At(j) == IF j < i THEN j ELSE j + 1
<1>1. /\ tabs \in Seq(Leaves) /\ IsInjective(tabs) /\ n <= MaxTabs /\ n \in Nat /\ i \in 1..n
      /\ DOMAIN tabs = 1..n
  BY DEF TabTypes
<1>2. /\ left \in Seq(Leaves) /\ Len(left) = n - 1
      /\ \A j \in 1..(n - 1) : left[j] = tabs[At(j)]
  BY <1>1, RemovedAt DEF n, left
<1>. HIDE DEF left, n
<1>5. left \in Seq(Leaves) /\ Len(left) = n - 1
  BY <1>2
<1>6. ASSUME NEW j \in 1..(n - 1) PROVE left[j] = tabs[At(j)] /\ At(j) \in 1..n /\ At(j) # i
  BY <1>1, <1>2
<1>7. DOMAIN left = 1..(n - 1)
  BY <1>5, <1>1
<1>8. IsInjective(left)
  <2>. SUFFICES ASSUME NEW j \in DOMAIN left, NEW k \in DOMAIN left, left[j] = left[k]
                PROVE  j = k
    BY DEF IsInjective
  <2>1. j \in 1..(n - 1) /\ k \in 1..(n - 1)
    BY <1>7
  <2>2. At(j) \in DOMAIN tabs /\ At(k) \in DOMAIN tabs /\ tabs[At(j)] = tabs[At(k)]
    BY <2>1, <1>1, <1>6
  <2>3. At(j) = At(k)
    BY <2>2, <1>1 DEF IsInjective
  <2>. QED BY <2>1, <2>3, <1>1
<1>9. tabs[i] \notin ToSet(left)
  <2>. SUFFICES ASSUME NEW j \in DOMAIN left PROVE left[j] # tabs[i]
    BY DEF ToSet
  <2>. QED BY <1>1, <1>6, <1>7 DEF IsInjective
<1>10. ASSUME NEW y \in ToSet(tabs), y # tabs[i] PROVE y \in ToSet(left)
  <2>1. PICK j \in 1..n : tabs[j] = y
    BY <1>1 DEF ToSet
  <2>2. j # i
    BY <2>1, <1>10
  <2>3. PICK k \in 1..(n - 1) : At(k) = j
    <3>1. CASE j < i
      <4>1. j \in 1..(n - 1) /\ At(j) = j
        BY <3>1, <1>1
      <4>. QED BY <4>1
    <3>2. CASE ~(j < i)
      <4>1. j - 1 \in 1..(n - 1) /\ At(j - 1) = j
        BY <3>2, <2>2, <1>1
      <4>. QED BY <4>1
    <3>. QED BY <3>1, <3>2
  <2>4. left[k] = y
    BY <2>1, <2>3, <1>6
  <2>. QED BY <2>4, <1>7 DEF ToSet
<1>11. Len(left) = Len(tabs) - 1
  BY <1>5 DEF n
<1>12. Len(left) <= MaxTabs
  BY <1>1, <1>5, ItemViewAssumption
<1>. QED BY <1>1, <1>5, <1>8, <1>9, <1>10, <1>11, <1>12 DEF TabTypes, left

-----------------------------------------------------------------------------
(* For a user who waits, one of two states: settled, or one handler at work. *)
LEMMA SettledIsCalm ==
  ASSUME \A k \in Threads : thread'[k] = Rest,
         SettledView(Here.laui, resolved, tabs, editor, viewing, chosen, opened, listFrom, astray)'
  PROVE  CalmView'
BY DEF CalmView, OneAtATime

(* One handler at work that leads to the right view.                         *)
LEMMA AtWorkIsCalm ==
  ASSUME NEW k \in Threads, thread'[k] # Rest, \A l \in Threads \ {k} : thread'[l] = Rest,
         Leads(thread[k], Here.laui, resolved, tabs, editor, opened, listFrom, astray)'
  PROVE  CalmView'
<1>1. ~Settled'
  BY DEF Settled, Free
<1>2. OneAtATime(thread')
  BY DEF OneAtATime
<1>3. \A l \in Threads : thread'[l] # Rest =>
        Leads(thread[l], Here.laui, resolved, tabs, editor, opened, listFrom, astray)'
  OBVIOUS
<1>. QED BY <1>1, <1>2, <1>3 DEF CalmView

(* Where a user who waits moves: all handlers rest, and the view is right.   *)
LEMMA CalmMoves ==
  ASSUME ViewInv, Moves, calm, errors = 0
  PROVE  /\ \A k \in Threads : thread[k] = Rest
         /\ SettledView(Here.laui, resolved, tabs, editor, viewing, chosen, opened, listFrom,
                        astray)
<1>1. Settled
  BY DEF Moves
<1>. QED BY <1>1 DEF ViewInv, CalmView, Settled, Free

(* What the only handler at work of a user who waits leads to.               *)
LEMMA CalmWorks ==
  ASSUME ViewInv, calm, errors = 0, NEW k \in Threads, thread[k] # Rest
  PROVE  /\ \A l \in Threads \ {k} : thread[l] = Rest
         /\ Leads(thread[k], Here.laui, resolved, tabs, editor, opened, listFrom, astray)
BY DEF ViewInv, CalmView, OneAtATime

(* What every act of the user leaves.                                        *)
LEMMA MovesTypes ==
  ASSUME ViewTypes, Moves
  PROVE  moves' \in Nat /\ errors' = errors /\ calm' = calm
BY DEF ViewTypes, Moves

(* A handler starts.                                                         *)
LEMMA BeginsHandles ==
  ASSUME ThreadsHandle(thread), NEW k \in Threads, NEW c \in CallTypes, Handles(c)
  PROVE  ThreadsHandle([thread EXCEPT ![k] = c])
BY DEF ThreadsHandle

(* A thread with nothing to do.                                              *)
LEMMA RestHandles == Rest \in CallTypes /\ Handles(Rest)
BY DEF Rest, CallTypes, Handles, NamedBy

-----------------------------------------------------------------------------
(* The URL changes by itself.                                                *)
LEMMA ArrivesKeeps ==
  ASSUME ViewInv, Moves, NEW k \in Threads, NEW h, NEW p, BrowserTypes(h, p, resolved),
         Arrives(k, h, p), TabTypes(tabs'),
         calm /\ errors = 0 /\ (h[p].laui = Here.laui \/ tabs' # tabs) =>
           TabIsOpen(h[p].laui, tabs')
  PROVE  ViewInv'
<1>. DEFINE u == h[p]
            meta == Calls("meta", u.laui, u.page, TRUE, FALSE)
<1>1. ViewTypes /\ BrowserTypes(history, position, resolved)
  BY DEF ViewInv, ViewTypes
<1>2. u \in Urls /\ u.laui \in NamedBy /\ u.page \in Nat
  <2>1. u \in Urls
    BY DEF BrowserTypes
  <2>. QED BY <2>1 DEF Urls
<1>3. /\ history' = h /\ position' = p /\ Here' = u
      /\ astray' = (astray /\ u.laui = Here.laui) /\ UNCHANGED pane
  BY DEF Arrives, Here
<1>4. /\ viewing' = viewing /\ editor' = editor /\ chosen' = chosen /\ opened' = opened
      /\ listFrom' = listFrom /\ listPage' = listPage /\ lastFrom' = lastFrom
  BY <1>3 DEF pane
<1>5. moves' \in Nat /\ errors' = errors /\ calm' = calm
  BY <1>1, MovesTypes
<1>6. CASE u.laui = Nil
  <2>1. resolved' = Nil /\ notFound' = FALSE /\ thread' = thread
    BY <1>6 DEF Arrives
  <2>2. BrowserTypes(history', position', resolved')
    BY <1>3, <2>1 DEF BrowserTypes, NamedBy
  <2>3. ViewTypes'
    BY <1>1, <1>3, <1>4, <1>5, <2>1, <2>2 DEF ViewTypes
  <2>4. ASSUME calm, errors = 0 PROVE CalmView'
    <3>1. /\ \A l \in Threads : thread'[l] = Rest
          /\ SettledView(Here.laui, resolved, tabs, editor, viewing, chosen, opened, listFrom,
                         astray)
      BY <2>1, <2>4, CalmMoves
    <3>2. TabIsOpen(u.laui, tabs')
      BY <1>6, ItemViewAssumption DEF TabIsOpen
    <3>3. SettledView(Here.laui, resolved, tabs, editor, viewing, chosen, opened, listFrom, astray)'
      BY <1>3, <1>4, <1>6, <2>1, <3>1, <3>2 DEF SettledView
    <3>. QED BY <3>1, <3>3, SettledIsCalm
  <2>. QED BY <1>5, <2>3, <2>4 DEF ViewInv
<1>7. CASE u.laui # Nil /\ (u.laui = resolved \/ u = Here)
  <2>1. resolved' = resolved /\ notFound' = notFound /\ thread' = thread
    BY <1>7 DEF Arrives
  <2>2. ViewTypes'
    BY <1>1, <1>3, <1>4, <1>5, <2>1 DEF ViewTypes
  <2>3. ASSUME calm, errors = 0 PROVE CalmView'
    <3>1. /\ \A l \in Threads : thread'[l] = Rest
          /\ SettledView(Here.laui, resolved, tabs, editor, viewing, chosen, opened, listFrom,
                         astray)
      BY <2>1, <2>3, CalmMoves
    <3>2. u.laui = Here.laui /\ resolved = Here.laui
      BY <1>7, <3>1 DEF SettledView
    <3>3. TabIsOpen(u.laui, tabs')
      BY <2>3, <3>2
    <3>4. SettledView(Here.laui, resolved, tabs, editor, viewing, chosen, opened, listFrom, astray)'
      BY <1>3, <1>4, <2>1, <3>1, <3>2, <3>3 DEF SettledView
    <3>. QED BY <3>1, <3>4, SettledIsCalm
  <2>. QED BY <1>5, <2>2, <2>3 DEF ViewInv
<1>8. CASE u.laui # Nil /\ ~(u.laui = resolved \/ u = Here)
  <2>1. /\ resolved' = resolved /\ notFound' = notFound
        /\ k \in Free /\ thread' = [thread EXCEPT ![k] = meta]
    BY <1>8 DEF Arrives, Begins
  <2>2. meta \in CallTypes /\ Handles(meta) /\ meta # Rest
    BY <1>2, <1>8 DEF Calls, CallTypes, Handles, Rest, NamedBy
  <2>. HIDE DEF meta
  <2>3. ThreadsHandle(thread')
    BY <1>1, <2>1, <2>2, BeginsHandles DEF ViewTypes
  <2>4. ViewTypes'
    BY <1>1, <1>3, <1>4, <1>5, <2>1, <2>3 DEF ViewTypes
  <2>5. ASSUME calm, errors = 0 PROVE CalmView'
    <3>1. \A l \in Threads : thread[l] = Rest
      BY <2>5, CalmMoves
    <3>2. thread'[k] = meta /\ \A l \in Threads \ {k} : thread'[l] = Rest
      BY <1>1, <2>1, <3>1 DEF ViewTypes, ThreadsHandle
    <3>3. Leads(thread[k], Here.laui, resolved, tabs, editor, opened, listFrom, astray)'
      BY <1>3, <3>2 DEF Leads, meta, Calls
    <3>. QED BY <2>2, <3>2, <3>3, AtWorkIsCalm
  <2>. QED BY <1>5, <2>4, <2>5 DEF ViewInv
<1>. QED BY <1>6, <1>7, <1>8

(* A tab is clicked.                                                         *)
LEMMA ClickTabKeeps ==
  ASSUME ViewInv, NEW k \in Threads, NEW x \in Leaves, ClickTab(k, x)
  PROVE  ViewInv'
<1>1. Url(x, 0) \in Urls /\ Url(x, 0).laui = x
  BY DEF Url, Urls, NamedBy, Places
<1>2. BrowserTypes(Pushed(Url(x, 0)), PushedAt(Url(x, 0)), resolved)
  BY <1>1, PushedIsThere DEF ViewInv, ViewTypes, BrowserTypes
<1>3. Pushed(Url(x, 0))[PushedAt(Url(x, 0))] = Url(x, 0)
  BY <1>1, PushedIsThere DEF ViewInv, ViewTypes
<1>4. /\ Moves /\ Arrives(k, Pushed(Url(x, 0)), PushedAt(Url(x, 0)))
      /\ tabs' = tabs /\ x \in ToSet(tabs)
  BY DEF ClickTab
<1>5. TabTypes(tabs') /\ TabIsOpen(x, tabs')
  BY <1>4 DEF ViewInv, ViewTypes, TabIsOpen
<1>. QED BY <1>1, <1>2, <1>3, <1>4, <1>5, ArrivesKeeps

(* All tabs are closed.                                                      *)
LEMMA CloseAllTabsKeeps ==
  ASSUME ViewInv, NEW k \in Threads, CloseAllTabs(k)
  PROVE  ViewInv'
<1>1. Url(Nil, 0) \in Urls /\ Url(Nil, 0).laui = Nil
  BY DEF Url, Urls, NamedBy
<1>2. BrowserTypes(Pushed(Url(Nil, 0)), PushedAt(Url(Nil, 0)), resolved)
  BY <1>1, PushedIsThere DEF ViewInv, ViewTypes, BrowserTypes
<1>3. Pushed(Url(Nil, 0))[PushedAt(Url(Nil, 0))] = Url(Nil, 0)
  BY <1>1, PushedIsThere DEF ViewInv, ViewTypes
<1>4. Moves /\ Arrives(k, Pushed(Url(Nil, 0)), PushedAt(Url(Nil, 0))) /\ tabs' = <<>>
  BY DEF CloseAllTabs
<1>5. <<>> \in Seq(Leaves) /\ Len(<<>>) = 0
  OBVIOUS
<1>6. TabTypes(tabs')
  BY <1>4, <1>5, ItemViewAssumption DEF TabTypes, IsInjective
<1>7. TabIsOpen(Nil, tabs')
  BY ItemViewAssumption DEF TabIsOpen
<1>. QED BY <1>1, <1>2, <1>3, <1>4, <1>6, <1>7, ArrivesKeeps

(* Back and forward in the history of the browser.                           *)
LEMMA TravelKeeps ==
  ASSUME ViewInv, NEW k \in Threads, NEW p \in 1..Len(history), Travel(k, p)
  PROVE  ViewInv'
<1>1. Moves /\ Arrives(k, history, p) /\ tabs' = tabs
  BY DEF Travel
<1>2. BrowserTypes(history, p, resolved) /\ TabTypes(tabs')
  BY <1>1 DEF ViewInv, ViewTypes, BrowserTypes
<1>3. ASSUME calm, errors = 0, history[p].laui = Here.laui PROVE TabIsOpen(history[p].laui, tabs')
  BY <1>1, <1>3, CalmMoves DEF SettledView
<1>. QED BY <1>1, <1>2, <1>3, ArrivesKeeps

(* The tab of the URL is closed: the URL goes to a tab that is left.         *)
LEMMA CloseTabKeeps ==
  ASSUME ViewInv, NEW k \in Threads, NEW x \in Leaves, CloseTab(k, x)
  PROVE  ViewInv'
<1>. DEFINE i == CHOOSE j \in DOMAIN tabs : tabs[j] = x
            left == RemoveAt(tabs, i)
            next == IF left = <<>> THEN Nil
                    ELSE IF i <= Len(left) THEN left[i] ELSE left[i - 1]
            u == Url(next, 0)
<1>1. /\ Moves /\ x \in ToSet(tabs) /\ tabs' = left
      /\ IF x = Here.laui
           THEN Arrives(k, Pushed(u), PushedAt(u))
           ELSE UNCHANGED <<browser, notFound, pane, thread, astray>>
  BY DEF CloseTab
<1>2. ViewTypes /\ TabTypes(tabs) /\ tabs \in Seq(Leaves)
  BY DEF ViewInv, ViewTypes, TabTypes
<1>3. i \in DOMAIN tabs /\ tabs[i] = x
  BY <1>1 DEF ToSet
<1>. HIDE DEF i
<1>4. /\ TabTypes(left) /\ Len(left) = Len(tabs) - 1
      /\ \A y \in ToSet(tabs) : y # x => y \in ToSet(left)
  BY <1>2, <1>3, TabIsRemoved
<1>5. left \in Seq(Leaves) /\ DOMAIN left = 1..Len(left) /\ Len(left) \in Nat
  BY <1>4 DEF TabTypes
<1>. HIDE DEF left
<1>6. next = Nil \/ (next \in Leaves /\ next \in ToSet(left))
  <2>1. CASE left # <<>> /\ i <= Len(left)
    <3>1. i \in DOMAIN left
      BY <1>2, <1>3, <1>5, <2>1
    <3>. QED BY <2>1, <3>1, <1>5 DEF ToSet
  <2>2. CASE left # <<>> /\ ~(i <= Len(left))
    <3>1. i - 1 = Len(left) /\ Len(left) # 0
      BY <1>2, <1>3, <1>4, <1>5, <2>2
    <3>2. i - 1 \in DOMAIN left
      BY <1>5, <3>1
    <3>. QED BY <2>2, <3>2, <1>5 DEF ToSet
  <2>. QED BY <2>1, <2>2
<1>7. u \in Urls /\ u.laui = next
  BY <1>6 DEF Url, Urls, NamedBy, Places
<1>8. TabIsOpen(next, left)
  BY <1>6, ItemViewAssumption DEF TabIsOpen
<1>. HIDE DEF next
<1>9. CASE x = Here.laui
  <2>1. BrowserTypes(Pushed(u), PushedAt(u), resolved) /\ Pushed(u)[PushedAt(u)] = u
    BY <1>2, <1>7, PushedIsThere DEF ViewTypes, BrowserTypes
  <2>2. Arrives(k, Pushed(u), PushedAt(u))
    BY <1>1, <1>9
  <2>. HIDE DEF u
  <2>. QED BY <1>1, <1>4, <1>7, <1>8, <2>1, <2>2, ArrivesKeeps
<1>10. CASE x # Here.laui
  <2>1. UNCHANGED <<history, position, resolved, notFound, viewing, editor, chosen, opened,
                    listFrom, listPage, lastFrom, thread, astray>>
    BY <1>1, <1>10 DEF browser, pane
  <2>2. moves' \in Nat /\ errors' = errors /\ calm' = calm
    BY <1>1, <1>2, MovesTypes
  <2>3. ViewTypes'
    BY <1>1, <1>2, <1>4, <2>1, <2>2 DEF ViewTypes
  <2>4. ASSUME calm, errors = 0 PROVE CalmView'
    <3>1. /\ \A l \in Threads : thread'[l] = Rest
          /\ SettledView(Here.laui, resolved, tabs, editor, viewing, chosen, opened, listFrom,
                         astray)
      BY <1>1, <2>1, <2>4, CalmMoves
    <3>2. Here' = Here
      BY <2>1 DEF Here
    <3>3. TabIsOpen(Here.laui, left)
      BY <1>4, <1>10, <3>1 DEF SettledView, TabIsOpen
    <3>4. SettledView(Here.laui, resolved, tabs, editor, viewing, chosen, opened, listFrom, astray)'
      BY <1>1, <2>1, <3>1, <3>2, <3>3 DEF SettledView
    <3>. QED BY <3>1, <3>4, SettledIsCalm
  <2>. QED BY <2>2, <2>3, <2>4 DEF ViewInv
<1>. QED BY <1>9, <1>10

-----------------------------------------------------------------------------
(* The view goes first, the URL after it.                                    *)
LEMMA NavigatesThere ==
  ASSUME BrowserTypes(history, position, resolved), NEW u \in Urls, NavigatesTo(u)
  PROVE  BrowserTypes(history, position, resolved)' /\ Here' = u /\ resolved' = u.laui
<1>1. /\ history' = Pushed(u) /\ position' = PushedAt(u) /\ resolved' = u.laui
  BY DEF NavigatesTo
<1>2. u.laui \in NamedBy
  BY DEF Urls
<1>. QED BY <1>1, <1>2, PushedIsThere DEF BrowserTypes, Here

(* A row of a list is opened.                                                *)
LEMMA OpenRowKeeps ==
  ASSUME ViewInv, NEW k \in Threads, NEW x \in Leaves, OpenRow(k, x)
  PROVE  ViewInv'
<1>. DEFINE view == Calls("view", x, 0, FALSE, FALSE)
<1>1. /\ Moves /\ NavigatesTo(Url(x, 0)) /\ tabs' = WithTab(x)
      /\ thread' = [thread EXCEPT ![k] = view] /\ astray' = FALSE
      /\ notFound' = notFound /\ UNCHANGED pane
  BY DEF OpenRow, ViewsItem
<1>2. /\ viewing' = viewing /\ editor' = editor /\ chosen' = chosen /\ opened' = opened
      /\ listFrom' = listFrom /\ listPage' = listPage /\ lastFrom' = lastFrom
  BY <1>1 DEF pane
<1>3. ViewTypes /\ BrowserTypes(history, position, resolved) /\ TabTypes(tabs)
  BY DEF ViewInv, ViewTypes
<1>4. Url(x, 0) \in Urls /\ Url(x, 0).laui = x
  BY DEF Url, Urls, NamedBy, Places
<1>5. BrowserTypes(history, position, resolved)' /\ Here'.laui = x /\ resolved' = x
  BY <1>1, <1>3, <1>4, NavigatesThere
<1>6. TabTypes(tabs') /\ TabIsOpen(x, tabs')
  BY <1>1, <1>3, TabIsAdded DEF TabIsOpen
<1>7. view \in CallTypes /\ Handles(view) /\ view # Rest
  BY DEF Calls, CallTypes, Handles, Rest, NamedBy, Places
<1>8. view.do = "view" /\ view.of = x
  BY DEF Calls
<1>. HIDE DEF view
<1>9. moves' \in Nat /\ errors' = errors /\ calm' = calm
  BY <1>1, <1>3, MovesTypes
<1>10. ThreadsHandle(thread')
  BY <1>1, <1>3, <1>7, BeginsHandles DEF ViewTypes
<1>11. ViewTypes'
  BY <1>1, <1>2, <1>3, <1>5, <1>6, <1>9, <1>10 DEF ViewTypes
<1>12. ASSUME calm, errors = 0 PROVE CalmView'
  <2>1. /\ \A l \in Threads : thread[l] = Rest
        /\ SettledView(Here.laui, resolved, tabs, editor, viewing, chosen, opened, listFrom, astray)
    BY <1>1, <1>12, CalmMoves
  <2>2. thread'[k] = view /\ \A l \in Threads \ {k} : thread'[l] = Rest
    BY <1>1, <1>3, <2>1 DEF ViewTypes, ThreadsHandle
  <2>3. listFrom \in {Nil, opened}
    BY <2>1 DEF SettledView, ListIsOpen
  <2>4. Leads(thread[k], Here.laui, resolved, tabs, editor, opened, listFrom, astray)'
    BY <1>2, <1>5, <1>6, <1>8, <2>2, <2>3 DEF Leads
  <2>. QED BY <1>7, <2>2, <2>4, AtWorkIsCalm
<1>. QED BY <1>9, <1>11, <1>12 DEF ViewInv

(* A folder of the tree is selected.                                         *)
LEMMA SelectBoxKeeps ==
  ASSUME ViewInv, NEW b \in Boxes, SelectBox(b)
  PROVE  ViewInv'
<1>1. /\ Moves /\ viewing' = Nil /\ editor' = FALSE /\ chosen' = b /\ opened' = b
      /\ NavigatesTo(Url(b, 0)) /\ astray' = FALSE
      /\ notFound' = notFound /\ tabs' = tabs /\ thread' = thread
  BY DEF SelectBox
<1>2. \/ /\ b \in {chosen, opened}
         /\ listFrom' = listFrom /\ listPage' = listPage /\ lastFrom' = lastFrom
      \/ listFrom' = Nil /\ listPage' = 0 /\ lastFrom' = Nil
  BY DEF SelectBox
<1>3. ViewTypes /\ BrowserTypes(history, position, resolved) /\ TabTypes(tabs)
      /\ PaneTypes(viewing, chosen, opened, listFrom, listPage, lastFrom)
  BY DEF ViewInv, ViewTypes
<1>4. Url(b, 0) \in Urls /\ Url(b, 0).laui = b
  BY DEF Url, Urls, NamedBy, Places
<1>5. BrowserTypes(history, position, resolved)' /\ Here'.laui = b /\ resolved' = b
  BY <1>1, <1>3, <1>4, NavigatesThere
<1>6. PaneTypes(viewing, chosen, opened, listFrom, listPage, lastFrom)'
  BY <1>1, <1>2, <1>3, ItemViewAssumption DEF PaneTypes, NamedBy, Places
<1>7. moves' \in Nat /\ errors' = errors /\ calm' = calm
  BY <1>1, <1>3, MovesTypes
<1>8. ViewTypes'
  BY <1>1, <1>3, <1>5, <1>6, <1>7 DEF ViewTypes
<1>9. ASSUME calm, errors = 0 PROVE CalmView'
  <2>1. /\ \A l \in Threads : thread'[l] = Rest
        /\ SettledView(Here.laui, resolved, tabs, editor, viewing, chosen, opened, listFrom, astray)
    BY <1>1, <1>9, CalmMoves
  <2>2. TabIsOpen(b, tabs') /\ b # Nil
    BY ItemViewAssumption DEF TabIsOpen
  <2>3. ListIsOpen(listFrom', opened', chosen')
    BY <1>1, <1>2, <2>1 DEF ListIsOpen, SettledView
  <2>4. ShownIs(editor', viewing', chosen', listFrom') = b
    BY <1>1 DEF ShownIs
  <2>5. SettledView(Here.laui, resolved, tabs, editor, viewing, chosen, opened, listFrom, astray)'
    BY <1>5, <2>2, <2>3, <2>4 DEF SettledView
  <2>. QED BY <2>1, <2>5, SettledIsCalm
<1>. QED BY <1>7, <1>8, <1>9 DEF ViewInv

-----------------------------------------------------------------------------
(* A list is asked for.                                                      *)
LEMMA SelectTypeKeeps ==
  ASSUME ViewInv, NEW k \in Threads, NEW b \in Boxes, SelectType(k, b)
  PROVE  ViewInv'
<1>. DEFINE list == Calls("list", b, 1, FALSE, TRUE)
<1>1. /\ Moves /\ viewing' = Nil /\ editor' = FALSE /\ k \in Free
      /\ thread' = [thread EXCEPT ![k] = list] /\ astray' = FALSE
      /\ UNCHANGED <<history, position, resolved, notFound, tabs, chosen, opened,
                     listFrom, listPage, lastFrom>>
  BY DEF SelectType, Begins, browser
<1>2. ViewTypes
  BY DEF ViewInv
<1>3. /\ list \in CallTypes /\ Handles(list) /\ list # Rest
      /\ list.do = "list" /\ list.push
  BY DEF Calls, CallTypes, Handles, Rest, NamedBy, Places
<1>. HIDE DEF list
<1>4. moves' \in Nat /\ errors' = errors /\ calm' = calm
  BY <1>1, <1>2, MovesTypes
<1>5. ThreadsHandle(thread')
  BY <1>1, <1>2, <1>3, BeginsHandles DEF ViewTypes
<1>6. PaneTypes(viewing, chosen, opened, listFrom, listPage, lastFrom)'
  BY <1>1, <1>2 DEF ViewTypes, PaneTypes, NamedBy
<1>7. ViewTypes'
  BY <1>1, <1>2, <1>4, <1>5, <1>6 DEF ViewTypes
<1>8. ASSUME calm, errors = 0 PROVE CalmView'
  <2>1. \A l \in Threads : thread[l] = Rest
    BY <1>1, <1>8, CalmMoves
  <2>2. thread'[k] = list /\ \A l \in Threads \ {k} : thread'[l] = Rest
    BY <1>1, <1>2, <2>1 DEF ViewTypes, ThreadsHandle
  <2>3. Leads(thread[k], Here.laui, resolved, tabs, editor, opened, listFrom, astray)'
    BY <1>1, <1>3, <2>2 DEF Leads
  <2>. QED BY <1>3, <2>2, <2>3, AtWorkIsCalm
<1>. QED BY <1>4, <1>7, <1>8 DEF ViewInv

(* Another page of a list is asked for.                                      *)
LEMMA ChangePageKeeps ==
  ASSUME ViewInv, NEW k \in Threads, NEW n \in Pages, ChangePage(k, n)
  PROVE  ViewInv'
<1>. DEFINE list == Calls("list", listFrom, n, FALSE, FALSE)
<1>1. /\ Moves /\ ~editor /\ listFrom # Nil /\ k \in Free
      /\ history' = [history EXCEPT ![position].page = n]
      /\ thread' = [thread EXCEPT ![k] = list]
      /\ UNCHANGED <<position, resolved, notFound, tabs, viewing, editor, chosen, opened,
                     listFrom, listPage, lastFrom, astray>>
  BY DEF ChangePage, Begins, pane
<1>2. ViewTypes /\ BrowserTypes(history, position, resolved) /\ n \in Nat /\ n > 0
      /\ listFrom \in Boxes
  BY <1>1, ItemViewAssumption DEF ViewInv, ViewTypes, PaneTypes
<1>3. /\ list \in CallTypes /\ Handles(list) /\ list # Rest
      /\ list.do = "list" /\ list.of = listFrom /\ ~list.push /\ ~list.link
  BY <1>2 DEF Calls, CallTypes, Handles, Rest, NamedBy, Places
<1>. HIDE DEF list
<1>4. moves' \in Nat /\ errors' = errors /\ calm' = calm
  BY <1>1, <1>2, MovesTypes
<1>5. ThreadsHandle(thread')
  BY <1>1, <1>2, <1>3, BeginsHandles DEF ViewTypes
<1>6. BrowserTypes(history', position', resolved') /\ Here'.laui = Here.laui
  <2>1. history \in Seq(Urls) /\ position \in 1..Len(history) /\ resolved \in NamedBy
    BY <1>2 DEF BrowserTypes
  <2>2. Here \in Urls /\ history[position] = Here
    BY <2>1 DEF Here
  <2>3. [Here EXCEPT !.page = n] \in Urls /\ [Here EXCEPT !.page = n].laui = Here.laui
    BY <1>2, <2>2 DEF Urls
  <2>4. history' = [history EXCEPT ![position] = [Here EXCEPT !.page = n]]
    BY <1>1, <2>2
  <2>5. history' \in Seq(Urls) /\ Len(history') = Len(history)
        /\ history'[position] = [Here EXCEPT !.page = n]
    BY <2>1, <2>3, <2>4, ExceptSeq
  <2>. QED BY <1>1, <2>1, <2>3, <2>5 DEF BrowserTypes, Here
<1>7. ViewTypes'
  BY <1>1, <1>2, <1>4, <1>5, <1>6 DEF ViewTypes
<1>8. ASSUME calm, errors = 0 PROVE CalmView'
  <2>1. /\ \A l \in Threads : thread[l] = Rest
        /\ SettledView(Here.laui, resolved, tabs, editor, viewing, chosen, opened, listFrom, astray)
    BY <1>1, <1>8, CalmMoves
  <2>2. thread'[k] = list /\ \A l \in Threads \ {k} : thread'[l] = Rest
    BY <1>1, <1>2, <2>1 DEF ViewTypes, ThreadsHandle
  <2>3. ~astray /\ Here.laui # Nil => listFrom = Here.laui
    BY <1>1, <2>1 DEF SettledView, ShownIs, ListIsOpen
  <2>4. Leads(thread[k], Here.laui, resolved, tabs, editor, opened, listFrom, astray)'
    BY <1>1, <1>3, <1>6, <2>1, <2>2, <2>3 DEF Leads, SettledView
  <2>. QED BY <1>3, <2>2, <2>4, AtWorkIsCalm
<1>. QED BY <1>4, <1>7, <1>8 DEF ViewInv

(* The user goes back from an item to its list.                              *)
LEMMA BackToListKeeps ==
  ASSUME ViewInv, NEW k \in Threads, BackToList(k)
  PROVE  ViewInv'
<1>. DEFINE list == Calls("list", lastFrom, 1, FALSE, FALSE)
<1>1. /\ Moves /\ lastFrom # Nil /\ viewing' = Nil /\ editor' = FALSE /\ k \in Free
      /\ thread' = [thread EXCEPT ![k] = list] /\ astray' = TRUE
      /\ UNCHANGED <<history, position, resolved, notFound, tabs, chosen, opened,
                     listFrom, listPage, lastFrom>>
  BY DEF BackToList, Begins, browser
<1>2. ViewTypes /\ lastFrom \in Boxes
  BY <1>1 DEF ViewInv, ViewTypes, PaneTypes
<1>3. /\ list \in CallTypes /\ Handles(list) /\ list # Rest
      /\ list.do = "list" /\ ~list.push /\ ~list.link
  BY <1>2 DEF Calls, CallTypes, Handles, Rest, NamedBy, Places
<1>. HIDE DEF list
<1>4. moves' \in Nat /\ errors' = errors /\ calm' = calm
  BY <1>1, <1>2, MovesTypes
<1>5. ThreadsHandle(thread')
  BY <1>1, <1>2, <1>3, BeginsHandles DEF ViewTypes
<1>6. PaneTypes(viewing, chosen, opened, listFrom, listPage, lastFrom)'
  BY <1>1, <1>2 DEF ViewTypes, PaneTypes, NamedBy
<1>7. ViewTypes'
  BY <1>1, <1>2, <1>4, <1>5, <1>6 DEF ViewTypes
<1>8. ASSUME calm, errors = 0 PROVE CalmView'
  <2>1. /\ \A l \in Threads : thread[l] = Rest
        /\ SettledView(Here.laui, resolved, tabs, editor, viewing, chosen, opened, listFrom, astray)
    BY <1>1, <1>8, CalmMoves
  <2>2. thread'[k] = list /\ \A l \in Threads \ {k} : thread'[l] = Rest
    BY <1>1, <1>2, <2>1 DEF ViewTypes, ThreadsHandle
  <2>3. Here' = Here
    BY <1>1 DEF Here
  <2>4. Leads(thread[k], Here.laui, resolved, tabs, editor, opened, listFrom, astray)'
    BY <1>1, <1>3, <2>1, <2>2, <2>3 DEF Leads, SettledView
  <2>. QED BY <1>3, <2>2, <2>4, AtWorkIsCalm
<1>. QED BY <1>4, <1>7, <1>8 DEF ViewInv

-----------------------------------------------------------------------------
(* Answers.                                                                  *)
LEMMA ViewAnsweredKeeps ==
  ASSUME ViewInv, NEW k \in Threads, ViewAnswered(k)
  PROVE  ViewInv'
<1>. DEFINE c == thread[k]
<1>1. /\ c.do = "view" /\ viewing' = c.of /\ chosen' = c.of /\ editor' = TRUE
      /\ resolved' = IF c.link THEN c.of ELSE resolved
      /\ thread' = [thread EXCEPT ![k] = Rest]
      /\ UNCHANGED <<history, position, notFound, tabs, opened, listFrom, listPage,
                     lastFrom, calm, astray, moves, errors>>
  BY DEF ViewAnswered
<1>2. ViewTypes /\ c \in CallTypes /\ Handles(c)
  BY DEF ViewInv, ViewTypes, ThreadsHandle
<1>3. c.of \in Leaves /\ c # Rest
  BY <1>1, <1>2 DEF Handles, Rest
<1>4. ThreadsHandle(thread')
  BY <1>1, <1>2, RestHandles, BeginsHandles DEF ViewTypes
<1>5. /\ BrowserTypes(history', position', resolved')
      /\ PaneTypes(viewing', chosen', opened', listFrom', listPage', lastFrom')
  BY <1>1, <1>2, <1>3 DEF ViewTypes, BrowserTypes, PaneTypes, NamedBy, Places
<1>6. ViewTypes'
  BY <1>1, <1>2, <1>4, <1>5 DEF ViewTypes
<1>7. ASSUME calm, errors = 0 PROVE CalmView'
  <2>1. /\ \A l \in Threads \ {k} : thread[l] = Rest
        /\ Leads(thread[k], Here.laui, resolved, tabs, editor, opened, listFrom, astray)
    BY <1>3, <1>7, CalmWorks
  <2>2. \A l \in Threads : thread'[l] = Rest
    BY <1>1, <1>2, <2>1 DEF ViewTypes, ThreadsHandle
  <2>3. Here' = Here
    BY <1>1 DEF Here
  <2>4. /\ c.of = Here.laui /\ resolved = Here.laui /\ TabIsOpen(Here.laui, tabs)
        /\ listFrom \in {Nil, opened}
    BY <1>1, <2>1 DEF Leads
  <2>5. chosen' \notin Boxes
    BY <1>1, <1>3, ItemViewAssumption
  <2>6. SettledView(Here.laui, resolved, tabs, editor, viewing, chosen, opened, listFrom, astray)'
    BY <1>1, <2>3, <2>4, <2>5 DEF SettledView, ShownIs, ListIsOpen
  <2>. QED BY <2>2, <2>6, SettledIsCalm
<1>. QED BY <1>1, <1>6, <1>7 DEF ViewInv

(* What the caller of a list does after it, loaded or not.                   *)
LEMMA AfterListThere ==
  ASSUME ViewTypes, NEW c \in CallTypes, c.of \in Boxes, AfterList(c)
  PROVE  /\ BrowserTypes(history, position, resolved)'
         /\ c.push => Here'.laui = c.of /\ resolved' = c.of
         /\ ~c.push => Here' = Here /\ resolved' = IF c.link THEN c.of ELSE resolved
<1>1. Url(c.of, 1) \in Urls /\ Url(c.of, 1).laui = c.of /\ c.of \in NamedBy
  BY DEF Url, Urls, NamedBy, Places
<1>2. BrowserTypes(history, position, resolved)
  BY DEF ViewTypes
<1>3. CASE c.push
  BY <1>1, <1>2, <1>3, NavigatesThere DEF AfterList
<1>4. CASE ~c.push
  BY <1>1, <1>2, <1>4 DEF AfterList, BrowserTypes, Here
<1>. QED BY <1>3, <1>4

(* The answer with the items of a list.                                      *)
LEMMA ListAnsweredKeeps ==
  ASSUME ViewInv, NEW k \in Threads, ListAnswered(k)
  PROVE  ViewInv'
<1>. DEFINE c == thread[k]
<1>1. /\ c.do = "list" /\ listFrom' = c.of /\ listPage' = c.page /\ lastFrom' = c.of
      /\ chosen' = Nil /\ opened' = c.of /\ AfterList(c)
      /\ thread' = [thread EXCEPT ![k] = Rest]
      /\ UNCHANGED <<notFound, tabs, viewing, editor, calm, astray, moves, errors>>
  BY DEF ListAnswered
<1>2. ViewTypes /\ c \in CallTypes /\ Handles(c)
  BY DEF ViewInv, ViewTypes, ThreadsHandle
<1>3. c.of \in Boxes /\ c # Rest /\ c.page \in Nat /\ c.page > 0
  BY <1>1, <1>2 DEF Handles, Rest, CallTypes
<1>4. ThreadsHandle(thread')
  BY <1>1, <1>2, RestHandles, BeginsHandles DEF ViewTypes
<1>5. PaneTypes(viewing', chosen', opened', listFrom', listPage', lastFrom')
  BY <1>1, <1>2, <1>3 DEF ViewTypes, PaneTypes, NamedBy
<1>6. /\ BrowserTypes(history, position, resolved)'
      /\ c.push => Here'.laui = c.of /\ resolved' = c.of
      /\ ~c.push => Here' = Here /\ resolved' = IF c.link THEN c.of ELSE resolved
  BY <1>1, <1>2, <1>3, AfterListThere
<1>7. ViewTypes'
  BY <1>1, <1>2, <1>4, <1>5, <1>6 DEF ViewTypes
<1>8. ASSUME calm, errors = 0 PROVE CalmView'
  <2>1. /\ \A l \in Threads \ {k} : thread[l] = Rest
        /\ Leads(thread[k], Here.laui, resolved, tabs, editor, opened, listFrom, astray)
    BY <1>3, <1>8, CalmWorks
  <2>2. \A l \in Threads : thread'[l] = Rest
    BY <1>1, <1>2, <2>1 DEF ViewTypes, ThreadsHandle
  <2>3. c.of # Nil /\ c.of \notin Leaves /\ Nil \notin Boxes
    BY <1>3, ItemViewAssumption
  <2>4. ~editor' /\ ShownIs(editor', viewing', chosen', listFrom') = c.of
        /\ ListIsOpen(listFrom', opened', chosen')
    BY <1>1, <2>1, <2>3 DEF Leads, ShownIs, ListIsOpen
  <2>5. CASE c.push
    <3>1. SettledView(Here.laui, resolved, tabs, editor, viewing, chosen, opened, listFrom, astray)'
      BY <1>6, <2>3, <2>4, <2>5 DEF SettledView, TabIsOpen
    <3>. QED BY <2>2, <3>1, SettledIsCalm
  <2>6. CASE ~c.push
    <3>1. /\ Here' = Here /\ TabIsOpen(Here.laui, tabs)
          /\ resolved' = Here.laui
          /\ ~astray /\ Here.laui # Nil => c.of = Here.laui
      BY <1>1, <1>6, <2>1, <2>6 DEF Leads
    <3>2. SettledView(Here.laui, resolved, tabs, editor, viewing, chosen, opened, listFrom, astray)'
      BY <1>1, <2>4, <3>1 DEF SettledView
    <3>. QED BY <2>2, <3>2, SettledIsCalm
  <2>. QED BY <2>5, <2>6
<1>. QED BY <1>1, <1>7, <1>8 DEF ViewInv

(* The answer that says what the id of a link is.                            *)
LEMMA MetaAnsweredKeeps ==
  ASSUME ViewInv, NEW k \in Threads, MetaAnswered(k)
  PROVE  ViewInv'
<1>. DEFINE c == thread[k]
            kids == [c EXCEPT !.do = "kids"]
<1>1. /\ c.do = "meta" /\ notFound' = FALSE
      /\ thread' = [thread EXCEPT ![k] = kids]
      /\ UNCHANGED <<history, position, resolved, tabs, viewing, editor, chosen, opened,
                     listFrom, listPage, lastFrom, calm, astray, moves, errors>>
  BY DEF MetaAnswered, browser, pane
<1>2. ViewTypes /\ c \in CallTypes /\ Handles(c)
  BY DEF ViewInv, ViewTypes, ThreadsHandle
<1>3. c.of \in Places /\ c # Rest
  BY <1>1, <1>2 DEF Handles, Rest
<1>4. /\ kids \in CallTypes /\ kids.do = "kids" /\ kids.of = c.of
      /\ kids.link = c.link /\ kids.push = c.push
  BY <1>2 DEF CallTypes
<1>5. Handles(kids) /\ kids # Rest
  BY <1>3, <1>4 DEF Handles, Rest
<1>. HIDE DEF kids
<1>6. ThreadsHandle(thread')
  BY <1>1, <1>2, <1>4, <1>5, BeginsHandles DEF ViewTypes
<1>7. ViewTypes'
  BY <1>1, <1>2, <1>6 DEF ViewTypes
<1>8. ASSUME calm, errors = 0 PROVE CalmView'
  <2>1. /\ \A l \in Threads \ {k} : thread[l] = Rest
        /\ Leads(thread[k], Here.laui, resolved, tabs, editor, opened, listFrom, astray)
    BY <1>3, <1>8, CalmWorks
  <2>2. thread'[k] = kids /\ \A l \in Threads \ {k} : thread'[l] = Rest
    BY <1>1, <1>2, <2>1 DEF ViewTypes, ThreadsHandle
  <2>3. Here' = Here
    BY <1>1 DEF Here
  <2>4. Leads(thread[k], Here.laui, resolved, tabs, editor, opened, listFrom, astray)'
    BY <1>1, <1>4, <2>1, <2>2, <2>3 DEF Leads
  <2>. QED BY <1>5, <2>2, <2>4, AtWorkIsCalm
<1>. QED BY <1>1, <1>7, <1>8 DEF ViewInv

(* A link turns out to name a folder.                                        *)
LEMMA LinkToBoxKeeps ==
  ASSUME ViewInv, NEW k \in Threads, LinkToBox(k)
  PROVE  ViewInv'
<1>. DEFINE c == thread[k]
            list == [c EXCEPT !.do = "list"]
<1>1. /\ c.do = "kids" /\ c.of \in Boxes /\ viewing' = Nil /\ editor' = FALSE
      /\ chosen' = c.of /\ opened' = c.of
      /\ UNCHANGED <<history, position, notFound, tabs, lastFrom, calm, astray, moves, errors>>
  BY DEF LinkToBox
<1>2. ViewTypes /\ c \in CallTypes /\ Handles(c)
  BY DEF ViewInv, ViewTypes, ThreadsHandle
<1>3. c # Rest /\ c.page \in Nat
  BY <1>1, <1>2 DEF Rest, CallTypes
<1>4. Here' = Here
  BY <1>1 DEF Here
<1>5. CASE c.page > 0
  <2>1. /\ thread' = [thread EXCEPT ![k] = list]
        /\ resolved' = resolved /\ listFrom' = listFrom /\ listPage' = listPage
    BY <1>5 DEF LinkToBox
  <2>2. /\ list \in CallTypes /\ list.do = "list" /\ list.of = c.of /\ list.page = c.page
        /\ list.link = c.link /\ list.push = c.push
    BY <1>2 DEF CallTypes
  <2>3. Handles(list) /\ list # Rest
    BY <1>1, <1>5, <2>2 DEF Handles, Rest
  <2>. HIDE DEF list
  <2>4. ThreadsHandle(thread')
    BY <1>2, <2>1, <2>2, <2>3, BeginsHandles DEF ViewTypes
  <2>5. PaneTypes(viewing', chosen', opened', listFrom', listPage', lastFrom')
    BY <1>1, <1>2, <2>1 DEF ViewTypes, PaneTypes, NamedBy, Places
  <2>6. ViewTypes'
    BY <1>1, <1>2, <2>1, <2>4, <2>5 DEF ViewTypes
  <2>7. ASSUME calm, errors = 0 PROVE CalmView'
    <3>1. /\ \A l \in Threads \ {k} : thread[l] = Rest
          /\ Leads(thread[k], Here.laui, resolved, tabs, editor, opened, listFrom, astray)
      BY <1>3, <2>7, CalmWorks
    <3>2. thread'[k] = list /\ \A l \in Threads \ {k} : thread'[l] = Rest
      BY <1>2, <2>1, <3>1 DEF ViewTypes, ThreadsHandle
    <3>3. c.of = Here.laui /\ c.link /\ ~c.push
      BY <1>1, <3>1 DEF Leads
    <3>4. TabIsOpen(Here.laui, tabs)
      BY <1>1, <3>3, ItemViewAssumption DEF TabIsOpen
    <3>5. Leads(thread[k], Here.laui, resolved, tabs, editor, opened, listFrom, astray)'
      BY <1>1, <1>4, <2>2, <3>2, <3>3, <3>4 DEF Leads
    <3>. QED BY <2>3, <3>2, <3>5, AtWorkIsCalm
  <2>. QED BY <1>1, <2>6, <2>7 DEF ViewInv
<1>6. CASE ~(c.page > 0)
  <2>1. /\ thread' = [thread EXCEPT ![k] = Rest]
        /\ resolved' = c.of /\ listFrom' = Nil /\ listPage' = 0
    BY <1>6 DEF LinkToBox
  <2>2. ThreadsHandle(thread')
    BY <1>2, <2>1, RestHandles, BeginsHandles DEF ViewTypes
  <2>3. BrowserTypes(history', position', resolved')
        /\ PaneTypes(viewing', chosen', opened', listFrom', listPage', lastFrom')
    BY <1>1, <1>2, <2>1, ItemViewAssumption DEF ViewTypes, BrowserTypes, PaneTypes, NamedBy, Places
  <2>4. ViewTypes'
    BY <1>1, <1>2, <2>2, <2>3 DEF ViewTypes
  <2>5. ASSUME calm, errors = 0 PROVE CalmView'
    <3>1. /\ \A l \in Threads \ {k} : thread[l] = Rest
          /\ Leads(thread[k], Here.laui, resolved, tabs, editor, opened, listFrom, astray)
      BY <1>3, <2>5, CalmWorks
    <3>2. \A l \in Threads : thread'[l] = Rest
      BY <1>2, <2>1, <3>1 DEF ViewTypes, ThreadsHandle
    <3>3. c.of = Here.laui
      BY <1>1, <3>1 DEF Leads
    <3>4. TabIsOpen(Here.laui, tabs)
      BY <1>1, <3>3, ItemViewAssumption DEF TabIsOpen
    <3>5. SettledView(Here.laui, resolved, tabs, editor, viewing, chosen, opened, listFrom, astray)'
      BY <1>1, <1>4, <2>1, <3>3, <3>4 DEF SettledView, ShownIs, ListIsOpen
    <3>. QED BY <3>2, <3>5, SettledIsCalm
  <2>. QED BY <1>1, <2>4, <2>5 DEF ViewInv
<1>. QED BY <1>5, <1>6

(* A link turns out to name an item.                                         *)
LEMMA LinkToLeafKeeps ==
  ASSUME ViewInv, NEW k \in Threads, LinkToLeaf(k)
  PROVE  ViewInv'
<1>. DEFINE x == thread[k].of
            view == Calls("view", x, 0, TRUE, FALSE)
<1>1. /\ thread[k].do = "kids" /\ x \in Leaves
      /\ opened' = BoxOf[x] /\ lastFrom' = BoxOf[x]
      /\ listFrom' = Nil /\ listPage' = 0 /\ chosen' = x
      /\ NavigatesTo(Url(x, 0)) /\ tabs' = WithTab(x)
      /\ thread' = [thread EXCEPT ![k] = view]
      /\ UNCHANGED <<notFound, viewing, editor, calm, astray, moves, errors>>
  BY DEF LinkToLeaf, ViewsItem
<1>2. ViewTypes /\ BrowserTypes(history, position, resolved) /\ TabTypes(tabs)
  BY DEF ViewInv, ViewTypes
<1>3. thread[k] # Rest /\ BoxOf[x] \in Boxes
  BY <1>1, ItemViewAssumption DEF Rest
<1>. HIDE DEF x
<1>4. Url(x, 0) \in Urls /\ Url(x, 0).laui = x
  BY <1>1 DEF Url, Urls, NamedBy, Places
<1>5. BrowserTypes(history, position, resolved)' /\ Here'.laui = x /\ resolved' = x
  BY <1>1, <1>2, <1>4, NavigatesThere
<1>6. TabTypes(tabs') /\ TabIsOpen(x, tabs')
  BY <1>1, <1>2, TabIsAdded DEF TabIsOpen
<1>7. view \in CallTypes /\ Handles(view) /\ view # Rest /\ view.do = "view" /\ view.of = x
  BY <1>1 DEF Calls, CallTypes, Handles, Rest, NamedBy, Places
<1>. HIDE DEF view
<1>8. ThreadsHandle(thread')
  BY <1>1, <1>2, <1>7, BeginsHandles DEF ViewTypes
<1>9. PaneTypes(viewing', chosen', opened', listFrom', listPage', lastFrom')
  BY <1>1, <1>2, <1>3, ItemViewAssumption DEF ViewTypes, PaneTypes, NamedBy, Places
<1>10. ViewTypes'
  BY <1>1, <1>2, <1>5, <1>6, <1>8, <1>9 DEF ViewTypes
<1>11. ASSUME calm, errors = 0 PROVE CalmView'
  <2>1. \A l \in Threads \ {k} : thread[l] = Rest
    BY <1>3, <1>11, CalmWorks
  <2>2. thread'[k] = view /\ \A l \in Threads \ {k} : thread'[l] = Rest
    BY <1>1, <1>2, <2>1 DEF ViewTypes, ThreadsHandle
  <2>3. Leads(thread[k], Here.laui, resolved, tabs, editor, opened, listFrom, astray)'
    BY <1>1, <1>5, <1>6, <1>7, <2>2 DEF Leads
  <2>. QED BY <1>7, <2>2, <2>3, AtWorkIsCalm
<1>. QED BY <1>1, <1>10, <1>11 DEF ViewInv

(* After a request has failed nothing is said of the view but its types.     *)
LEMMA FailureKeeps ==
  ASSUME ViewInv, NEW k \in Threads, LinkFails(k) \/ ListFails(k)
  PROVE  ViewInv'
<1>. DEFINE c == thread[k]
<1>1. /\ c.do \in {"meta", "kids", "list"} /\ errors' = errors + 1
      /\ notFound' \in {FALSE, TRUE, notFound}
      /\ thread' = [thread EXCEPT ![k] = Rest]
      /\ c.do = "list" => AfterList(c)
      /\ c.do # "list" => UNCHANGED <<history, position, resolved>>
      /\ UNCHANGED <<tabs, viewing, editor, chosen, opened, listFrom, listPage, lastFrom,
                     calm, astray, moves>>
  BY DEF LinkFails, ListFails, browser, pane
<1>2. ViewTypes /\ c \in CallTypes /\ Handles(c)
  BY DEF ViewInv, ViewTypes, ThreadsHandle
<1>3. c.do = "list" => c.of \in Boxes
  BY <1>2 DEF Handles, Rest
<1>4. BrowserTypes(history', position', resolved')
  BY <1>1, <1>2, <1>3, AfterListThere DEF ViewTypes
<1>5. ThreadsHandle(thread')
  BY <1>1, <1>2, RestHandles, BeginsHandles DEF ViewTypes
<1>6. errors' \in Nat /\ errors' # 0
  BY <1>1, <1>2 DEF ViewTypes
<1>7. ViewTypes'
  BY <1>1, <1>2, <1>4, <1>5, <1>6 DEF ViewTypes
<1>. QED BY <1>6, <1>7 DEF ViewInv

-----------------------------------------------------------------------------
(* Whatever the user does and in whatever order the answers arrive, the pane *)
(* of a user who waits shows what the address bar names, and the item there  *)
(* has its tab.                                                              *)
THEOREM PaneIsAlwaysRight == ItemViewSpec => []PaneIsRight
<1>1. ItemViewInit => ViewInv
  <2>. SUFFICES ASSUME ItemViewInit PROVE ViewInv
    OBVIOUS
  <2>1. /\ history = <<Url(Nil, 0)>> /\ position = 1 /\ resolved = Nil /\ notFound = FALSE
        /\ tabs = <<>> /\ viewing = Nil /\ editor = FALSE /\ chosen \in Boxes /\ opened = Nil
        /\ listFrom = Nil /\ listPage = 0 /\ lastFrom = Nil /\ astray = FALSE
        /\ thread = [k \in Threads |-> Rest] /\ calm \in BOOLEAN /\ moves = 0 /\ errors = 0
    BY DEF ItemViewInit
  <2>2. Url(Nil, 0) \in Urls /\ Url(Nil, 0).laui = Nil
    BY DEF Url, Urls, NamedBy
  <2>3. BrowserTypes(history, position, resolved) /\ Here.laui = Nil
    BY <2>1, <2>2 DEF BrowserTypes, Here, NamedBy
  <2>4. <<>> \in Seq(Leaves) /\ Len(<<>>) = 0
    OBVIOUS
  <2>5. TabTypes(tabs)
    BY <2>1, <2>4, ItemViewAssumption DEF TabTypes, IsInjective
  <2>6. PaneTypes(viewing, chosen, opened, listFrom, listPage, lastFrom)
    BY <2>1, ItemViewAssumption DEF PaneTypes, NamedBy, Places
  <2>7. ThreadsHandle(thread)
    BY <2>1, RestHandles DEF ThreadsHandle
  <2>8. ViewTypes
    BY <2>1, <2>3, <2>5, <2>6, <2>7 DEF ViewTypes
  <2>9. CalmView
    BY <2>1, <2>3, ItemViewAssumption
       DEF CalmView, OneAtATime, SettledView, TabIsOpen, ListIsOpen
  <2>. QED BY <2>8, <2>9 DEF ViewInv
<1>2. ViewInv /\ [ItemViewNext]_itemViewVars => ViewInv'
  <2>. SUFFICES ASSUME ViewInv, [ItemViewNext]_itemViewVars PROVE ViewInv'
    OBVIOUS
  <2>1. CASE UNCHANGED itemViewVars
    <3>1. UNCHANGED <<history, position, resolved, notFound, tabs, viewing, editor, chosen,
                      opened, listFrom, listPage, lastFrom, thread, calm, astray, moves, errors>>
      BY <2>1 DEF itemViewVars
    <3>2. Here' = Here /\ Settled' = Settled
      BY <3>1 DEF Here, Settled, Free
    <3>3. ViewTypes'
      BY <3>1 DEF ViewInv, ViewTypes
    <3>. QED BY <3>1, <3>2, <3>3 DEF ViewInv, CalmView
  <2>2. ASSUME NEW k \in Threads, NEW x \in Leaves,
               OpenRow(k, x) \/ ClickTab(k, x) \/ CloseTab(k, x)
        PROVE  ViewInv'
    BY <2>2, OpenRowKeeps, ClickTabKeeps, CloseTabKeeps
  <2>3. ASSUME NEW b \in Boxes, SelectBox(b) \/ \E k \in Threads : SelectType(k, b)
        PROVE  ViewInv'
    BY <2>3, SelectBoxKeeps, SelectTypeKeeps
  <2>4. ASSUME NEW k \in Threads,
               \/ \E n \in Pages : ChangePage(k, n)
               \/ BackToList(k) \/ CloseAllTabs(k)
               \/ \E p \in 1..Len(history) : Travel(k, p)
        PROVE  ViewInv'
    BY <2>4, ChangePageKeeps, BackToListKeeps, CloseAllTabsKeeps, TravelKeeps
  <2>5. ASSUME NEW k \in Threads, Answers(k) \/ LinkFails(k) \/ ListFails(k)
        PROVE  ViewInv'
    BY <2>5, ViewAnsweredKeeps, ListAnsweredKeeps, MetaAnsweredKeeps, LinkToBoxKeeps,
       LinkToLeafKeeps, FailureKeeps DEF Answers
  <2>. QED BY <2>1, <2>2, <2>3, <2>4, <2>5 DEF ItemViewNext
<1>3. ViewInv => PaneIsRight
  <2>. SUFFICES ASSUME ViewInv PROVE PaneIsRight
    OBVIOUS
  <2>1. ViewTypes
    BY DEF ViewInv
  <2>2. position \in DOMAIN history /\ \A i \in DOMAIN history : history[i] \in Urls
    BY <2>1 DEF ViewTypes, BrowserTypes
  <2>3. \A i \in DOMAIN history : history[i].laui \in Leaves \cup Boxes \cup {Nil}
    BY <2>2 DEF Urls, NamedBy, Places
  <2>4. ToSet(tabs) \subseteq Leaves
    BY <2>1 DEF ViewTypes, TabTypes, ToSet
  <2>5. ItemViewTypeOK
    BY <2>1, <2>2, <2>3, <2>4
       DEF ItemViewTypeOK, ViewTypes, BrowserTypes, TabTypes, PaneTypes, NamedBy, Places
  <2>6. ViewFollowsUrl /\ ActiveTabIsOpen
    BY DEF ViewInv, CalmView, SettledView, ViewFollowsUrl, ActiveTabIsOpen, Shown, ShownIs,
          TabIsOpen
  <2>. QED BY <2>5, <2>6 DEF PaneIsRight
<1>. QED BY <1>1, <1>2, <1>3, PTL DEF ItemViewSpec

-----------------------------------------------------------------------------
(* The form of a task (TaskForm)                                             *)

Rows == [action : 1..MaxActions, set : Values]

(* Saved actions that have a number and are not in the list yet.             *)
ToCome(m, p) == IF m = "edit" /\ ~p THEN Saved ELSE 0

ListTypes ==
  /\ populated \in BOOLEAN /\ taskActions \in Seq(Rows) /\ draft \in Values
  /\ {selectedAction, currentAction, expandedAction} \subseteq 0..MaxActions
  /\ entered \in [1..MaxActions -> Values]
  /\ editDraft \in [1..MaxActions -> Values \cup {NoDraft}]
  /\ numbered \in 0..MaxActions /\ fetching \subseteq 1..numbered
  /\ Len(taskActions) + Cardinality(fetching) + ToCome(formMode, populated) <= numbered

(* The list of a user who ends one edit before the next: every action that   *)
(* was numbered and not removed is in it once, or its details are awaited;   *)
(* outside the expanded row it has what was entered; and the two editors are *)
(* on different actions and have what was entered for theirs.                *)
Kept(a, sel, cur, d, f, ex, ed, n, en, rem) ==
  /\ sel <= n /\ rem \subseteq 1..n /\ f \cap rem = {}
  /\ {a[i].action : i \in DOMAIN a} = (1..n) \ (rem \cup f)
  /\ \A i, j \in DOMAIN a : a[i].action = a[j].action => i = j
  /\ f \subseteq {sel} /\ (f # {} => cur = 0 /\ ex = 0 /\ d = Defaults)
  /\ sel = 0 => cur = 0 /\ d = Defaults
  /\ sel # 0 /\ cur = 0 => sel \in rem \cup f
  /\ \A m \in 1..MaxActions : m > n \/ m \in f => en[m] = Defaults
  /\ \A i \in DOMAIN a : i # ex => a[i].set = en[a[i].action]
  /\ cur # 0 => cur \in DOMAIN a /\ a[cur].action = sel /\ d = en[sel]
  /\ ex # 0 => ex \in DOMAIN a /\ ed[ex] = en[a[ex].action] /\ ex # cur

Pristine ==
  /\ taskActions = <<>> /\ selectedAction = 0 /\ currentAction = 0 /\ draft = Defaults
  /\ fetching = {} /\ expandedAction = 0 /\ numbered = Saved /\ removed = {}
  /\ entered = [m \in 1..MaxActions |-> Defaults]

ListTidy ==
  IF formMode = "edit" /\ ~populated THEN Pristine
  ELSE Kept(taskActions, selectedAction, currentAction, draft, fetching, expandedAction,
            editDraft, numbered, entered, removed)

(* The payload: what was chosen from the catalog is the one selected, and,   *)
(* for a user who waits, what is awaited is what was chosen last.            *)
PayloadTypes ==
  /\ payloadLaui \in Payloads \cup {Blank}
  /\ payloadText \in Payloads \cup Operators \cup {Typed, Blank}
  /\ lookups \subseteq Payloads \cup Operators

PayloadHolds ==
  /\ payloadLaui # Blank => chosenPayload = payloadLaui
  /\ chosenPayload \in Payloads => payloadLaui = chosenPayload

PayloadTidy ==
  /\ lookups \subseteq {chosenPayload}
  /\ formErrors = 0 /\ lookups = {} => PackedPayload = chosenPayload

(* The submissions of a user who waits, one at a time. A task that is stored *)
(* while the form is open is one whose answer is awaited, or was lost.       *)
SendTypes ==
  /\ formMode \in {"create", "edit", "shut"}
  /\ sending \in [Clicks -> {"none", "check", "post", "answer"}]
  /\ stored \in Nat /\ confirmed \in Nat /\ formErrors \in Nat
  /\ formActs \in 0..MaxFormActs /\ tidy \in BOOLEAN

AtStage(stage) == \E k \in Clicks : sending[k] = stage
NothingSent == \A k \in Clicks : sending[k] = "none"

SendTidy ==
  /\ \A k, l \in Clicks : sending[k] # "none" /\ sending[l] # "none" => k = l
  /\ duplicateTask \/ formMode = "shut" => NothingSent
  /\ formMode = "edit" => stored = 0
  /\ formMode = "create" /\ stored > 0 => AtStage("answer") \/ formErrors > 0
  /\ formErrors <= 1 => /\ stored <= 1 + confirmed
                        /\ formMode = "create" /\ AtStage("post") => stored <= confirmed

FormTypes == ListTypes /\ PayloadTypes /\ SendTypes

FormInv ==
  /\ FormTypes
  /\ formMode # "shut" => PayloadHolds
  /\ tidy => SendTidy
  /\ tidy /\ formMode # "shut" => ListTidy /\ PayloadTidy

(* Values of the fields of an action.                                        *)
LEMMA ValuesHold ==
  /\ Defaults \in Values /\ NoDraft \notin Values
  /\ \A v \in Values, x \in Fields, n \in 0..MaxFormActs :
       /\ [v EXCEPT ![x] = n] \in Values
       /\ [v EXCEPT ![x] = n][x] = n
       /\ \A y \in Fields : y # x => [v EXCEPT ![x] = n][y] = v[y]
  /\ \A v \in Values : [v EXCEPT !.variables = 0] \in Values
  /\ [Defaults EXCEPT !.variables = 0] = Defaults
<1>1. 0 \in 0..MaxFormActs
  BY TaskFormAssumption
<1>2. Defaults \in Values
  BY <1>1 DEF Defaults, Values
<1>3. DOMAIN NoDraft = {} /\ \A v \in Values : DOMAIN v = Fields
  BY DEF NoDraft, Values
<1>4. "variables" \in Fields /\ Fields # {}
  BY DEF Fields
<1>5. NoDraft \notin Values
  BY <1>3, <1>4
<1>6. \A v \in Values : [v EXCEPT !.variables = 0] \in Values
  BY <1>1, <1>4 DEF Values
<1>7. [Defaults EXCEPT !.variables = 0] = Defaults
  BY <1>4 DEF Defaults
<1>. QED BY <1>2, <1>5, <1>6, <1>7 DEF Values

(* The form copied into row i, if there is one.                              *)
LEMMA SyncedRows ==
  ASSUME NEW a \in Seq(Rows), NEW i \in Nat, NEW v \in Values
  PROVE  /\ Synced(a, i, v) \in Seq(Rows) /\ Len(Synced(a, i, v)) = Len(a)
         /\ \A j \in DOMAIN a : /\ Synced(a, i, v)[j].action = a[j].action
                                /\ Synced(a, i, v)[j].set = IF j = i THEN v ELSE a[j].set
<1>1. CASE i \in DOMAIN a
  <2>. DEFINE row == [a[i] EXCEPT !.set = v]
  <2>1. a[i] \in Rows
    BY <1>1
  <2>2. row \in Rows /\ row.action = a[i].action /\ row.set = v
    BY <2>1 DEF Rows
  <2>3. Synced(a, i, v) = [a EXCEPT ![i] = row]
    BY <1>1 DEF Synced
  <2>. HIDE DEF row
  <2>4. Synced(a, i, v) \in Seq(Rows) /\ Len(Synced(a, i, v)) = Len(a)
    BY <1>1, <2>2, <2>3, ExceptSeq
  <2>5. \A j \in DOMAIN a : Synced(a, i, v)[j] = IF j = i THEN row ELSE a[j]
    BY <2>3
  <2>. QED BY <2>2, <2>4, <2>5
<1>2. CASE i \notin DOMAIN a
  BY <1>2 DEF Synced
<1>. QED BY <1>1, <1>2

(* The row of a new action.                                                  *)
LEMMA NewRow ==
  ASSUME NEW n \in 1..MaxActions
  PROVE  NewAction(n) \in Rows /\ NewAction(n).action = n /\ NewAction(n).set = Defaults
BY ValuesHold DEF NewAction, Rows

-----------------------------------------------------------------------------
(* What leaves a part of the form alone.                                     *)
LEMMA ListStays ==
  ASSUME ListTypes, UNCHANGED listVars, formMode' = formMode
  PROVE  ListTypes' /\ (ListTidy => ListTidy')
<1>1. UNCHANGED <<populated, taskActions, selectedAction, currentAction, draft, fetching,
                  loadingVars, expandedAction, editDraft, numbered, entered, removed>>
  BY DEF listVars
<1>2. ListTypes'
  BY <1>1 DEF ListTypes, ToCome
<1>3. ListTidy => ListTidy'
  BY <1>1 DEF ListTidy, Pristine
<1>. QED BY <1>2, <1>3

(* The same of the payload.                                                  *)
LEMMA PayloadStays ==
  ASSUME PayloadTypes, UNCHANGED payloadVars, formErrors \in Nat, formErrors' \in Nat,
         formErrors' >= formErrors
  PROVE  /\ PayloadTypes' /\ (PayloadHolds => PayloadHolds') /\ (PayloadTidy => PayloadTidy')
<1>1. UNCHANGED <<payloadLaui, payloadText, lookups, chosenPayload>>
  BY DEF payloadVars
<1>2. formErrors' = 0 => formErrors = 0
  OBVIOUS
<1>. QED BY <1>1, <1>2 DEF PayloadTypes, PayloadHolds, PayloadTidy, PackedPayload

(* The same of the submission.                                               *)
LEMMA SendStays ==
  ASSUME SendTypes, UNCHANGED <<formMode, sending, duplicateTask, stored, confirmed, tidy>>,
         formErrors' \in Nat, formErrors' >= formErrors, formActs' \in 0..MaxFormActs
  PROVE  SendTypes' /\ (SendTidy => SendTidy')
<1>1. formErrors \in Nat
  BY DEF SendTypes
<1>2. (formErrors' <= 1 => formErrors <= 1) /\ (formErrors > 0 => formErrors' > 0)
  BY <1>1
<1>3. SendTypes'
  BY DEF SendTypes
<1>. QED BY <1>2, <1>3 DEF SendTidy, NothingSent, AtStage

(* What any act of a user relies on.                                         *)
LEMMA ActsWhenQuiet ==
  ASSUME FormInv, ActsOnForm
  PROVE  /\ formMode # "shut" /\ tidy' = tidy /\ formActs' \in 0..MaxFormActs
         /\ tidy => /\ fetching = {} /\ lookups = {} /\ NothingSent
                    /\ (formMode = "edit" => populated)
                    /\ Kept(taskActions, selectedAction, currentAction, draft, fetching,
                            expandedAction, editDraft, numbered, entered, removed)
<1>1. formActs \in 0..MaxFormActs /\ MaxFormActs \in Nat
  BY TaskFormAssumption DEF FormInv, FormTypes, SendTypes
<1>2. formActs' \in 0..MaxFormActs
  BY <1>1 DEF ActsOnForm
<1>. QED BY <1>2 DEF ActsOnForm, FormQuiet, NothingSent, FormInv, ListTidy

(* A step that concerns the list only.                                       *)
LEMMA ListStepKeeps ==
  ASSUME FormInv, ListTypes', tidy /\ formMode # "shut" => ListTidy',
         UNCHANGED payloadVars,
         UNCHANGED <<formMode, sending, duplicateTask, stored, confirmed, tidy>>,
         formErrors' \in {formErrors, formErrors + 1}, formActs' \in 0..MaxFormActs
  PROVE  FormInv'
<1>1. ListTypes /\ PayloadTypes /\ SendTypes
  BY DEF FormInv, FormTypes
<1>2. formErrors \in Nat /\ formErrors' \in Nat /\ formErrors' >= formErrors
  BY <1>1 DEF SendTypes
<1>3. PayloadTypes' /\ (PayloadHolds => PayloadHolds') /\ (PayloadTidy => PayloadTidy')
  BY <1>1, <1>2, PayloadStays
<1>4. SendTypes' /\ (SendTidy => SendTidy')
  BY <1>1, <1>2, SendStays
<1>. QED BY <1>3, <1>4 DEF FormInv, FormTypes

-----------------------------------------------------------------------------
(* The actions of the task.                                                  *)
LEMMA PopulateKeeps ==
  ASSUME FormInv, Populate
  PROVE  FormInv'
<1>1. /\ formMode = "edit" /\ ~populated /\ populated' = TRUE
      /\ UNCHANGED <<selectedAction, currentAction, draft, fetching, loadingVars,
                     expandedAction, editDraft, numbered, entered>>
      /\ UNCHANGED payloadVars /\ UNCHANGED sendVars /\ UNCHANGED <<tidy, formActs>>
  BY DEF Populate
<1>2. UNCHANGED <<formMode, sending, submitting, duplicateTask, stored, confirmed, formErrors>>
  BY <1>1 DEF sendVars
<1>3. ListTypes /\ SendTypes
  BY DEF FormInv, FormTypes
<1>4. Saved \in Nat /\ Saved <= MaxActions /\ MaxActions \in Nat
  BY TaskFormAssumption
<1>5. Cardinality(fetching) \in Nat
  <2>1. IsFiniteSet(1..numbered)
    BY <1>3, FS_Interval DEF ListTypes
  <2>2. IsFiniteSet(fetching)
    BY <1>3, <2>1, FS_Subset DEF ListTypes
  <2>. QED BY <2>2, FS_CardinalityType
<1>6. Len(taskActions) \in Nat /\ numbered \in Nat
  BY <1>3, <1>4 DEF ListTypes
<1>7. Len(taskActions) + Cardinality(fetching) + Saved <= numbered
  BY <1>1, <1>3 DEF ListTypes, ToCome
<1>8. ToCome(formMode', populated') = 0
  BY <1>1 DEF ToCome
<1>9. ASSUME NEW n \in 0..Saved, RestoreActions(n)
      PROVE  ListTypes' /\ (tidy /\ formMode # "shut" => ListTidy')
  <2>. DEFINE rowsOf(f) == [i \in 1..n |-> NewAction(f[i])]
  <2>1. PICK nth \in [1..n -> 1..Saved] :
          /\ \A i, j \in 1..n : i < j => nth[i] < nth[j]
          /\ taskActions' = rowsOf(nth)
          /\ removed' = removed \cup {m \in 1..Saved : \A i \in 1..n : nth[i] # m}
    BY <1>9 DEF RestoreActions
  <2>. DEFINE rows == rowsOf(nth)
              lost == {m \in 1..Saved : \A i \in 1..n : nth[i] # m}
  <2>2. n \in Nat /\ n <= Saved
    BY <1>4
  <2>3. \A i \in 1..n : nth[i] \in 1..Saved /\ nth[i] \in 1..MaxActions
    BY <1>4, <2>1
  <2>4. \A i \in 1..n : rows[i] \in Rows /\ rows[i].action = nth[i] /\ rows[i].set = Defaults
    BY <2>3, NewRow
  <2>5. rows \in Seq(Rows) /\ Len(rows) = n /\ DOMAIN rows = 1..n
    BY <2>2, <2>4
  <2>6. taskActions' = rows /\ removed' = removed \cup lost
    BY <2>1
  <2>7. \A m \in 1..Saved : m \in lost <=> \A i \in 1..n : nth[i] # m
    OBVIOUS
  <2>8. lost \subseteq 1..Saved
    OBVIOUS
  <2>. HIDE DEF rows, lost, rowsOf
  <2>9. ListTypes'
    <3>1. Len(taskActions') + Cardinality(fetching) + ToCome(formMode', populated') <= numbered
      BY <1>4, <1>5, <1>6, <1>7, <1>8, <2>2, <2>5, <2>6
    <3>. QED BY <1>1, <1>3, <2>5, <2>6, <3>1 DEF ListTypes
  <2>10. ASSUME tidy, formMode # "shut" PROVE ListTidy'
    <3>1. Pristine
      BY <1>1, <2>10 DEF FormInv, ListTidy
    <3>2. {rows[i].action : i \in DOMAIN rows} = (1..Saved) \ lost
      <4>1. {rows[i].action : i \in DOMAIN rows} = {nth[i] : i \in 1..n}
        BY <2>4, <2>5
      <4>2. {nth[i] : i \in 1..n} = (1..Saved) \ lost
        BY <2>3, <2>7, <2>8
      <4>. QED BY <4>1, <4>2
    <3>3. \A i \in DOMAIN rows : rows[i].set = entered[rows[i].action]
      BY <2>3, <2>4, <2>5, <3>1 DEF Pristine
    <3>4. \A i, j \in DOMAIN rows : rows[i].action = rows[j].action => i = j
      <4>1. ASSUME NEW i \in 1..n, NEW j \in 1..n, nth[i] = nth[j] PROVE i = j
        <5>1. i \in Int /\ j \in Int /\ nth[i] \in Int /\ nth[j] \in Int
          BY <2>2, <2>3, <1>4
        <5>2. ~(nth[i] < nth[j]) /\ ~(nth[j] < nth[i])
          BY <4>1, <5>1
        <5>3. ~(i < j) /\ ~(j < i)
          BY <2>1, <5>2
        <5>. QED BY <5>1, <5>3
      <4>. QED BY <2>4, <2>5, <4>1
    <3>5. Kept(rows, 0, 0, Defaults, {}, 0, editDraft, Saved, entered, lost)
      BY <1>4, <2>8, <3>1, <3>2, <3>3, <3>4 DEF Kept, Pristine
    <3>6. removed' = lost
      BY <2>6, <3>1 DEF Pristine
    <3>. QED BY <1>1, <2>6, <3>1, <3>5, <3>6 DEF ListTidy, Pristine
  <2>. QED BY <2>9, <2>10
<1>10. ASSUME removed' = removed \cup (1..Saved), UNCHANGED taskActions
       PROVE  ListTypes' /\ (tidy /\ formMode # "shut" => ListTidy')
  <2>1. ListTypes'
    <3>1. Len(taskActions) + Cardinality(fetching) + ToCome(formMode', populated') <= numbered
      BY <1>4, <1>5, <1>6, <1>7, <1>8
    <3>. QED BY <1>1, <1>3, <1>10, <3>1 DEF ListTypes
  <2>2. ASSUME tidy, formMode # "shut" PROVE ListTidy'
    <3>1. Pristine
      BY <1>1, <2>2 DEF FormInv, ListTidy
    <3>2. {taskActions[i].action : i \in DOMAIN taskActions} = {} /\ DOMAIN taskActions = {}
      BY <3>1 DEF Pristine
    <3>3. Kept(taskActions, 0, 0, Defaults, {}, 0, editDraft, Saved, entered, 1..Saved)
      BY <1>4, <3>1, <3>2 DEF Kept, Pristine
    <3>4. removed' = 1..Saved
      BY <1>10, <3>1 DEF Pristine
    <3>. QED BY <1>1, <1>10, <3>1, <3>3, <3>4 DEF ListTidy, Pristine
  <2>. QED BY <2>1, <2>2
<1>11. ListTypes' /\ (tidy /\ formMode # "shut" => ListTidy')
  BY <1>9, <1>10 DEF Populate
<1>12. tidy' = tidy /\ UNCHANGED payloadVars /\ formErrors' = formErrors
       /\ UNCHANGED <<formMode, sending, duplicateTask, stored, confirmed, tidy>>
       /\ formActs' \in 0..MaxFormActs
  BY <1>1, <1>2, <1>3 DEF SendTypes
<1>. QED BY <1>11, <1>12, ListStepKeeps

(* How many details are awaited.                                             *)
LEMMA Awaited ==
  ASSUME ListTypes
  PROVE  /\ IsFiniteSet(fetching) /\ Cardinality(fetching) \in Nat
         /\ Len(taskActions) \in Nat /\ DOMAIN taskActions = 1..Len(taskActions)
         /\ Len(taskActions) <= numbered /\ numbered <= MaxActions
         /\ numbered \in Nat /\ MaxActions \in Nat
         /\ ToCome(formMode, populated) \in Nat
<1>1. numbered \in 0..MaxActions /\ MaxActions \in Nat /\ numbered \in Nat
  BY TaskFormAssumption DEF ListTypes
<1>2. IsFiniteSet(1..numbered)
  BY <1>1, FS_Interval
<1>3. IsFiniteSet(fetching)
  BY <1>2, FS_Subset DEF ListTypes
<1>4. Cardinality(fetching) \in Nat
  BY <1>3, FS_CardinalityType
<1>5. Len(taskActions) \in Nat /\ DOMAIN taskActions = 1..Len(taskActions)
  BY DEF ListTypes
<1>6. ToCome(formMode, populated) \in Nat
  BY TaskFormAssumption DEF ToCome
<1>7. Len(taskActions) <= numbered
  BY <1>1, <1>4, <1>5, <1>6 DEF ListTypes
<1>. QED BY <1>1, <1>3, <1>4, <1>5, <1>6, <1>7

(* An action is selected.                                                    *)
LEMMA SelectActionKeeps ==
  ASSUME FormInv, SelectAction
  PROVE  FormInv'
<1>1. /\ ActsOnForm /\ TidyAtList /\ (tidy => selectedAction = 0)
      /\ numbered < MaxActions /\ numbered' = numbered + 1
      /\ selectedAction' = numbered + 1
      /\ fetching' = fetching \cup {numbered + 1}
      /\ UNCHANGED <<populated, taskActions, currentAction, draft, expandedAction, editDraft,
                     entered, removed>>
      /\ UNCHANGED payloadVars /\ UNCHANGED sendVars
  BY DEF SelectAction
<1>2. UNCHANGED <<formMode, sending, submitting, duplicateTask, stored, confirmed, formErrors>>
  BY <1>1 DEF sendVars
<1>3. ListTypes
  BY DEF FormInv, FormTypes
<1>4. ListTypes'
  <2>1. numbered + 1 \notin fetching /\ numbered + 1 \in 1..MaxActions /\ numbered \in Nat
    BY <1>1, <1>3, Awaited DEF ListTypes
  <2>2. Cardinality(fetching') = Cardinality(fetching) + 1
    BY <1>1, <1>3, <2>1, Awaited, FS_AddElement
  <2>3. fetching' \subseteq 1..numbered'
    BY <1>1, <1>3, <2>1 DEF ListTypes
  <2>4. Len(taskActions') + Cardinality(fetching') + ToCome(formMode', populated') <= numbered'
    <3>1. Len(taskActions) + Cardinality(fetching) + ToCome(formMode, populated) <= numbered
      BY <1>3 DEF ListTypes
    <3>2. ToCome(formMode', populated') = ToCome(formMode, populated)
      BY <1>1, <1>2 DEF ToCome
    <3>. QED BY <1>1, <1>3, <2>2, <3>1, <3>2, Awaited
  <2>. QED BY <1>1, <1>3, <2>1, <2>3, <2>4 DEF ListTypes
<1>5. ASSUME tidy, formMode # "shut" PROVE ListTidy'
  <2>1. /\ fetching = {} /\ (formMode = "edit" => populated) /\ expandedAction = 0
        /\ selectedAction = 0
        /\ Kept(taskActions, selectedAction, currentAction, draft, fetching,
                expandedAction, editDraft, numbered, entered, removed)
    BY <1>1, <1>5, ActsWhenQuiet DEF TidyAtList
  <2>2. numbered \in Nat /\ MaxActions \in Nat /\ currentAction = 0 /\ draft = Defaults
    BY <1>3, <2>1, Awaited DEF Kept
  <2>3. /\ 1..(numbered + 1) = (1..numbered) \cup {numbered + 1}
        /\ numbered + 1 \notin 1..numbered
    BY <2>2
  <2>4. {taskActions[i].action : i \in DOMAIN taskActions}
          = (1..(numbered + 1)) \ (removed \cup {numbered + 1})
    BY <2>1, <2>3 DEF Kept
  <2>5. \A m \in 1..MaxActions : m > numbered + 1 \/ m \in {numbered + 1} => entered[m] = Defaults
    BY <2>1, <2>2 DEF Kept
  <2>6. /\ removed \subseteq 1..(numbered + 1) /\ {numbered + 1} \cap removed = {}
    BY <2>1, <2>3 DEF Kept
  <2>7. Kept(taskActions, numbered + 1, 0, Defaults, {numbered + 1}, 0, editDraft,
             numbered + 1, entered, removed)
    BY <2>1, <2>2, <2>4, <2>5, <2>6 DEF Kept
  <2>. QED BY <1>1, <1>2, <2>1, <2>2, <2>7 DEF ListTidy
<1>6. tidy' = tidy /\ formActs' \in 0..MaxFormActs
  BY <1>1, ActsWhenQuiet
<1>. QED BY <1>1, <1>2, <1>4, <1>5, <1>6, ListStepKeeps

(* The details of an action arrive.                                          *)
LEMMA ActionFetchedKeeps ==
  ASSUME FormInv, NEW n \in fetching, ActionFetched(n)
  PROVE  FormInv'
<1>. DEFINE d == [draft EXCEPT !.variables = 0]
            len == Len(taskActions)
            more == Append(taskActions, NewAction(n))
<1>1. /\ fetching' = fetching \ {n}
      /\ draft' = d /\ currentAction' = len + 1
      /\ taskActions' = Synced(more, len + 1, d)
      /\ UNCHANGED <<populated, selectedAction, expandedAction, editDraft, numbered, entered,
                     removed>>
      /\ UNCHANGED payloadVars /\ UNCHANGED sendVars /\ UNCHANGED <<tidy, formActs>>
  BY DEF ActionFetched
<1>2. UNCHANGED <<formMode, sending, submitting, duplicateTask, stored, confirmed, formErrors>>
  BY <1>1 DEF sendVars
<1>3. ListTypes /\ SendTypes
  BY DEF FormInv, FormTypes
<1>4. n \in 1..MaxActions /\ n \in 1..numbered
  BY <1>3, Awaited DEF ListTypes
<1>5. d \in Values
  BY <1>3, ValuesHold DEF ListTypes
<1>6. len \in Nat /\ DOMAIN taskActions = 1..len
  BY <1>3, Awaited
<1>7. /\ more \in Seq(Rows) /\ Len(more) = len + 1 /\ DOMAIN more = 1..(len + 1)
      /\ \A i \in 1..len : more[i] = taskActions[i]
      /\ more[len + 1].action = n
  BY <1>3, <1>4, <1>6, NewRow DEF ListTypes
<1>. HIDE DEF d, more, len
<1>8. /\ taskActions' \in Seq(Rows) /\ Len(taskActions') = len + 1
      /\ \A j \in DOMAIN more : /\ taskActions'[j].action = more[j].action
                                /\ taskActions'[j].set = IF j = len + 1 THEN d ELSE more[j].set
  <2>. DEFINE last == len + 1
  <2>1. last \in Nat /\ Len(more) = last /\ taskActions' = Synced(more, last, d)
    BY <1>1, <1>6, <1>7
  <2>. HIDE DEF last
  <2>2. more \in Seq(Rows)
    BY <1>7
  <2>3. /\ Synced(more, last, d) \in Seq(Rows) /\ Len(Synced(more, last, d)) = Len(more)
        /\ \A j \in DOMAIN more :
             /\ Synced(more, last, d)[j].action = more[j].action
             /\ Synced(more, last, d)[j].set = IF j = last THEN d ELSE more[j].set
    BY <1>5, <2>1, <2>2, SyncedRows, Zenon
  <2>. QED BY <2>1, <2>3 DEF last
<1>9. DOMAIN taskActions' = 1..(len + 1)
  BY <1>6, <1>8
<1>10. ListTypes'
  <2>1. Cardinality(fetching') = Cardinality(fetching) - 1
    BY <1>1, <1>3, Awaited, FS_RemoveElement
  <2>2. Len(taskActions) + Cardinality(fetching) + ToCome(formMode, populated) <= numbered
    BY <1>3 DEF ListTypes
  <2>3. ToCome(formMode', populated') = ToCome(formMode, populated)
    BY <1>1, <1>2 DEF ToCome
  <2>4. len = Len(taskActions)
    BY DEF len
  <2>5. Len(taskActions') + Cardinality(fetching') + ToCome(formMode', populated') <= numbered'
    BY <1>1, <1>3, <1>8, <2>1, <2>2, <2>3, <2>4, Awaited
  <2>6. Cardinality(fetching) > 0
    BY <1>3, Awaited, FS_EmptySet
  <2>7. len + 1 \in 0..MaxActions
    BY <1>3, <2>2, <2>4, <2>6, Awaited
  <2>. QED BY <1>1, <1>3, <1>5, <1>8, <2>5, <2>7 DEF ListTypes
<1>11. ASSUME tidy, formMode # "shut" PROVE ListTidy'
  <2>1. ~(formMode = "edit" /\ ~populated)
    BY <1>11 DEF FormInv, ListTidy, Pristine
  <2>2. Kept(taskActions, selectedAction, currentAction, draft, fetching,
             expandedAction, editDraft, numbered, entered, removed)
    BY <1>11, <2>1 DEF FormInv, ListTidy
  <2>3. /\ fetching = {n} /\ selectedAction = n /\ expandedAction = 0 /\ draft = Defaults
        /\ n \notin removed /\ entered[n] = Defaults
    BY <1>4, <2>2 DEF Kept
  <2>4. d = Defaults
    BY <2>3, ValuesHold DEF d
  <2>5. /\ \A i \in 1..len : taskActions'[i].action = taskActions[i].action
                             /\ taskActions'[i].set = taskActions[i].set
        /\ taskActions'[len + 1].action = n /\ taskActions'[len + 1].set = Defaults
    BY <1>6, <1>7, <1>8, <2>4
  <2>6. {taskActions[i].action : i \in 1..len} = (1..numbered) \ (removed \cup {n})
    BY <1>6, <2>2, <2>3 DEF Kept
  <2>7. {taskActions'[i].action : i \in DOMAIN taskActions'} = (1..numbered) \ removed
    <3>1. 1..(len + 1) = (1..len) \cup {len + 1}
      BY <1>6
    <3>2. {taskActions'[i].action : i \in 1..(len + 1)}
            = {taskActions[i].action : i \in 1..len} \cup {n}
      BY <2>5, <3>1
    <3>. QED BY <1>4, <1>9, <2>3, <2>6, <3>2
  <2>8. \A i \in 1..len : taskActions[i].action # n
    BY <2>6
  <2>9. \A i, j \in DOMAIN taskActions' : taskActions'[i].action = taskActions'[j].action => i = j
    <3>. SUFFICES ASSUME NEW i \in 1..(len + 1), NEW j \in 1..(len + 1),
                         taskActions'[i].action = taskActions'[j].action
                  PROVE  i = j
      BY <1>9
    <3>1. (i \in 1..len \/ i = len + 1) /\ (j \in 1..len \/ j = len + 1)
      BY <1>6
    <3>2. CASE i \in 1..len /\ j \in 1..len
      BY <3>2, <1>6, <2>2, <2>5 DEF Kept
    <3>. QED BY <3>1, <3>2, <2>5, <2>8
  <2>10. \A i \in DOMAIN taskActions' : taskActions'[i].set = entered[taskActions'[i].action]
    <3>. SUFFICES ASSUME NEW i \in 1..(len + 1)
                  PROVE  taskActions'[i].set = entered[taskActions'[i].action]
      BY <1>9
    <3>1. i \in 1..len \/ i = len + 1
      BY <1>6
    <3>2. CASE i \in 1..len
      <4>1. i # expandedAction
        BY <2>3, <3>2
      <4>. QED BY <3>2, <4>1, <1>6, <2>2, <2>5 DEF Kept
    <3>. QED BY <3>1, <3>2, <2>3, <2>5
  <2>11. len + 1 # 0 /\ len + 1 \in DOMAIN taskActions' /\ n # 0
    BY <1>4, <1>6, <1>9
  <2>12. \A m \in 1..MaxActions : m > numbered => entered[m] = Defaults
    BY <2>2 DEF Kept
  <2>13. n <= numbered /\ removed \subseteq 1..numbered
    BY <1>4, <2>2 DEF Kept
  <2>14. Kept(taskActions', n, len + 1, Defaults, {}, 0, editDraft, numbered, entered, removed)
    BY <2>3, <2>5, <2>7, <2>9, <2>10, <2>11, <2>12, <2>13 DEF Kept
  <2>. QED BY <1>1, <1>2, <2>1, <2>3, <2>4, <2>14 DEF ListTidy
<1>. QED BY <1>1, <1>2, <1>3, <1>10, <1>11, ListStepKeeps DEF SendTypes

(* The details of an action do not arrive.                                   *)
LEMMA ActionFetchFailsKeeps ==
  ASSUME FormInv, NEW n \in fetching, ActionFetchFails(n)
  PROVE  FormInv'
<1>. DEFINE d == [draft EXCEPT !.variables = 0]
<1>1. /\ fetching' = fetching \ {n} /\ formErrors' = formErrors + 1
      /\ draft' = d /\ removed' = removed \cup {n}
      /\ taskActions' = Synced(taskActions, currentAction, d)
      /\ UNCHANGED <<populated, selectedAction, currentAction, expandedAction, editDraft,
                     numbered, entered>>
      /\ UNCHANGED payloadVars
      /\ UNCHANGED <<formMode, sending, submitting, duplicateTask, stored, confirmed, tidy,
                     formActs>>
  BY DEF ActionFetchFails
<1>2. ListTypes /\ SendTypes
  BY DEF FormInv, FormTypes
<1>3. d \in Values /\ currentAction \in Nat /\ n \in 1..numbered
  BY <1>2, ValuesHold DEF ListTypes
<1>. HIDE DEF d
<1>4. /\ taskActions' \in Seq(Rows) /\ Len(taskActions') = Len(taskActions)
  BY <1>1, <1>2, <1>3, SyncedRows DEF ListTypes
<1>5. ListTypes'
  <2>1. Cardinality(fetching') = Cardinality(fetching) - 1
    BY <1>1, <1>2, Awaited, FS_RemoveElement
  <2>2. Len(taskActions) + Cardinality(fetching) + ToCome(formMode, populated) <= numbered
    BY <1>2 DEF ListTypes
  <2>3. ToCome(formMode', populated') = ToCome(formMode, populated)
    BY <1>1 DEF ToCome
  <2>4. Len(taskActions') + Cardinality(fetching') + ToCome(formMode', populated') <= numbered'
    BY <1>1, <1>2, <1>4, <2>1, <2>2, <2>3, Awaited
  <2>. QED BY <1>1, <1>2, <1>3, <1>4, <2>4 DEF ListTypes
<1>6. ASSUME tidy, formMode # "shut" PROVE ListTidy'
  <2>1. ~(formMode = "edit" /\ ~populated)
    BY <1>6 DEF FormInv, ListTidy, Pristine
  <2>2. Kept(taskActions, selectedAction, currentAction, draft, fetching,
             expandedAction, editDraft, numbered, entered, removed)
    BY <1>6, <2>1 DEF FormInv, ListTidy
  <2>3. /\ fetching = {n} /\ selectedAction = n /\ expandedAction = 0 /\ currentAction = 0
        /\ draft = Defaults
    BY <2>2 DEF Kept
  <2>4. d = Defaults /\ taskActions' = taskActions
    BY <1>1, <1>2, <2>3, ValuesHold, Awaited DEF d, Synced
  <2>5. {taskActions[i].action : i \in DOMAIN taskActions} = (1..numbered) \ (removed \cup {n})
    BY <2>2, <2>3 DEF Kept
  <2>6. Kept(taskActions, n, 0, Defaults, {}, 0, editDraft, numbered, entered, removed \cup {n})
    BY <1>3, <2>2, <2>3, <2>5 DEF Kept
  <2>. QED BY <1>1, <2>1, <2>3, <2>4, <2>6 DEF ListTidy
<1>. QED BY <1>1, <1>2, <1>5, <1>6, ListStepKeeps DEF SendTypes

(* A field of the action in the form is changed.                             *)
LEMMA EditFormKeeps ==
  ASSUME FormInv, NEW x \in Fields, EditForm(x)
  PROVE  FormInv'
<1>. DEFINE d == [draft EXCEPT ![x] = formActs']
            en == [entered EXCEPT ![selectedAction][x] = formActs']
<1>1. /\ ActsOnForm /\ TidyAtList /\ selectedAction # 0
      /\ draft' = d /\ taskActions' = Synced(taskActions, currentAction, d) /\ entered' = en
      /\ UNCHANGED <<populated, selectedAction, currentAction, fetching, loadingVars,
                     expandedAction, editDraft, numbered, removed>>
      /\ UNCHANGED payloadVars /\ UNCHANGED sendVars
  BY DEF EditForm
<1>2. UNCHANGED <<formMode, sending, submitting, duplicateTask, stored, confirmed, formErrors>>
  BY <1>1 DEF sendVars
<1>3. ListTypes
  BY DEF FormInv, FormTypes
<1>4. tidy' = tidy /\ formActs' \in 0..MaxFormActs
  BY <1>1, ActsWhenQuiet
<1>5. draft \in Values /\ d \in Values /\ currentAction \in Nat /\ selectedAction \in 1..MaxActions
  <2>1. draft \in Values /\ d \in Values
    BY <1>3, <1>4, ValuesHold DEF ListTypes
  <2>2. currentAction \in 0..MaxActions /\ selectedAction \in 0..MaxActions /\ MaxActions \in Nat
    BY <1>3, Awaited DEF ListTypes
  <2>. QED BY <1>1, <2>1, <2>2
<1>6. [entered[selectedAction] EXCEPT ![x] = formActs'] \in Values
  BY <1>3, <1>4, <1>5, ValuesHold DEF ListTypes
<1>7. /\ en = [entered EXCEPT ![selectedAction] = [entered[selectedAction] EXCEPT ![x] = formActs']]
      /\ en \in [1..MaxActions -> Values]
  BY <1>3, <1>5, <1>6 DEF ListTypes
<1>8. /\ en[selectedAction] = [entered[selectedAction] EXCEPT ![x] = formActs']
      /\ \A m \in 1..MaxActions : m # selectedAction => en[m] = entered[m]
  BY <1>3, <1>5, <1>7 DEF ListTypes
<1>. HIDE DEF en
<1>9. entered[selectedAction] = draft => en[selectedAction] = d
  BY <1>8
<1>. HIDE DEF d
<1>10. /\ taskActions' \in Seq(Rows) /\ Len(taskActions') = Len(taskActions)
       /\ \A j \in DOMAIN taskActions :
            /\ taskActions'[j].action = taskActions[j].action
            /\ taskActions'[j].set = IF j = currentAction THEN d ELSE taskActions[j].set
  <2>1. taskActions \in Seq(Rows)
    BY <1>3 DEF ListTypes
  <2>. DEFINE synced == Synced(taskActions, currentAction, d)
  <2>2. /\ synced \in Seq(Rows) /\ Len(synced) = Len(taskActions)
        /\ \A j \in DOMAIN taskActions :
             /\ synced[j].action = taskActions[j].action
             /\ synced[j].set = IF j = currentAction THEN d ELSE taskActions[j].set
    BY <1>5, <2>1, SyncedRows, Zenon
  <2>. HIDE DEF synced
  <2>3. taskActions' = synced
    BY <1>1 DEF synced
  <2>. QED BY <2>2, <2>3
<1>11. DOMAIN taskActions' = DOMAIN taskActions
  BY <1>3, <1>10 DEF ListTypes
<1>12. ListTypes'
  BY <1>1, <1>2, <1>3, <1>5, <1>7, <1>10 DEF ListTypes, ToCome
<1>13. ASSUME tidy, formMode # "shut" PROVE ListTidy'
  <2>1. /\ fetching = {} /\ (formMode = "edit" => populated) /\ expandedAction = 0
        /\ Kept(taskActions, selectedAction, currentAction, draft, fetching,
                expandedAction, editDraft, numbered, entered, removed)
    BY <1>1, <1>13, ActsWhenQuiet DEF TidyAtList
  <2>2. {taskActions'[i].action : i \in DOMAIN taskActions'}
          = {taskActions[i].action : i \in DOMAIN taskActions}
    BY <1>10, <1>11
  <2>3. \A i, j \in DOMAIN taskActions' : taskActions'[i].action = taskActions'[j].action => i = j
    BY <1>10, <1>11, <2>1 DEF Kept
  <2>4. \A m \in 1..MaxActions : m > numbered => en[m] = Defaults
    BY <1>3, <1>5, <1>8, <2>1, Awaited DEF Kept
  <2>5. \A i \in DOMAIN taskActions : taskActions[i].action \in 1..MaxActions
    <3>1. \A i \in DOMAIN taskActions : taskActions[i] \in Rows
      BY <1>3 DEF ListTypes
    <3>. QED BY <3>1 DEF Rows
  <2>6. \A i \in DOMAIN taskActions' : taskActions'[i].set = en[taskActions'[i].action]
    <3>. SUFFICES ASSUME NEW i \in DOMAIN taskActions
                  PROVE  taskActions'[i].set = en[taskActions'[i].action]
      BY <1>11
    <3>1. CASE i = currentAction
      <4>1. i # 0
        BY <1>3, Awaited
      <4>2. taskActions[i].action = selectedAction /\ draft = entered[selectedAction]
        BY <2>1, <3>1, <4>1 DEF Kept
      <4>. QED BY <1>9, <1>10, <3>1, <4>2
    <3>2. CASE i # currentAction
      <4>1. i # expandedAction
        BY <1>3, <2>1, Awaited
      <4>2. taskActions[i].set = entered[taskActions[i].action]
        BY <2>1, <4>1 DEF Kept
      <4>3. taskActions[i].action # selectedAction
        <5>1. CASE currentAction = 0
          <6>1. selectedAction \in removed
            BY <1>1, <2>1, <5>1 DEF Kept
          <6>. QED BY <2>1, <6>1 DEF Kept
        <5>2. CASE currentAction # 0
          BY <2>1, <3>2, <5>2 DEF Kept
        <5>. QED BY <5>1, <5>2
      <4>. QED BY <1>8, <1>10, <2>5, <3>2, <4>2, <4>3
    <3>. QED BY <3>1, <3>2
  <2>7. currentAction # 0 => d = en[selectedAction]
    BY <1>9, <2>1 DEF Kept
  <2>8. Kept(taskActions', selectedAction, currentAction, d, {}, 0, editDraft, numbered, en,
             removed)
    BY <1>1, <1>10, <1>11, <2>1, <2>2, <2>3, <2>4, <2>6, <2>7 DEF Kept
  <2>. QED BY <1>1, <1>2, <2>1, <2>8 DEF ListTidy
<1>. QED BY <1>1, <1>2, <1>4, <1>12, <1>13, ListStepKeeps

(* The user starts on another action.                                        *)
LEMMA AddAnotherKeeps ==
  ASSUME FormInv, AddAnother
  PROVE  FormInv'
<1>1. /\ ActsOnForm /\ TidyAtList
      /\ selectedAction' = 0 /\ currentAction' = 0 /\ draft' = Defaults
      /\ UNCHANGED <<populated, taskActions, fetching, loadingVars, expandedAction, editDraft,
                     numbered, entered, removed>>
      /\ UNCHANGED payloadVars /\ UNCHANGED sendVars
  BY DEF AddAnother, ClearForm
<1>2. UNCHANGED <<formMode, sending, submitting, duplicateTask, stored, confirmed, formErrors>>
  BY <1>1 DEF sendVars
<1>3. ListTypes
  BY DEF FormInv, FormTypes
<1>4. tidy' = tidy /\ formActs' \in 0..MaxFormActs
  BY <1>1, ActsWhenQuiet
<1>5. 0 \in 0..MaxActions
  BY TaskFormAssumption
<1>6. ListTypes'
  BY <1>1, <1>2, <1>3, <1>5, ValuesHold DEF ListTypes, ToCome
<1>7. ASSUME tidy, formMode # "shut" PROVE ListTidy'
  <2>1. /\ fetching = {} /\ (formMode = "edit" => populated) /\ expandedAction = 0
        /\ Kept(taskActions, selectedAction, currentAction, draft, fetching,
                expandedAction, editDraft, numbered, entered, removed)
    BY <1>1, <1>7, ActsWhenQuiet DEF TidyAtList
  <2>2. 0 <= numbered
    BY <1>3, Awaited
  <2>3. Kept(taskActions, 0, 0, Defaults, fetching, expandedAction, editDraft, numbered,
             entered, removed)
    BY <2>1, <2>2 DEF Kept
  <2>. QED BY <1>1, <1>2, <2>1, <2>3 DEF ListTidy
<1>. QED BY <1>1, <1>2, <1>4, <1>6, <1>7, ListStepKeeps

(* The index of the form stays on its row when another goes.                 *)
LEMMA RemoveActionKeeps ==
  ASSUME FormInv, NEW i \in DOMAIN taskActions, RemoveAction(i)
  PROVE  FormInv'
<1>. DEFINE a == RemoveAt(taskActions, i)
            len == Len(taskActions)
            At(j) == IF j < i THEN j ELSE j + 1
<1>1. /\ ActsOnForm /\ TidyAtList
      /\ removed' = removed \cup {taskActions[i].action}
      /\ IF i = expandedAction
           THEN expandedAction' = 0 /\ editDraft' = [editDraft EXCEPT ![i] = NoDraft]
           ELSE expandedAction' = expandedAction /\ editDraft' = editDraft
      /\ IF i = currentAction
           THEN selectedAction' = 0 /\ currentAction' = 0 /\ draft' = Defaults
           ELSE /\ currentAction' = IF i < currentAction THEN currentAction - 1 ELSE currentAction
                /\ selectedAction' = selectedAction /\ draft' = draft
      /\ taskActions' = Synced(a, currentAction', draft')
      /\ UNCHANGED <<populated, fetching, loadingVars, numbered, entered>>
      /\ UNCHANGED payloadVars /\ UNCHANGED sendVars
  BY DEF RemoveAction, ClearForm, CurrentWithout
<1>2. UNCHANGED <<formMode, sending, submitting, duplicateTask, stored, confirmed, formErrors>>
  BY <1>1 DEF sendVars
<1>3. ListTypes
  BY DEF FormInv, FormTypes
<1>4. tidy' = tidy /\ formActs' \in 0..MaxFormActs
  BY <1>1, ActsWhenQuiet
<1>5. /\ len \in Nat /\ len <= MaxActions /\ MaxActions \in Nat /\ i \in 1..len
      /\ DOMAIN taskActions = 1..len
      /\ currentAction \in 0..MaxActions /\ taskActions \in Seq(Rows)
  BY <1>3, Awaited DEF ListTypes
<1>6. /\ a \in Seq(Rows) /\ Len(a) = len - 1
      /\ \A j \in 1..(len - 1) : a[j] = taskActions[At(j)]
  BY <1>5, RemovedAt
<1>. HIDE DEF a, len
<1>7. currentAction' \in 0..MaxActions /\ draft' \in Values /\ selectedAction' \in 0..MaxActions
  <2>1. CASE i = currentAction
    BY <1>1, <1>5, <2>1, ValuesHold
  <2>2. CASE i # currentAction /\ i < currentAction
    <3>1. currentAction - 1 \in 0..MaxActions
      BY <1>5, <2>2
    <3>. QED BY <1>1, <1>3, <2>2, <3>1 DEF ListTypes
  <2>3. CASE i # currentAction /\ ~(i < currentAction)
    BY <1>1, <1>3, <2>3 DEF ListTypes
  <2>. QED BY <2>1, <2>2, <2>3
<1>8. currentAction' \in Nat
  BY <1>5, <1>7
<1>9. /\ taskActions' \in Seq(Rows) /\ Len(taskActions') = len - 1
      /\ \A j \in DOMAIN a : /\ taskActions'[j].action = a[j].action
                             /\ taskActions'[j].set =
                                  IF j = currentAction' THEN draft' ELSE a[j].set
  <2>1. a \in Seq(Rows) /\ draft' \in Values /\ taskActions' = Synced(a, currentAction', draft')
    BY <1>1, <1>6, <1>7
  <2>. DEFINE synced == Synced(a, currentAction', draft')
  <2>2. /\ synced \in Seq(Rows) /\ Len(synced) = Len(a)
        /\ \A j \in DOMAIN a : /\ synced[j].action = a[j].action
                               /\ synced[j].set = IF j = currentAction' THEN draft' ELSE a[j].set
    BY <1>8, <2>1, SyncedRows, Zenon
  <2>. HIDE DEF synced
  <2>3. taskActions' = synced
    BY <2>1 DEF synced
  <2>. QED BY <1>6, <2>2, <2>3
<1>10. DOMAIN a = 1..(len - 1) /\ DOMAIN taskActions' = 1..(len - 1)
  BY <1>5, <1>6, <1>9
<1>11. expandedAction' \in 0..MaxActions /\ editDraft' \in [1..MaxActions -> Values \cup {NoDraft}]
  <2>1. /\ expandedAction \in 0..MaxActions
        /\ editDraft \in [1..MaxActions -> Values \cup {NoDraft}]
        /\ 0 \in 0..MaxActions
    BY <1>3, <1>5 DEF ListTypes
  <2>2. CASE i = expandedAction
    BY <1>1, <2>1, <2>2
  <2>3. CASE i # expandedAction
    BY <1>1, <2>1, <2>3
  <2>. QED BY <2>2, <2>3
<1>12. Len(taskActions') + Cardinality(fetching') + ToCome(formMode', populated') <= numbered'
  <2>1. Len(taskActions) + Cardinality(fetching) + ToCome(formMode, populated) <= numbered
    BY <1>3 DEF ListTypes
  <2>2. ToCome(formMode', populated') = ToCome(formMode, populated)
    BY <1>1, <1>2 DEF ToCome
  <2>3. len = Len(taskActions)
    BY DEF len
  <2>. QED BY <1>1, <1>3, <1>9, <2>1, <2>2, <2>3, Awaited
<1>13. ListTypes'
  BY <1>1, <1>3, <1>7, <1>9, <1>11, <1>12 DEF ListTypes
<1>14. ASSUME tidy, formMode # "shut" PROVE ListTidy'
  <2>1. /\ fetching = {} /\ (formMode = "edit" => populated) /\ expandedAction = 0
        /\ Kept(taskActions, selectedAction, currentAction, draft, fetching,
                expandedAction, editDraft, numbered, entered, removed)
    BY <1>1, <1>14, ActsWhenQuiet DEF TidyAtList
  <2>2. expandedAction' = 0 /\ editDraft' = editDraft
    BY <1>1, <1>5, <2>1
  <2>. DEFINE gone == taskActions[i].action
  <2>3. \A j \in 1..(len - 1) : At(j) \in 1..len /\ At(j) # i
    BY <1>5
  <2>4. \A j \in 1..len : j # i => \E k \in 1..(len - 1) : At(k) = j
    <3>. SUFFICES ASSUME NEW j \in 1..len, j # i PROVE \E k \in 1..(len - 1) : At(k) = j
      OBVIOUS
    <3>1. CASE j < i
      <4>1. j \in 1..(len - 1) /\ At(j) = j
        BY <1>5, <3>1
      <4>. QED BY <4>1
    <3>2. CASE ~(j < i)
      <4>1. j - 1 \in 1..(len - 1) /\ At(j - 1) = j
        BY <1>5, <3>2
      <4>. QED BY <4>1
    <3>. QED BY <3>1, <3>2
  <2>5. \A j, k \in 1..(len - 1) : At(j) = At(k) => j = k
    BY <1>5
  <2>6. \A j \in 1..(len - 1) : /\ taskActions'[j].action = taskActions[At(j)].action
                                /\ taskActions'[j].set = IF j = currentAction' THEN draft'
                                                         ELSE taskActions[At(j)].set
    BY <1>6, <1>9, <1>10
  <2>. HIDE DEF At
  <2>7. {taskActions'[j].action : j \in 1..(len - 1)}
          = {taskActions[j].action : j \in 1..len} \ {gone}
    <3>1. \A j, k \in DOMAIN taskActions : taskActions[j].action = taskActions[k].action => j = k
      BY <2>1 DEF Kept
    <3>2. \A j \in 1..len : j # i => taskActions[j].action # gone
      BY <1>5, <3>1
    <3>. QED BY <2>3, <2>4, <2>6, <3>2
  <2>8. {taskActions'[j].action : j \in DOMAIN taskActions'} = (1..numbered) \ (removed' \cup {})
    BY <1>1, <1>5, <1>10, <2>1, <2>7 DEF Kept
  <2>9. \A j, k \in DOMAIN taskActions' : taskActions'[j].action = taskActions'[k].action => j = k
    BY <1>5, <1>10, <2>1, <2>3, <2>5, <2>6 DEF Kept
  <2>10. removed' \subseteq 1..numbered
    <3>1. gone \in {taskActions[j].action : j \in DOMAIN taskActions}
      OBVIOUS
    <3>2. gone \in 1..numbered /\ removed \subseteq 1..numbered
      BY <2>1, <3>1 DEF Kept
    <3>. QED BY <1>1, <3>2
  <2>11. currentAction # 0 => /\ currentAction \in 1..len
                              /\ taskActions[currentAction].action = selectedAction
                              /\ draft = entered[selectedAction]
    BY <1>5, <2>1 DEF Kept
  <2>12. currentAction' # 0 => /\ currentAction' \in 1..(len - 1)
                               /\ At(currentAction') = currentAction
                               /\ currentAction # 0 /\ i # currentAction
    BY <1>1, <1>5, <2>11 DEF At
  <2>13. currentAction' # 0 => /\ currentAction' \in DOMAIN taskActions'
                               /\ taskActions'[currentAction'].action = selectedAction'
                               /\ draft' = entered[selectedAction']
    BY <1>1, <1>10, <2>6, <2>11, <2>12
  <2>14. \A j \in 1..(len - 1) : taskActions'[j].set = entered[taskActions'[j].action]
    <3>. SUFFICES ASSUME NEW j \in 1..(len - 1)
                  PROVE  taskActions'[j].set = entered[taskActions'[j].action]
      OBVIOUS
    <3>1. CASE j = currentAction'
      <4>1. j # 0
        BY <1>5
      <4>. QED BY <2>6, <2>13, <3>1, <4>1
    <3>2. CASE j # currentAction'
      <4>1. At(j) \in 1..len /\ At(j) # 0
        BY <1>5, <2>3
      <4>2. taskActions[At(j)].set = entered[taskActions[At(j)].action]
        BY <1>5, <2>1, <4>1 DEF Kept
      <4>. QED BY <2>6, <3>2, <4>2
    <3>. QED BY <3>1, <3>2
  <2>15. /\ selectedAction' = 0 => currentAction' = 0 /\ draft' = Defaults
         /\ selectedAction' # 0 /\ currentAction' = 0 => selectedAction' \in removed'
         /\ selectedAction' <= numbered
    <3>1. CASE i = currentAction
      BY <1>1, <1>3, <3>1, Awaited
    <3>2. CASE i # currentAction
      <4>1. selectedAction' = selectedAction /\ draft' = draft
        BY <1>1, <3>2
      <4>2. currentAction = 0 => currentAction' = 0
        BY <1>1, <1>5, <3>2
      <4>3. currentAction' = 0 => currentAction = 0
        BY <1>1, <1>5, <3>2
      <4>. QED BY <1>1, <2>1, <4>1, <4>2, <4>3 DEF Kept
    <3>. QED BY <3>1, <3>2
  <2>16. \A m \in 1..MaxActions : m > numbered => entered[m] = Defaults
    BY <2>1 DEF Kept
  <2>17. Kept(taskActions', selectedAction', currentAction', draft', {}, 0, editDraft, numbered,
              entered, removed')
    BY <1>10, <2>8, <2>9, <2>10, <2>13, <2>14, <2>15, <2>16 DEF Kept
  <2>. QED BY <1>1, <1>2, <2>1, <2>2, <2>17 DEF ListTidy
<1>. QED BY <1>1, <1>2, <1>4, <1>13, <1>14, ListStepKeeps

(* The expanded row.                                                         *)
LEMMA ExpandKeeps ==
  ASSUME FormInv, NEW i \in DOMAIN taskActions, Expand(i)
  PROVE  FormInv'
<1>1. /\ ActsOnForm /\ TidyAtList /\ (tidy => i # currentAction)
      /\ editDraft' = [editDraft EXCEPT ![i] = taskActions[i].set] /\ expandedAction' = i
      /\ UNCHANGED <<populated, taskActions, selectedAction, currentAction, draft, fetching,
                     loadingVars, numbered, entered, removed>>
      /\ UNCHANGED payloadVars /\ UNCHANGED sendVars
  BY DEF Expand, InForm
<1>2. UNCHANGED <<formMode, sending, submitting, duplicateTask, stored, confirmed, formErrors>>
  BY <1>1 DEF sendVars
<1>3. ListTypes
  BY DEF FormInv, FormTypes
<1>4. tidy' = tidy /\ formActs' \in 0..MaxFormActs
  BY <1>1, ActsWhenQuiet
<1>5. i \in 1..MaxActions /\ i \in 0..MaxActions /\ i # 0
  BY <1>3, Awaited
<1>6. taskActions[i].set \in Values
  <2>1. taskActions[i] \in Rows
    BY <1>3 DEF ListTypes
  <2>. QED BY <2>1 DEF Rows
<1>7. /\ editDraft' \in [1..MaxActions -> Values \cup {NoDraft}]
      /\ editDraft'[i] = taskActions[i].set
  BY <1>1, <1>3, <1>5, <1>6 DEF ListTypes
<1>8. ListTypes'
  BY <1>1, <1>2, <1>3, <1>5, <1>7 DEF ListTypes, ToCome
<1>9. ASSUME tidy, formMode # "shut" PROVE ListTidy'
  <2>1. /\ fetching = {} /\ (formMode = "edit" => populated) /\ expandedAction = 0
        /\ Kept(taskActions, selectedAction, currentAction, draft, fetching,
                expandedAction, editDraft, numbered, entered, removed)
    BY <1>1, <1>9, ActsWhenQuiet DEF TidyAtList
  <2>2. editDraft'[i] = entered[taskActions[i].action]
    BY <1>5, <1>7, <2>1 DEF Kept
  <2>3. \A j \in DOMAIN taskActions : taskActions[j].set = entered[taskActions[j].action]
    <3>1. 0 \notin DOMAIN taskActions
      BY <1>3, Awaited
    <3>. QED BY <2>1, <3>1 DEF Kept
  <2>4. Kept(taskActions, selectedAction, currentAction, draft, fetching, i, editDraft',
             numbered, entered, removed)
    BY <1>1, <1>5, <1>9, <2>1, <2>2, <2>3 DEF Kept
  <2>. QED BY <1>1, <1>2, <2>1, <2>4 DEF ListTidy
<1>. QED BY <1>1, <1>2, <1>4, <1>8, <1>9, ListStepKeeps

(* A field of the action in the expanded row is changed.                     *)
LEMMA EditRowKeeps ==
  ASSUME FormInv, NEW x \in Fields, EditRow(x)
  PROVE  FormInv'
<1>. DEFINE i == expandedAction
            m == taskActions[i].action
            d == [editDraft[i] EXCEPT ![x] = formActs']
            en == [entered EXCEPT ![m][x] = formActs']
<1>1. /\ ActsOnForm /\ i \in DOMAIN taskActions /\ editDraft[i] # NoDraft
      /\ editDraft' = [editDraft EXCEPT ![i] = d] /\ entered' = en
      /\ UNCHANGED <<populated, taskActions, selectedAction, currentAction, draft, fetching,
                     loadingVars, expandedAction, numbered, removed>>
      /\ UNCHANGED payloadVars /\ UNCHANGED sendVars
  BY DEF EditRow
<1>2. UNCHANGED <<formMode, sending, submitting, duplicateTask, stored, confirmed, formErrors>>
  BY <1>1 DEF sendVars
<1>3. ListTypes
  BY DEF FormInv, FormTypes
<1>4. tidy' = tidy /\ formActs' \in 0..MaxFormActs
  BY <1>1, ActsWhenQuiet
<1>5. i \in 1..MaxActions /\ i # 0
  BY <1>1, <1>3, Awaited
<1>6. m \in 1..MaxActions
  <2>1. taskActions[i] \in Rows
    BY <1>1, <1>3 DEF ListTypes
  <2>. QED BY <2>1 DEF Rows
<1>7. editDraft[i] \in Values /\ entered[m] \in Values
  BY <1>1, <1>3, <1>5, <1>6 DEF ListTypes
<1>8. d \in Values /\ [entered[m] EXCEPT ![x] = formActs'] \in Values
  BY <1>4, <1>7, ValuesHold
<1>9. /\ en = [entered EXCEPT ![m] = [entered[m] EXCEPT ![x] = formActs']]
      /\ en \in [1..MaxActions -> Values]
  BY <1>3, <1>6, <1>8 DEF ListTypes
<1>10. /\ en[m] = [entered[m] EXCEPT ![x] = formActs']
       /\ \A k \in 1..MaxActions : k # m => en[k] = entered[k]
  BY <1>3, <1>6, <1>9 DEF ListTypes
<1>11. editDraft[i] = entered[m] => en[m] = d
  BY <1>10
<1>. HIDE DEF en, d
<1>12. editDraft' \in [1..MaxActions -> Values \cup {NoDraft}] /\ editDraft'[i] = d
  BY <1>1, <1>3, <1>5, <1>8 DEF ListTypes
<1>13. ListTypes'
  BY <1>1, <1>2, <1>3, <1>9, <1>12 DEF ListTypes, ToCome
<1>14. ASSUME tidy, formMode # "shut" PROVE ListTidy'
  <2>1. /\ fetching = {} /\ (formMode = "edit" => populated)
        /\ Kept(taskActions, selectedAction, currentAction, draft, fetching,
                expandedAction, editDraft, numbered, entered, removed)
    BY <1>1, <1>14, ActsWhenQuiet
  <2>2. editDraft'[i] = en[m] /\ i # currentAction
    BY <1>5, <1>11, <1>12, <2>1 DEF Kept
  <2>3. \A j \in DOMAIN taskActions : j # i => taskActions[j].action # m
    BY <1>1, <2>1 DEF Kept
  <2>4. \A j \in DOMAIN taskActions : taskActions[j].action \in 1..MaxActions
    <3>1. \A j \in DOMAIN taskActions : taskActions[j] \in Rows
      BY <1>3 DEF ListTypes
    <3>. QED BY <3>1 DEF Rows
  <2>. HIDE DEF m
  <2>5. \A j \in DOMAIN taskActions : j # i => taskActions[j].set = en[taskActions[j].action]
    BY <1>10, <2>1, <2>3, <2>4 DEF Kept
  <2>6. m <= numbered
    <3>1. m \in {taskActions[j].action : j \in DOMAIN taskActions}
      BY <1>1 DEF m
    <3>2. m \in 1..numbered
      BY <2>1, <3>1 DEF Kept
    <3>. QED BY <3>2
  <2>7. \A k \in 1..MaxActions : k > numbered => en[k] = Defaults
    <3>. SUFFICES ASSUME NEW k \in 1..MaxActions, k > numbered PROVE en[k] = Defaults
      OBVIOUS
    <3>1. k # m
      BY <1>3, <1>6, <2>6, Awaited
    <3>. QED BY <1>10, <2>1, <3>1 DEF Kept
  <2>8. currentAction # 0 => draft = en[selectedAction]
    <3>. SUFFICES ASSUME currentAction # 0 PROVE draft = en[selectedAction]
      OBVIOUS
    <3>1. /\ currentAction \in DOMAIN taskActions /\ draft = entered[selectedAction]
          /\ taskActions[currentAction].action = selectedAction
      BY <2>1 DEF Kept
    <3>2. selectedAction # m /\ selectedAction \in 1..MaxActions
      BY <2>2, <2>3, <2>4, <3>1
    <3>. QED BY <1>10, <3>1, <3>2
  <2>9. Kept(taskActions, selectedAction, currentAction, draft, fetching, expandedAction,
             editDraft', numbered, en, removed)
    BY <1>1, <2>1, <2>2, <2>5, <2>7, <2>8 DEF Kept, m
  <2>. QED BY <1>1, <1>2, <2>1, <2>9 DEF ListTidy
<1>. QED BY <1>1, <1>2, <1>4, <1>13, <1>14, ListStepKeeps

(* The expanded row is collapsed: its edits go to the list.                  *)
LEMMA CollapseKeeps ==
  ASSUME FormInv, Collapse
  PROVE  FormInv'
<1>. DEFINE i == expandedAction
            row == [taskActions[i] EXCEPT !.set = editDraft[i]]
<1>1. /\ ActsOnForm /\ i \in DOMAIN taskActions
      /\ IF editDraft[i] = NoDraft THEN taskActions' = taskActions
         ELSE taskActions' = [taskActions EXCEPT ![i] = row]
      /\ editDraft' = [editDraft EXCEPT ![i] = NoDraft] /\ expandedAction' = 0
      /\ UNCHANGED <<populated, selectedAction, currentAction, draft, fetching, loadingVars,
                     numbered, entered, removed>>
      /\ UNCHANGED payloadVars /\ UNCHANGED sendVars
  BY DEF Collapse
<1>2. UNCHANGED <<formMode, sending, submitting, duplicateTask, stored, confirmed, formErrors>>
  BY <1>1 DEF sendVars
<1>3. ListTypes
  BY DEF FormInv, FormTypes
<1>4. tidy' = tidy /\ formActs' \in 0..MaxFormActs
  BY <1>1, ActsWhenQuiet
<1>5. i \in 1..MaxActions /\ i # 0 /\ 0 \in 0..MaxActions
  BY <1>1, <1>3, Awaited
<1>6. taskActions[i] \in Rows /\ taskActions \in Seq(Rows)
  BY <1>1, <1>3 DEF ListTypes
<1>7. editDraft[i] # NoDraft => /\ row \in Rows /\ row.action = taskActions[i].action
                                /\ row.set = editDraft[i]
  BY <1>3, <1>5, <1>6 DEF ListTypes, Rows
<1>. HIDE DEF row
<1>8. /\ taskActions' \in Seq(Rows) /\ Len(taskActions') = Len(taskActions)
      /\ \A j \in DOMAIN taskActions :
           taskActions'[j] = IF j = i /\ editDraft[i] # NoDraft THEN row ELSE taskActions[j]
  <2>1. CASE editDraft[i] = NoDraft
    BY <1>1, <1>6, <2>1
  <2>2. CASE editDraft[i] # NoDraft
    <3>1. row \in Rows /\ taskActions' = [taskActions EXCEPT ![i] = row]
      BY <1>1, <1>7, <2>2
    <3>2. taskActions' \in Seq(Rows) /\ Len(taskActions') = Len(taskActions)
      BY <1>1, <1>6, <3>1, ExceptSeq
    <3>. QED BY <1>6, <2>2, <3>1, <3>2
  <2>. QED BY <2>1, <2>2
<1>9. DOMAIN taskActions' = DOMAIN taskActions
  BY <1>6, <1>8
<1>10. editDraft' \in [1..MaxActions -> Values \cup {NoDraft}]
  BY <1>1, <1>3, <1>5 DEF ListTypes
<1>11. ListTypes'
  BY <1>1, <1>2, <1>3, <1>5, <1>8, <1>10 DEF ListTypes, ToCome
<1>12. ASSUME tidy, formMode # "shut" PROVE ListTidy'
  <2>1. /\ fetching = {} /\ (formMode = "edit" => populated)
        /\ Kept(taskActions, selectedAction, currentAction, draft, fetching,
                expandedAction, editDraft, numbered, entered, removed)
    BY <1>1, <1>12, ActsWhenQuiet
  <2>2. editDraft[i] = entered[taskActions[i].action] /\ i # currentAction
    BY <1>5, <2>1 DEF Kept
  <2>3. editDraft[i] # NoDraft
    <3>1. taskActions[i].action \in 1..MaxActions
      BY <1>6 DEF Rows
    <3>. QED BY <1>3, <2>2, <3>1, ValuesHold DEF ListTypes
  <2>4. \A j \in DOMAIN taskActions : taskActions'[j].action = taskActions[j].action
    BY <1>7, <1>8
  <2>5. \A j \in DOMAIN taskActions : taskActions'[j].set = entered[taskActions'[j].action]
    <3>. SUFFICES ASSUME NEW j \in DOMAIN taskActions
                  PROVE  taskActions'[j].set = entered[taskActions'[j].action]
      OBVIOUS
    <3>1. CASE j = i
      BY <1>7, <1>8, <2>2, <2>3, <2>4, <3>1
    <3>2. CASE j # i
      BY <1>8, <2>1, <3>2 DEF Kept
    <3>. QED BY <3>1, <3>2
  <2>6. {taskActions'[j].action : j \in DOMAIN taskActions'}
          = {taskActions[j].action : j \in DOMAIN taskActions}
    BY <1>9, <2>4
  <2>7. \A j, k \in DOMAIN taskActions' : taskActions'[j].action = taskActions'[k].action => j = k
    BY <1>9, <2>1, <2>4 DEF Kept
  <2>8. Kept(taskActions', selectedAction, currentAction, draft, fetching, 0, editDraft',
             numbered, entered, removed)
    BY <1>9, <2>1, <2>4, <2>5, <2>6, <2>7 DEF Kept
  <2>. QED BY <1>1, <1>2, <2>1, <2>8 DEF ListTidy
<1>. QED BY <1>1, <1>2, <1>4, <1>11, <1>12, ListStepKeeps

-----------------------------------------------------------------------------
(* The payload.                                                              *)
LEMMA PayloadStepKeeps ==
  ASSUME FormInv, PayloadTypes', formMode # "shut" => PayloadHolds',
         tidy /\ formMode # "shut" => PayloadTidy',
         UNCHANGED listVars,
         UNCHANGED <<formMode, sending, duplicateTask, stored, confirmed, tidy>>,
         formErrors' \in {formErrors, formErrors + 1}, formActs' \in 0..MaxFormActs
  PROVE  FormInv'
<1>1. ListTypes /\ SendTypes
  BY DEF FormInv, FormTypes
<1>2. formErrors \in Nat /\ formErrors' \in Nat /\ formErrors' >= formErrors
  BY <1>1 DEF SendTypes
<1>3. ListTypes' /\ (ListTidy => ListTidy')
  BY <1>1, ListStays
<1>4. SendTypes' /\ (SendTidy => SendTidy')
  BY <1>1, <1>2, SendStays
<1>. QED BY <1>3, <1>4 DEF FormInv, FormTypes

(* Acts of the user on the payload.                                          *)
LEMMA ChoosesPayload ==
  ASSUME FormInv, ActsOnForm, UNCHANGED listVars, UNCHANGED sendVars, PayloadTypes', PayloadHolds',
         tidy => PayloadTidy'
  PROVE  FormInv'
<1>1. UNCHANGED <<formMode, sending, submitting, duplicateTask, stored, confirmed, formErrors>>
  BY DEF sendVars
<1>. QED BY <1>1, ActsWhenQuiet, PayloadStepKeeps

(* The user chooses, clears or types a payload.                              *)
LEMMA PayloadActsKeep ==
  ASSUME FormInv,
         \/ \E o \in Operators : ChooseOperator(o)
         \/ \E p \in Payloads : ChoosePayload(p)
         \/ ClearPayload \/ TypePayload
  PROVE  FormInv'
<1>1. /\ ActsOnForm /\ UNCHANGED listVars /\ UNCHANGED sendVars
  BY DEF ChooseOperator, ChoosePayload, ClearPayload, TypePayload
<1>2. /\ formMode # "shut" /\ (tidy => lookups = {})
      /\ formErrors' = formErrors
  BY <1>1, ActsWhenQuiet DEF sendVars
<1>3. PayloadTypes /\ PayloadHolds /\ (tidy => PayloadTidy)
  BY <1>2 DEF FormInv, FormTypes
<1>4. /\ Blank \notin Payloads \cup Operators \cup {Typed}
      /\ Payloads \cap Operators = {} /\ Typed \notin Payloads \cup Operators
  BY TaskFormAssumption
<1>5. CASE \E o \in Operators : ChooseOperator(o)
  <2>. PICK o \in Operators : ChooseOperator(o)
    BY <1>5
  <2>1. CASE payloadLaui = Blank
    <3>1. /\ lookups' = lookups \cup {o} /\ chosenPayload' = o
          /\ payloadLaui' = payloadLaui /\ payloadText' = payloadText
      BY <2>1 DEF ChooseOperator
    <3>2. PayloadTypes' /\ PayloadHolds'
      BY <1>3, <1>4, <2>1, <3>1 DEF PayloadTypes, PayloadHolds
    <3>3. tidy => PayloadTidy'
      BY <1>2, <3>1 DEF PayloadTidy
    <3>. QED BY <1>1, <3>2, <3>3, ChoosesPayload
  <2>2. CASE payloadLaui # Blank
    <3>1. /\ lookups' = lookups /\ chosenPayload' = chosenPayload
          /\ payloadLaui' = payloadLaui /\ payloadText' = payloadText
      BY <2>2 DEF ChooseOperator
    <3>2. PayloadTypes' /\ PayloadHolds'
      BY <1>3, <3>1 DEF PayloadTypes, PayloadHolds
    <3>3. tidy => PayloadTidy'
      BY <1>2, <1>3, <3>1 DEF PayloadTidy, PackedPayload
    <3>. QED BY <1>1, <3>2, <3>3, ChoosesPayload
  <2>. QED BY <2>1, <2>2
<1>6. CASE \E p \in Payloads : ChoosePayload(p)
  <2>. PICK p \in Payloads : ChoosePayload(p)
    BY <1>6
  <2>1. /\ payloadLaui' = p /\ payloadText' = Blank
        /\ lookups' = lookups \cup {p} /\ chosenPayload' = p
    BY DEF ChoosePayload
  <2>2. PayloadTypes' /\ PayloadHolds'
    BY <1>3, <2>1 DEF PayloadTypes, PayloadHolds
  <2>3. tidy => PayloadTidy'
    BY <1>2, <2>1 DEF PayloadTidy
  <2>. QED BY <1>1, <2>2, <2>3, ChoosesPayload
<1>7. CASE ClearPayload
  <2>1. payloadLaui' = Blank /\ payloadText' = Blank /\ chosenPayload' = Blank /\ lookups' = lookups
    BY <1>7 DEF ClearPayload
  <2>2. PayloadTypes' /\ PayloadHolds'
    BY <1>3, <1>4, <2>1 DEF PayloadTypes, PayloadHolds
  <2>3. tidy => PayloadTidy'
    BY <1>2, <2>1 DEF PayloadTidy, PackedPayload
  <2>. QED BY <1>1, <2>2, <2>3, ChoosesPayload
<1>8. CASE TypePayload
  <2>1. payloadLaui' = Blank /\ payloadText' = Typed /\ chosenPayload' = Typed /\ lookups' = lookups
    BY <1>8 DEF TypePayload
  <2>2. PayloadTypes' /\ PayloadHolds'
    BY <1>3, <1>4, <2>1 DEF PayloadTypes, PayloadHolds
  <2>3. tidy => PayloadTidy'
    BY <1>2, <2>1 DEF PayloadTidy, PackedPayload
  <2>. QED BY <1>1, <2>2, <2>3, ChoosesPayload
<1>. QED BY <1>5, <1>6, <1>7, <1>8

(* The content of the chosen payload arrives, or does not.                   *)
LEMMA ContentKeeps ==
  ASSUME FormInv, NEW x \in lookups, ContentArrives(x) \/ ContentFails(x)
  PROVE  FormInv'
<1>1. ListTypes /\ PayloadTypes /\ SendTypes
  BY DEF FormInv, FormTypes
<1>2. CASE ContentArrives(x)
  <2>1. /\ lookups' = lookups \ {x} /\ payloadText' = x
        /\ payloadLaui' = payloadLaui /\ chosenPayload' = chosenPayload
        /\ UNCHANGED listVars /\ UNCHANGED sendVars /\ UNCHANGED <<tidy, formActs>>
    BY <1>2 DEF ContentArrives
  <2>2. UNCHANGED <<formMode, sending, submitting, duplicateTask, stored, confirmed, formErrors>>
    BY <2>1 DEF sendVars
  <2>3. PayloadTypes' /\ (PayloadHolds => PayloadHolds')
    BY <1>1, <2>1 DEF PayloadTypes, PayloadHolds
  <2>4. PayloadHolds /\ PayloadTidy => PayloadTidy'
    BY <2>1 DEF PayloadHolds, PayloadTidy, PackedPayload
  <2>. QED BY <1>1, <2>1, <2>2, <2>3, <2>4, PayloadStepKeeps DEF FormInv, SendTypes
<1>3. CASE ContentFails(x)
  <2>1. /\ lookups' = lookups \ {x} /\ formErrors' = formErrors + 1
        /\ payloadLaui' = payloadLaui /\ chosenPayload' = chosenPayload
        /\ payloadText' = payloadText
        /\ UNCHANGED listVars
        /\ UNCHANGED <<formMode, sending, submitting, duplicateTask, stored, confirmed, tidy,
                       formActs>>
    BY <1>3 DEF ContentFails
  <2>2. formErrors' # 0
    BY <1>1, <2>1 DEF SendTypes
  <2>3. PayloadTypes' /\ (PayloadHolds => PayloadHolds')
    BY <1>1, <2>1 DEF PayloadTypes, PayloadHolds
  <2>4. PayloadTidy => PayloadTidy'
    BY <2>1, <2>2 DEF PayloadTidy
  <2>. QED BY <1>1, <2>1, <2>3, <2>4, PayloadStepKeeps DEF FormInv, SendTypes
<1>. QED BY <1>2, <1>3

-----------------------------------------------------------------------------
(* Submission.                                                               *)
LEMMA SendStepKeeps ==
  ASSUME FormInv, SendTypes', tidy => SendTidy', UNCHANGED listVars, UNCHANGED payloadVars,
         formMode' = formMode, tidy' = tidy, formErrors' \in {formErrors, formErrors + 1}
  PROVE  FormInv'
<1>1. ListTypes /\ PayloadTypes /\ SendTypes
  BY DEF FormInv, FormTypes
<1>2. formErrors \in Nat /\ formErrors' \in Nat /\ formErrors' >= formErrors
  BY <1>1 DEF SendTypes
<1>3. ListTypes' /\ (ListTidy => ListTidy')
  BY <1>1, ListStays
<1>4. PayloadTypes' /\ (PayloadHolds => PayloadHolds') /\ (PayloadTidy => PayloadTidy')
  BY <1>1, <1>2, PayloadStays
<1>. QED BY <1>3, <1>4 DEF FormInv, FormTypes

(* The only submission under way goes to a stage.                            *)
LEMMA OnlyOne ==
  ASSUME SendTypes, NEW k \in Clicks, NEW stage \in {"none", "check", "post", "answer"},
         Sends(k, stage), \A l \in Clicks \ {k} : sending[l] = "none"
  PROVE  /\ sending' \in [Clicks -> {"none", "check", "post", "answer"}]
         /\ \A l, m \in Clicks : sending'[l] # "none" /\ sending'[m] # "none" => l = m
         /\ \A s \in {"check", "post", "answer"} : AtStage(s)' <=> s = stage
         /\ NothingSent' <=> stage = "none"
<1>1. sending' \in [Clicks -> {"none", "check", "post", "answer"}]
  BY DEF SendTypes, Sends
<1>2. sending'[k] = stage /\ \A l \in Clicks \ {k} : sending'[l] = "none"
  BY DEF SendTypes, Sends
<1>3. \A s \in {"check", "post", "answer"} : AtStage(s)' <=> s = stage
  BY <1>2 DEF AtStage
<1>4. NothingSent' <=> stage = "none"
  BY <1>2 DEF NothingSent
<1>. QED BY <1>1, <1>2, <1>3, <1>4

(* A submission at a stage is the only one, and the form is open.            *)
LEMMA Alone ==
  ASSUME FormInv, tidy, NEW k \in Clicks, sending[k] # "none"
  PROVE  /\ \A l \in Clicks \ {k} : sending[l] = "none"
         /\ formMode \in {"create", "edit"} /\ ~duplicateTask
         /\ \A s \in {"check", "post", "answer"} : AtStage(s) <=> sending[k] = s
<1>1. SendTidy /\ formMode \in {"create", "edit", "shut"}
  BY DEF FormInv, FormTypes, SendTypes
<1>2. ~NothingSent
  BY DEF NothingSent
<1>3. \A l \in Clicks \ {k} : sending[l] = "none"
  BY <1>1 DEF SendTidy
<1>4. formMode # "shut" /\ ~duplicateTask
  BY <1>1, <1>2 DEF SendTidy
<1>. QED BY <1>1, <1>3, <1>4 DEF AtStage

(* The user submits the form.                                                *)
LEMMA SubmitKeeps ==
  ASSUME FormInv, NEW k \in Clicks, Submit(k)
  PROVE  FormInv'
<1>. DEFINE stage == IF formMode = "create" THEN "check" ELSE "post"
<1>1. /\ ActsOnForm /\ Sends(k, stage)
      /\ UNCHANGED <<formMode, duplicateTask, stored, confirmed, formErrors>>
      /\ UNCHANGED listVars /\ UNCHANGED payloadVars
  BY DEF Submit
<1>2. SendTypes
  BY DEF FormInv, FormTypes
<1>3. formMode # "shut" /\ ~duplicateTask /\ tidy' = tidy /\ formActs' \in 0..MaxFormActs
      /\ (tidy => NothingSent)
  BY <1>1, ActsWhenQuiet DEF ActsOnForm
<1>4. SendTypes'
  BY <1>1, <1>2, <1>3 DEF SendTypes, Sends
<1>5. ASSUME tidy PROVE SendTidy'
  <2>1. SendTidy /\ NothingSent /\ formMode \in {"create", "edit"}
    BY <1>2, <1>3, <1>5 DEF FormInv, SendTypes
  <2>2. \A l \in Clicks \ {k} : sending[l] = "none"
    BY <2>1 DEF NothingSent
  <2>3. stage \in {"none", "check", "post", "answer"} /\ (stage = "post" <=> formMode = "edit")
    BY <2>1
  <2>. HIDE DEF stage
  <2>4. /\ \A l, m \in Clicks : sending'[l] # "none" /\ sending'[m] # "none" => l = m
        /\ AtStage("post")' <=> stage = "post"
    BY <1>1, <1>2, <2>2, <2>3, OnlyOne
  <2>5. formMode = "create" /\ stored > 0 => formErrors > 0
    BY <2>1 DEF SendTidy, AtStage, NothingSent
  <2>. QED BY <1>1, <1>3, <2>1, <2>3, <2>4, <2>5 DEF SendTidy
<1>. QED BY <1>1, <1>3, <1>4, <1>5, SendStepKeeps

(* The answer about a task of the same name.                                 *)
LEMMA CheckKeeps ==
  ASSUME FormInv, NEW k \in Clicks, CheckAnswered(k) \/ CheckFails(k)
  PROVE  FormInv'
<1>. DEFINE stage == IF CheckAnswered(k) /\ stored > 0 THEN "none" ELSE "post"
<1>1. /\ sending[k] = "check" /\ Sends(k, stage)
      /\ UNCHANGED <<formMode, stored, confirmed, tidy, formActs>>
      /\ formErrors' \in {formErrors, formErrors + 1}
      /\ UNCHANGED listVars /\ UNCHANGED payloadVars
      /\ duplicateTask' \in {TRUE, duplicateTask}
      /\ stage # "none" => duplicateTask' = duplicateTask
      /\ stage = "none" => stored > 0 /\ formErrors' = formErrors
      /\ stage = "post" => stored = 0 \/ ~(stored > 0) \/ formErrors' = formErrors + 1
  BY DEF CheckAnswered, CheckFails
<1>2. stage \in {"none", "check", "post", "answer"}
  OBVIOUS
<1>. HIDE DEF stage
<1>3. SendTypes
  BY DEF FormInv, FormTypes
<1>4. formErrors \in Nat /\ stored \in Nat /\ confirmed \in Nat /\ formErrors' \in Nat
  BY <1>1, <1>3 DEF SendTypes
<1>5. SendTypes'
  BY <1>1, <1>2, <1>3, <1>4 DEF SendTypes, Sends
<1>6. ASSUME tidy PROVE SendTidy'
  <2>1. /\ \A l \in Clicks \ {k} : sending[l] = "none" /\ formMode \in {"create", "edit"}
        /\ ~duplicateTask /\ ~AtStage("answer")
    BY <1>1, <1>6, Alone
  <2>2. SendTidy
    BY <1>6 DEF FormInv
  <2>3. /\ \A l, m \in Clicks : sending'[l] # "none" /\ sending'[m] # "none" => l = m
        /\ NothingSent' <=> stage = "none"
        /\ AtStage("post")' <=> "post" = stage
    BY <1>1, <1>2, <1>3, <2>1, OnlyOne
  <2>4. formMode # "shut"
    BY <1>1, <1>6, Alone
  <2>5. formMode = "create" /\ stored > 0 => formErrors > 0
    BY <2>1, <2>2 DEF SendTidy
  <2>6. duplicateTask' \/ formMode' = "shut" => NothingSent'
    BY <1>1, <1>6, <2>3, <2>4, Alone
  <2>7. formMode' = "edit" => stored' = 0
    BY <1>1, <2>2 DEF SendTidy
  <2>8. formMode' = "create" /\ stored' > 0 => formErrors' > 0
    BY <1>1, <1>4, <2>5
  <2>9. formErrors' <= 1 => stored' <= 1 + confirmed'
    BY <1>1, <1>4, <2>2 DEF SendTidy
  <2>10. formErrors' <= 1 /\ formMode' = "create" /\ AtStage("post")' => stored' <= confirmed'
    BY <1>1, <1>4, <2>3, <2>5
  <2>. QED BY <2>3, <2>6, <2>7, <2>8, <2>9, <2>10 DEF SendTidy
<1>. QED BY <1>1, <1>5, <1>6, SendStepKeeps

(* The user answers the question about a second task.                        *)
LEMMA AskedKeeps ==
  ASSUME FormInv, KeepExisting \/ \E k \in Clicks : CreateAnyway(k)
  PROVE  FormInv'
<1>1. SendTypes
  BY DEF FormInv, FormTypes
<1>2. CASE KeepExisting
  <2>1. /\ duplicateTask' = FALSE
        /\ UNCHANGED <<formMode, sending, stored, confirmed, formErrors, tidy, formActs>>
        /\ UNCHANGED listVars /\ UNCHANGED payloadVars
    BY <1>2 DEF KeepExisting
  <2>2. SendTypes'
    BY <1>1, <2>1 DEF SendTypes
  <2>3. SendTidy => SendTidy'
    BY <2>1 DEF SendTidy, NothingSent, AtStage
  <2>. QED BY <2>1, <2>2, <2>3, SendStepKeeps DEF FormInv
<1>3. ASSUME NEW k \in Clicks, CreateAnyway(k) PROVE FormInv'
  <2>1. /\ formMode # "shut" /\ duplicateTask /\ duplicateTask' = FALSE
        /\ formActs < MaxFormActs /\ formActs' = formActs + 1
        /\ confirmed' = confirmed + 1 /\ Sends(k, "post")
        /\ UNCHANGED <<formMode, stored, formErrors, tidy>>
        /\ UNCHANGED listVars /\ UNCHANGED payloadVars
    BY <1>3 DEF CreateAnyway
  <2>2. stored \in Nat /\ confirmed \in Nat /\ formErrors \in Nat
    BY <1>1 DEF SendTypes
  <2>3. formActs' \in 0..MaxFormActs /\ confirmed' \in Nat
    BY <1>1, <2>1, TaskFormAssumption DEF SendTypes
  <2>4. SendTypes'
    BY <1>1, <2>1, <2>3 DEF SendTypes, Sends
  <2>5. ASSUME tidy PROVE SendTidy'
    <3>1. SendTidy /\ NothingSent
      BY <2>1, <2>5 DEF FormInv, SendTidy
    <3>2. \A l \in Clicks \ {k} : sending[l] = "none"
      BY <3>1 DEF NothingSent
    <3>3. \A l, m \in Clicks : sending'[l] # "none" /\ sending'[m] # "none" => l = m
      BY <1>1, <2>1, <3>2, OnlyOne
    <3>4. formMode = "create" /\ stored > 0 => formErrors > 0
      BY <3>1 DEF SendTidy, AtStage, NothingSent
    <3>5. formErrors <= 1 => stored <= confirmed'
      BY <2>1, <2>2, <3>1 DEF SendTidy
    <3>6. stored <= confirmed' => stored <= 1 + confirmed'
      <4>1. \A a, b \in Nat : a <= b => a <= 1 + b
        OBVIOUS
      <4>. QED BY <2>2, <2>3, <4>1
    <3>7. formErrors <= 1 => stored <= 1 + confirmed'
      BY <3>5, <3>6, Zenon
    <3>. QED BY <2>1, <3>1, <3>3, <3>4, <3>5, <3>7 DEF SendTidy
  <2>. QED BY <2>1, <2>4, <2>5, SendStepKeeps
<1>. QED BY <1>2, <1>3

(* The task is stored.                                                       *)
LEMMA StoreTaskKeeps ==
  ASSUME FormInv, NEW k \in Clicks, StoreTask(k)
  PROVE  FormInv'
<1>1. /\ sending[k] = "post" /\ Sends(k, "answer")
      /\ stored' = IF formMode = "edit" THEN stored ELSE stored + 1
      /\ UNCHANGED <<formMode, duplicateTask, confirmed, formErrors, tidy, formActs>>
      /\ UNCHANGED listVars /\ UNCHANGED payloadVars
  BY DEF StoreTask
<1>2. SendTypes
  BY DEF FormInv, FormTypes
<1>3. formErrors \in Nat /\ stored \in Nat /\ confirmed \in Nat /\ stored' \in Nat
  BY <1>1, <1>2 DEF SendTypes
<1>4. SendTypes'
  BY <1>1, <1>2, <1>3 DEF SendTypes, Sends
<1>5. ASSUME tidy PROVE SendTidy'
  <2>1. \A l \in Clicks \ {k} : sending[l] = "none"
    BY <1>1, <1>5, Alone
  <2>2. formMode \in {"create", "edit"} /\ ~duplicateTask /\ AtStage("post")
    BY <1>1, <1>5, Alone
  <2>3. SendTidy
    BY <1>5 DEF FormInv
  <2>4. /\ \A l, m \in Clicks : sending'[l] # "none" /\ sending'[m] # "none" => l = m
        /\ AtStage("answer")' /\ ~AtStage("post")'
    BY <1>1, <1>2, <2>1, OnlyOne
  <2>5. formErrors <= 1 => stored' <= 1 + confirmed
    <3>1. CASE formMode = "edit"
      BY <1>1, <1>3, <2>3, <3>1 DEF SendTidy
    <3>2. CASE formMode = "create"
      BY <1>1, <1>3, <2>2, <2>3, <3>2 DEF SendTidy
    <3>. QED BY <2>2, <3>1, <3>2
  <2>6. formMode = "edit" => stored' = 0
    BY <1>1, <2>3 DEF SendTidy
  <2>. QED BY <1>1, <2>2, <2>4, <2>5, <2>6 DEF SendTidy
<1>. QED BY <1>1, <1>4, <1>5, SendStepKeeps

(* A request of the submission fails, before or after the task is stored.    *)
LEMMA StoreFailsKeeps ==
  ASSUME FormInv, NEW k \in Clicks, StoreFails(k)
  PROVE  FormInv'
<1>1. /\ sending[k] \in {"post", "answer"} /\ Sends(k, "none") /\ formErrors' = formErrors + 1
      /\ UNCHANGED <<formMode, duplicateTask, stored, confirmed, tidy, formActs>>
      /\ UNCHANGED listVars /\ UNCHANGED payloadVars
  BY DEF StoreFails
<1>2. SendTypes
  BY DEF FormInv, FormTypes
<1>3. formErrors \in Nat /\ stored \in Nat /\ confirmed \in Nat /\ formErrors' \in Nat
      /\ formErrors' > 0
      /\ (formErrors' <= 1 => formErrors <= 1)
  BY <1>1, <1>2 DEF SendTypes
<1>4. SendTypes'
  BY <1>1, <1>2, <1>3 DEF SendTypes, Sends
<1>5. ASSUME tidy PROVE SendTidy'
  <2>1. \A l \in Clicks \ {k} : sending[l] = "none"
    BY <1>1, <1>5, Alone
  <2>2. SendTidy
    BY <1>5 DEF FormInv
  <2>3. /\ \A l, m \in Clicks : sending'[l] # "none" /\ sending'[m] # "none" => l = m
        /\ NothingSent' /\ ~AtStage("post")'
    BY <1>1, <1>2, <2>1, OnlyOne
  <2>. QED BY <1>1, <1>3, <2>2, <2>3 DEF SendTidy
<1>. QED BY <1>1, <1>4, <1>5, SendStepKeeps

(* The form is closed when the answer comes: all of it is reset.             *)
LEMMA StoredKeeps ==
  ASSUME FormInv, NEW k \in Clicks, Stored(k)
  PROVE  FormInv'
<1>1. /\ sending[k] = "answer" /\ Sends(k, "none") /\ formMode' = "shut"
      /\ populated' = FALSE /\ taskActions' = <<>>
      /\ selectedAction' = 0 /\ currentAction' = 0 /\ draft' = Defaults
      /\ editDraft' = [i \in 1..MaxActions |-> NoDraft]
      /\ payloadLaui' = Blank /\ payloadText' = Blank
      /\ UNCHANGED <<duplicateTask, stored, confirmed, formErrors, fetching, loadingVars,
                     expandedAction, numbered, entered, removed, lookups, chosenPayload, tidy,
                     formActs>>
  BY DEF Stored, ClearForm
<1>2. ListTypes /\ PayloadTypes /\ SendTypes
  BY DEF FormInv, FormTypes
<1>3. SendTypes'
  BY <1>1, <1>2 DEF SendTypes, Sends
<1>4. PayloadTypes'
  BY <1>1, <1>2 DEF PayloadTypes
<1>5. <<>> \in Seq(Rows) /\ Len(<<>>) = 0
  OBVIOUS
<1>6. Len(taskActions') + Cardinality(fetching') + ToCome(formMode', populated') <= numbered'
  <2>1. Len(taskActions) + Cardinality(fetching) + ToCome(formMode, populated) <= numbered
    BY <1>2 DEF ListTypes
  <2>2. ToCome(formMode', populated') = 0
    BY <1>1 DEF ToCome
  <2>3. Cardinality(fetching) <= numbered
    BY <1>2, <2>1, Awaited
  <2>. QED BY <1>1, <1>2, <1>5, <2>2, <2>3, Awaited
<1>7. ListTypes'
  <2>1. 0 \in 0..MaxActions
    BY TaskFormAssumption
  <2>. QED BY <1>1, <1>2, <1>5, <1>6, <2>1, ValuesHold DEF ListTypes
<1>8. ASSUME tidy PROVE SendTidy'
  <2>1. \A l \in Clicks \ {k} : sending[l] = "none"
    BY <1>1, <1>8, Alone
  <2>2. SendTidy
    BY <1>8 DEF FormInv
  <2>3. /\ \A l, m \in Clicks : sending'[l] # "none" /\ sending'[m] # "none" => l = m
        /\ NothingSent'
    BY <1>1, <1>2, <2>1, OnlyOne
  <2>. QED BY <1>1, <2>2, <2>3 DEF SendTidy
<1>. QED BY <1>1, <1>3, <1>4, <1>7, <1>8 DEF FormInv, FormTypes

-----------------------------------------------------------------------------
(* Whatever is added, edited, removed or fetched in whatever order: a user   *)
(* who ends one edit before the next sends what was entered; the payload     *)
(* sent is the one chosen; and a task is created twice only when asked.      *)
THEOREM FormIsAlwaysFaithful == TaskFormSpec => []FormIsFaithful
<1>1. TaskFormInit => FormInv
  <2>. SUFFICES ASSUME TaskFormInit PROVE FormInv
    OBVIOUS
  <2>1. /\ formMode \in {"create", "edit"} /\ populated = FALSE /\ taskActions = <<>>
        /\ selectedAction = 0 /\ currentAction = 0 /\ draft = Defaults
        /\ fetching = {} /\ expandedAction = 0 /\ editDraft = [i \in 1..MaxActions |-> NoDraft]
        /\ numbered = (IF formMode = "edit" THEN Saved ELSE 0)
        /\ payloadLaui \in (IF formMode = "edit" THEN Payloads ELSE {Blank})
        /\ chosenPayload \in (IF formMode = "edit" THEN {payloadLaui} ELSE Operators \cup {Blank})
        /\ lookups = {chosenPayload} \ {Blank} /\ payloadText = Blank
        /\ sending = [k \in Clicks |-> "none"]
        /\ duplicateTask = FALSE /\ stored = 0 /\ confirmed = 0 /\ tidy \in BOOLEAN
        /\ entered = [n \in 1..MaxActions |-> Defaults] /\ removed = {}
        /\ formActs = 0 /\ formErrors = 0
    BY DEF TaskFormInit
  <2>2. Saved \in Nat /\ MaxActions \in Nat /\ Saved <= MaxActions /\ MaxFormActs \in Nat
    BY TaskFormAssumption
  <2>3. <<>> \in Seq(Rows) /\ Len(<<>>) = 0 /\ DOMAIN <<>> = {}
    OBVIOUS
  <2>4. Cardinality({}) = 0
    BY FS_EmptySet
  <2>5. numbered \in 0..MaxActions /\ numbered >= 0 /\ numbered >= ToCome(formMode, populated)
        /\ ToCome(formMode, populated) \in Nat
    BY <2>1, <2>2 DEF ToCome
  <2>6. Len(taskActions) + Cardinality(fetching) + ToCome(formMode, populated) <= numbered
    BY <2>1, <2>2, <2>3, <2>4, <2>5
  <2>7. ListTypes
    <3>1. Defaults \in Values
      BY ValuesHold
    <3>2. entered \in [1..MaxActions -> Values]
      BY <2>1, <3>1
    <3>3. editDraft \in [1..MaxActions -> Values \cup {NoDraft}]
      BY <2>1
    <3>4. taskActions \in Seq(Rows) /\ draft \in Values
      BY <2>1, <2>3, <3>1
    <3>5. {selectedAction, currentAction, expandedAction} \subseteq 0..MaxActions
      BY <2>1, <2>2
    <3>6. populated \in BOOLEAN /\ fetching \subseteq 1..numbered
      BY <2>1
    <3>. QED BY <2>5, <2>6, <3>2, <3>3, <3>4, <3>5, <3>6 DEF ListTypes
  <2>8. PayloadTypes /\ PayloadHolds /\ PayloadTidy
    BY <2>1, TaskFormAssumption DEF PayloadTypes, PayloadHolds, PayloadTidy, PackedPayload
  <2>9. SendTypes
    BY <2>1, <2>2 DEF SendTypes
  <2>10. SendTidy
    BY <2>1 DEF SendTidy, NothingSent, AtStage
  <2>11. ListTidy
    <3>1. CASE formMode = "edit"
      BY <2>1, <3>1 DEF ListTidy, Pristine
    <3>2. CASE formMode # "edit"
      <4>1. {taskActions[i].action : i \in DOMAIN taskActions} = {}
        BY <2>1, <2>3
      <4>2. numbered = 0 /\ 1..numbered = {}
        BY <2>1, <3>2
      <4>. QED BY <2>1, <2>3, <3>2, <4>1, <4>2 DEF ListTidy, Kept
    <3>. QED BY <3>1, <3>2
  <2>. QED BY <2>7, <2>8, <2>9, <2>10, <2>11 DEF FormInv, FormTypes
<1>2. FormInv /\ [TaskFormNext]_taskFormVars => FormInv'
  <2>. SUFFICES ASSUME FormInv, [TaskFormNext]_taskFormVars PROVE FormInv'
    OBVIOUS
  <2>1. CASE UNCHANGED taskFormVars
    <3>1. /\ UNCHANGED listVars /\ UNCHANGED payloadVars
          /\ UNCHANGED <<formMode, sending, duplicateTask, stored, confirmed, tidy>>
          /\ formErrors' = formErrors /\ formActs' = formActs
      BY <2>1 DEF taskFormVars, listVars, payloadVars
    <3>2. ListTypes /\ SendTypes
      BY DEF FormInv, FormTypes
    <3>3. ListTypes' /\ (ListTidy => ListTidy')
      BY <3>1, <3>2, ListStays
    <3>4. formActs' \in 0..MaxFormActs
      BY <3>1, <3>2 DEF SendTypes
    <3>. QED BY <3>1, <3>3, <3>4, ListStepKeeps DEF FormInv
  <2>2. ASSUME Populate \/ SelectAction \/ AddAnother \/ Collapse
        PROVE  FormInv'
    BY <2>2, PopulateKeeps, SelectActionKeeps, AddAnotherKeeps, CollapseKeeps
  <2>3. ASSUME NEW n \in fetching, ActionFetched(n) \/ ActionFetchFails(n)
        PROVE  FormInv'
    BY <2>3, ActionFetchedKeeps, ActionFetchFailsKeeps
  <2>4. ASSUME NEW x \in Fields, EditForm(x) \/ EditRow(x) PROVE FormInv'
    BY <2>4, EditFormKeeps, EditRowKeeps
  <2>5. ASSUME NEW i \in DOMAIN taskActions, RemoveAction(i) \/ Expand(i) PROVE FormInv'
    BY <2>5, RemoveActionKeeps, ExpandKeeps
  <2>6. ASSUME NEW x \in lookups, ContentArrives(x) \/ ContentFails(x) PROVE FormInv'
    BY <2>6, ContentKeeps
  <2>7. ASSUME NEW k \in Clicks,
               \/ Submit(k) \/ CheckAnswered(k) \/ CheckFails(k) \/ CreateAnyway(k)
               \/ StoreTask(k) \/ Stored(k) \/ StoreFails(k)
        PROVE  FormInv'
    BY <2>7, SubmitKeeps, CheckKeeps, AskedKeeps, StoreTaskKeeps, StoredKeeps, StoreFailsKeeps
  <2>. QED BY <2>1, <2>2, <2>3, <2>4, <2>5, <2>6, <2>7, PayloadActsKeep, AskedKeeps
           DEF TaskFormNext
<1>3. FormInv => FormIsFaithful
  <2>. SUFFICES ASSUME FormInv PROVE FormIsFaithful
    OBVIOUS
  <2>1. ListTypes /\ PayloadTypes /\ SendTypes
    BY DEF FormInv, FormTypes
  <2>2. Len(taskActions) <= MaxActions
    BY <2>1, Awaited
  <2>3. TaskFormTypeOK
    BY <2>1, <2>2 DEF TaskFormTypeOK, ListTypes, PayloadTypes, SendTypes, Rows
  <2>4. NoTwinUnasked
    BY DEF FormInv, SendTidy, NoTwinUnasked
  <2>5. SentPayloadIsChosen
    <3>1. formMode # "shut" /\ chosenPayload \in Payloads => PackedPayload = chosenPayload
      BY TaskFormAssumption DEF FormInv, PayloadHolds, PackedPayload
    <3>. QED BY <3>1 DEF FormInv, PayloadHolds, PayloadTidy, SentPayloadIsChosen, FormQuiet
  <2>6. ASSUME tidy, formMode # "shut", FormQuiet
        PROVE  /\ {Packed[i].action : i \in DOMAIN Packed} = (1..numbered) \ removed
               /\ \A i, j \in DOMAIN Packed : Packed[i].action = Packed[j].action => i = j
               /\ \A i \in DOMAIN Packed, x \in Fields :
                    (i = expandedAction /\ x = "connection")
                    \/ Packed[i].set[x] = entered[Packed[i].action][x]
    <3>1. /\ fetching = {}
          /\ Kept(taskActions, selectedAction, currentAction, draft, fetching, expandedAction,
                  editDraft, numbered, entered, removed)
      BY <2>6 DEF FormInv, ListTidy, FormQuiet
    <3>2. \A i \in DOMAIN taskActions : taskActions[i] \in Rows /\ i \in 1..MaxActions /\ i # 0
      BY <2>1, Awaited DEF ListTypes
    <3>3. /\ DOMAIN Packed = DOMAIN taskActions
          /\ \A i \in DOMAIN taskActions :
               /\ Packed[i].action = taskActions[i].action
               /\ i # expandedAction => Packed[i] = taskActions[i]
               /\ i = expandedAction /\ editDraft[i] # NoDraft =>
                    Packed[i].set.variables = editDraft[i].variables
      <4>1. CASE expandedAction \in DOMAIN taskActions /\ editDraft[expandedAction] # NoDraft
        <5>. DEFINE e == expandedAction
                    set == [taskActions[e].set EXCEPT !.variables = editDraft[e].variables]
                    row == [taskActions[e] EXCEPT !.set = set]
        <5>1. taskActions[e] \in Rows /\ taskActions[e].set \in Values
          BY <3>2, <4>1 DEF Rows
        <5>2. set.variables = editDraft[e].variables
          BY <5>1 DEF Values, Fields
        <5>3. row.action = taskActions[e].action /\ row.set = set
          BY <5>1 DEF Rows
        <5>4. Packed = [taskActions EXCEPT ![e] = row]
          BY <4>1 DEF Packed
        <5>. HIDE DEF set, row
        <5>. QED BY <2>1, <4>1, <5>2, <5>3, <5>4 DEF ListTypes
      <4>2. CASE ~(expandedAction \in DOMAIN taskActions /\ editDraft[expandedAction] # NoDraft)
        BY <4>2 DEF Packed
      <4>. QED BY <4>1, <4>2
    <3>4. {Packed[i].action : i \in DOMAIN Packed} = (1..numbered) \ removed
      BY <3>1, <3>3 DEF Kept
    <3>5. \A i, j \in DOMAIN Packed : Packed[i].action = Packed[j].action => i = j
      BY <3>1, <3>3 DEF Kept
    <3>6. ASSUME NEW i \in DOMAIN taskActions, i # expandedAction
          PROVE  Packed[i].set = entered[Packed[i].action]
      BY <3>1, <3>3, <3>6 DEF Kept
    <3>7. ASSUME NEW i \in DOMAIN taskActions, i = expandedAction
          PROVE  Packed[i].set.variables = entered[Packed[i].action].variables
      <4>1. editDraft[i] = entered[taskActions[i].action]
        BY <3>1, <3>2, <3>7 DEF Kept
      <4>2. taskActions[i].action \in 1..MaxActions
        BY <3>2 DEF Rows
      <4>3. editDraft[i] # NoDraft
        BY <2>1, <4>1, <4>2, ValuesHold DEF ListTypes
      <4>. QED BY <3>3, <3>7, <4>1, <4>3
    <3>8. \A x \in Fields : x = "variables" \/ x = "connection"
      BY DEF Fields
    <3>. QED BY <3>3, <3>4, <3>5, <3>6, <3>7, <3>8
  <2>7. SentAsEntered
    BY <2>6 DEF SentAsEntered
  <2>. QED BY <2>3, <2>4, <2>5, <2>7 DEF FormIsFaithful
<1>. QED BY <1>1, <1>2, <1>3, PTL DEF TaskFormSpec

-----------------------------------------------------------------------------
(* The chat of the AI editor (AiSession)                                     *)

(* The sessions named so far, and the types of the fields.                   *)
Known(n) == 1..n \cup {NoSession}
Wizards(n) ==
  [mode : {"list", "config", "searching", "editor", "error"}, session : Known(n), url : Known(n),
   shown : 0..MaxEditors, opened : 0..MaxEditors]

(* A conversation a chat can have, of the first n prompts.                   *)
Whole(messages, n) ==
  /\ messages \in Seq(Message) /\ Len(messages) <= 2 * n
  /\ \A i \in DOMAIN messages : messages[i].of <= n
  /\ WellFormed(messages)

EditorTypes(n) ==
  [messages : Seq(Message), content : Nat, isLoading : BOOLEAN, name : Known(n), ref : Known(n),
   kept : BOOLEAN]
HistoryTypes ==
  [state : {"absent", "kept", "trashed", "lost"}, messages : Seq(Message), content : Nat]
ChainTypes(n) ==
  [step : {"idle", "prompt", "generate", "reply", "error"}, as : Known(n), copy : Seq(Message),
   content : Nat]

EditorIsRight(ed, ch, n, s) ==
  /\ ed \in EditorTypes(n) /\ Whole(ed.messages, s) /\ ed.content <= s
  /\ ed.isLoading = (ch.step # "idle")
HistoryIsRight(h, s) == h \in HistoryTypes /\ Whole(h.messages, s) /\ h.content <= s

(* A prompt without its reply is the last message of the copy.               *)
ChainIsRight(ch, n, s) ==
  /\ ch \in ChainTypes(n) /\ ch.content <= s
  /\ ch.step # "idle" => ch.as # NoSession /\ Whole(ch.copy, s)
  /\ ch.step \in {"prompt", "generate"} =>
       /\ Len(ch.copy) > 0 /\ Len(ch.copy) < 2 * s
       /\ ch.copy[Len(ch.copy)].by = "user"
LoadIsRight(l, n, s) ==
  /\ l \in [at : Editors, of : 1..n, got : Seq(HistoryTypes)]
  /\ l.got # <<>> => HistoryIsRight(l.got[1], s)

(* Sends that have yet to save the reply.                                    *)
Asking(chs) == {e \in Editors : chs[e].step \in {"prompt", "generate"}}

(* The wizard: the editor shown is the last one opened, on its session.      *)
WizardIsRight ==
  /\ wizard \in Wizards(named) /\ (wizard.mode = "editor") = (wizard.shown # 0)
  /\ wizard.shown # 0 => wizard.shown = wizard.opened /\ editors[wizard.shown].ref = wizard.session
  /\ wizard.mode = "searching" => wizard.url # NoSession
(* A send names a session at its prompt or at its reply, once each.          *)
CountsAreRight ==
  /\ sends \in 0..MaxSends /\ turns \in 0..MaxTurns /\ aiErrors \in 0..MaxAiErrors
  /\ unhurried \in BOOLEAN /\ named \in Nat
  /\ named + Cardinality(Asking(chains)) <= 2 * sends
(* Every editor, send, stored conversation and load is right.                *)
EditorsAreRight(eds, chs, n, s) ==
  /\ eds = [e \in Editors |-> eds[e]] /\ chs = [e \in Editors |-> chs[e]]
  /\ \A e \in Editors : EditorIsRight(eds[e], chs[e], n, s) /\ ChainIsRight(chs[e], n, s)
HistoriesAreRight(hs, n, s) ==
  /\ hs = [x \in Names |-> hs[x]]
  /\ \A x \in Names : HistoryIsRight(hs[x], s) /\ (hs[x].state # "absent" => x <= n)
LoadsAreRight(ld, n, s) == \A l \in ld : LoadIsRight(l, n, s)
TalkIsRight ==
  /\ EditorsAreRight(editors, chains, named, sends) /\ HistoriesAreRight(histories, named, sends)
  /\ LoadsAreRight(loads, named, sends) /\ deleting \in [Editors -> Known(named)]

-----------------------------------------------------------------------------
(* What is under way at the same time.                                       *)
Exclusive(ch, ld, del) ==
  /\ del # NoSession => ch.step = "idle" /\ ld = {}
  /\ ch.step \in {"prompt", "reply", "error"} => ld = {}
(* Loads bring what is stored for the session of the editor.                 *)
LoadsAreCurrent(ed, ch, ld, h, url) ==
  \A l \in ld :
    /\ l.of = ed.ref /\ h[l.of].state = "kept" /\ (l.got # <<>> => l.got[1] = h[l.of])
    /\ l.of = ed.name \/ (ed.name = NoSession /\ l.of = url /\ ch.step = "idle")
(* A send works on what the editor shows.                                    *)
ChainIsShown(ed, ch, ld, h) ==
  /\ ch.step # "idle" =>
       ed.messages = ch.copy /\ ed.content = ch.content /\ ed.name = ch.as
  /\ ch.step = "generate" /\ ld # {} =>
       h[ch.as].messages = ch.copy /\ h[ch.as].content = ch.content
(* The conversation in the editor is the one stored.                         *)
IsStored(ed, h) ==
  /\ ed.name # NoSession /\ h[ed.name].state \in {"kept", "lost"}
  /\ h[ed.name].messages = ed.messages /\ h[ed.name].content = ed.content
(* Its deletion was carried out and the answer lost.                         *)
IsLost(ed, h) == ed.name # NoSession /\ h[ed.name].state = "lost"
(* Before anything fails, the name of an editor is its session.              *)
NamesAreRight(ed, ch, ld, del, h, errs) ==
  /\ ed.name # NoSession => h[ed.name].state # "trashed"
  /\ IsLost(ed, h) => errs # 0
  /\ del # NoSession => del = ed.ref
  /\ errs = 0 /\ ed.name = NoSession => ed.ref = NoSession \/ ld # {}
  /\ errs = 0 /\ ed.name # NoSession =>
       ed.ref = ed.name \/ (ed.ref = NoSession /\ ch.step = "prompt")
Gone(url, h) == url = NoSession \/ h[url].state \in {"trashed", "lost"}
(* The address names what the editor holds, or is about to load.             *)
Addressed(ed, ch, ld, h, url, errs) ==
  errs = 0 \/ (errs = 1 /\ (ch.step \in {"idle", "error"} \/ IsLost(ed, h))) =>
    \/ Gone(url, h) \/ url = ed.name
    \/ ed.name = NoSession /\ (errs = 1 \/ \E l \in ld : l.of = url)
(* All of these.                                                             *)
AtEditor(ed, ch, ld, del, h, url, errs) ==
  /\ Exclusive(ch, ld, del) /\ LoadsAreCurrent(ed, ch, ld, h, url) /\ ChainIsShown(ed, ch, ld, h)
  /\ ch.step = "idle" /\ ed.kept => IsStored(ed, h)
  /\ NamesAreRight(ed, ch, ld, del, h, errs) /\ Addressed(ed, ch, ld, h, url, errs)

AtRestIn(e) == chains[e].step = "idle" /\ deleting[e] = NoSession
(* At the list or the configuration nothing is under way.                    *)
AtHome ==
  /\ wizard.mode \in {"list", "config"} /\ wizard.url = NoSession /\ wizard.session = NoSession
  /\ loads = {} /\ \A e \in Editors : AtRestIn(e)
(* In the editor, what is under way is of the editor shown.                  *)
AtWork ==
  /\ \A e \in Editors : e # wizard.shown => AtRestIn(e)
  /\ \A l \in loads : l.at = wizard.shown
  /\ AtEditor(editors[wizard.shown], chains[wizard.shown], loads, deleting[wizard.shown],
              histories, wizard.url, aiErrors)

(* An editor to come has no send under way.                                  *)
UnopenedAreIdle == \A e \in Editors : e > wizard.opened => chains[e].step = "idle"

(* The inductive invariant; of a user who waits it says more.                *)
SessionInv ==
  /\ WizardIsRight /\ CountsAreRight /\ TalkIsRight /\ UnopenedAreIdle
  /\ unhurried => IF wizard.shown = 0 THEN AtHome ELSE AtWork

-----------------------------------------------------------------------------
(* The numbers of names and prompts.                                         *)
LEMMA AiNumbers ==
  /\ MaxEditors \in Nat /\ MaxSends \in Nat /\ MaxTurns \in Nat /\ MaxAiErrors \in Nat
  /\ NoSession \notin Nat /\ \A n \in Nat : NoSession \notin 1..n
  /\ \A n, m \in Nat : n <= m => Known(n) \subseteq Known(m) /\ 1..n \subseteq 1..m
  /\ \A n \in Nat : NoSession \in Known(n) /\ (n > 0 => n \in Known(n))
<1>1. \A n \in Nat : 1..n \subseteq Nat
  OBVIOUS
<1>. QED BY <1>1, AiSessionAssumption DEF Known

(* A conversation remains one when more is said.                             *)
LEMMA WholeGrows ==
  ASSUME NEW m, NEW s \in Nat, NEW t \in Nat, s <= t, Whole(m, s)
  PROVE  Whole(m, t)
<1>1. /\ m \in Seq(Message) /\ Len(m) <= 2 * s /\ WellFormed(m)
      /\ \A i \in DOMAIN m : m[i].of <= s
  BY DEF Whole
<1>2. Len(m) <= 2 * t
  <2>1. Len(m) \in Nat
    BY <1>1
  <2>. QED BY <1>1, <2>1
<1>3. \A i \in DOMAIN m : m[i].of <= t
  <2>. SUFFICES ASSUME NEW i \in DOMAIN m PROVE m[i].of <= t
    OBVIOUS
  <2>1. m[i] \in Message
    BY <1>1
  <2>2. m[i].of \in Nat
    BY <2>1, AiNumbers DEF Message
  <2>. QED BY <1>1, <2>2
<1>. QED BY <1>1, <1>2, <1>3 DEF Whole

(* A chat may have said nothing.                                             *)
LEMMA NothingIsWhole ==
  ASSUME NEW s \in Nat
  PROVE  <<>> \in Seq(Message) /\ Whole(<<>>, s)
<1>1. <<>> \in Seq(Message) /\ Len(<<>>) = 0 /\ DOMAIN <<>> = {}
  OBVIOUS
<1>2. WellFormed(<<>>)
  BY <1>1 DEF WellFormed
<1>. QED BY <1>1, <1>2 DEF Whole

(* What an append adds.                                                      *)
LEMMA SaidLast ==
  ASSUME NEW m \in Seq(Message), NEW x \in Message
  PROVE  LET all == Append(m, x)
         IN /\ all \in Seq(Message) /\ Len(all) = Len(m) + 1 /\ Len(m) \in Nat
            /\ DOMAIN all = 1..(Len(m) + 1) /\ DOMAIN m = 1..Len(m)
            /\ \A i \in 1..Len(m) : all[i] = m[i]
            /\ all[Len(m) + 1] = x
<1>. QED BY AppendProperties

(* A prompt is new.                                                          *)
LEMMA PromptIsWhole ==
  ASSUME NEW m, NEW s \in Nat, s < MaxSends, Whole(m, s)
  PROVE  LET asked == Append(m, [by |-> "user", of |-> s + 1])
         IN /\ Whole(asked, s + 1) /\ Len(asked) > 0 /\ Len(asked) < 2 * (s + 1)
            /\ asked[Len(asked)].by = "user"
<1>. DEFINE x == [by |-> "user", of |-> s + 1]
            asked == Append(m, x)
            n == Len(m)
<1>1. /\ m \in Seq(Message) /\ Len(m) <= 2 * s /\ WellFormed(m)
      /\ \A i \in DOMAIN m : m[i].of <= s
  BY DEF Whole
<1>2. x \in Message /\ x.by = "user" /\ x.of = s + 1
  BY AiNumbers DEF Message
<1>. HIDE DEF x
<1>3. /\ asked \in Seq(Message) /\ Len(asked) = n + 1 /\ n \in Nat
      /\ DOMAIN asked = 1..(n + 1) /\ DOMAIN m = 1..n
      /\ \A i \in 1..n : asked[i] = m[i]
      /\ asked[n + 1] = x
  BY <1>1, <1>2, SaidLast
<1>. HIDE DEF asked, n
<1>4. n <= 2 * s
  BY <1>1 DEF n
<1>5. Len(asked) > 0 /\ Len(asked) < 2 * (s + 1) /\ Len(asked) <= 2 * (s + 1)
  BY <1>3, <1>4
<1>6. asked[Len(asked)].by = "user"
  BY <1>2, <1>3
<1>7. \A i \in 1..n : m[i].of \in Nat /\ m[i].of <= s /\ m[i] # x
  <2>. SUFFICES ASSUME NEW i \in 1..n PROVE m[i].of \in Nat /\ m[i].of <= s /\ m[i] # x
    OBVIOUS
  <2>1. m[i] \in Message /\ i \in DOMAIN m
    BY <1>1, <1>3
  <2>2. m[i].of \in Nat
    BY <2>1, AiNumbers DEF Message
  <2>3. m[i].of <= s
    BY <1>1, <2>1
  <2>. QED BY <2>2, <2>3, <1>2
<1>8. \A i \in DOMAIN asked : asked[i].of <= s + 1
  <2>. SUFFICES ASSUME NEW i \in DOMAIN asked PROVE asked[i].of <= s + 1
    OBVIOUS
  <2>1. CASE i = n + 1
    BY <2>1, <1>2, <1>3
  <2>2. CASE i # n + 1
    <3>1. i \in 1..n
      BY <2>2, <1>3
    <3>. QED BY <3>1, <1>3, <1>7
  <2>. QED BY <2>1, <2>2
<1>9. ASSUME NEW i \in DOMAIN asked, asked[i].by = "assistant"
      PROVE  i > 1 /\ asked[i - 1] = [by |-> "user", of |-> asked[i].of]
  <2>1. i \in 1..n
    BY <1>2, <1>3, <1>9
  <2>2. i > 1 /\ m[i - 1] = [by |-> "user", of |-> m[i].of]
    BY <2>1, <1>1, <1>3, <1>9 DEF WellFormed
  <2>3. i - 1 \in 1..n
    BY <2>1, <2>2, <1>3
  <2>. QED BY <2>1, <2>2, <2>3, <1>3
<1>10. ASSUME NEW i \in DOMAIN asked, NEW j \in DOMAIN asked,
              asked[i].by = "user", asked[j] = asked[i]
       PROVE  i = j
  <2>1. CASE i \in 1..n /\ j \in 1..n
    BY <2>1, <1>1, <1>3, <1>10 DEF WellFormed
  <2>2. CASE i \notin 1..n
    <3>1. i = n + 1
      BY <2>2, <1>3
    <3>2. j \notin 1..n
      BY <3>1, <1>3, <1>7, <1>10
    <3>. QED BY <3>1, <3>2, <1>3
  <2>3. CASE j \notin 1..n
    <3>1. j = n + 1
      BY <2>3, <1>3
    <3>2. i \notin 1..n
      BY <3>1, <1>3, <1>7, <1>10
    <3>. QED BY <3>1, <3>2, <1>3
  <2>. QED BY <2>1, <2>2, <2>3
<1>11. WellFormed(asked)
  BY <1>9, <1>10 DEF WellFormed
<1>12. Whole(asked, s + 1)
  BY <1>3, <1>5, <1>8, <1>11 DEF Whole
<1>. QED BY <1>5, <1>6, <1>12 DEF asked, x

(* A reply follows its prompt.                                               *)
LEMMA ReplyIsWhole ==
  ASSUME NEW m, NEW s \in Nat, Whole(m, s), Len(m) > 0, Len(m) < 2 * s, m[Len(m)].by = "user"
  PROVE  Whole(Append(m, [by |-> "assistant", of |-> m[Len(m)].of]), s)
<1>. DEFINE n == Len(m)
            x == [by |-> "assistant", of |-> m[n].of]
            all == Append(m, x)
<1>1. /\ m \in Seq(Message) /\ WellFormed(m)
      /\ \A i \in DOMAIN m : m[i].of <= s
  BY DEF Whole
<1>2. n \in DOMAIN m /\ m[n] \in Message
  BY <1>1
<1>3. m[n] = [by |-> "user", of |-> m[n].of] /\ m[n].of \in 1..MaxSends
  BY <1>2 DEF Message
<1>4. x \in Message /\ x.by = "assistant" /\ x.of = m[n].of
  BY <1>3 DEF Message
<1>. HIDE DEF x
<1>5. /\ all \in Seq(Message) /\ Len(all) = n + 1 /\ n \in Nat
      /\ DOMAIN all = 1..(n + 1) /\ DOMAIN m = 1..n
      /\ \A i \in 1..n : all[i] = m[i]
      /\ all[n + 1] = x
  BY <1>1, <1>4, SaidLast
<1>6. n < 2 * s
  OBVIOUS
<1>. HIDE DEF all, n
<1>7. Len(all) <= 2 * s
  BY <1>5, <1>6
<1>8. \A i \in DOMAIN all : all[i].of <= s
  BY <1>1, <1>2, <1>4, <1>5
<1>9. ASSUME NEW i \in DOMAIN all, all[i].by = "assistant"
      PROVE  i > 1 /\ all[i - 1] = [by |-> "user", of |-> all[i].of]
  <2>1. CASE i \in 1..n
    <3>1. i > 1 /\ m[i - 1] = [by |-> "user", of |-> m[i].of]
      BY <2>1, <1>1, <1>5, <1>9 DEF WellFormed
    <3>2. i - 1 \in 1..n
      BY <2>1, <3>1, <1>5
    <3>. QED BY <2>1, <3>1, <3>2, <1>5
  <2>2. CASE i \notin 1..n
    <3>1. i = n + 1 /\ n \in 1..n /\ n > 0
      BY <2>2, <1>2, <1>5
    <3>2. i > 1 /\ i - 1 = n
      BY <3>1, <1>5
    <3>. QED BY <3>1, <3>2, <1>3, <1>4, <1>5
  <2>. QED BY <2>1, <2>2
<1>10. ASSUME NEW i \in DOMAIN all, NEW j \in DOMAIN all, all[i].by = "user", all[j] = all[i]
       PROVE  i = j
  <2>1. i # n + 1 /\ j # n + 1
    BY <1>4, <1>5, <1>10
  <2>2. i \in 1..n /\ j \in 1..n
    BY <2>1, <1>5
  <2>. QED BY <2>2, <1>1, <1>5, <1>10 DEF WellFormed
<1>11. WellFormed(all)
  BY <1>9, <1>10 DEF WellFormed
<1>. QED BY <1>5, <1>7, <1>8, <1>11 DEF Whole, all, x, n

-----------------------------------------------------------------------------
(* How many sends have yet to save the reply.                                *)
LEMMA AskingCounts ==
  ASSUME NEW chs, NEW e \in Editors, NEW c, chs = [x \in Editors |-> chs[x]]
  PROVE  LET after == [chs EXCEPT ![e] = c]
         IN /\ Cardinality(Asking(chs)) \in Nat /\ Cardinality(Asking(after)) \in Nat
            /\ chs[e].step \notin {"prompt", "generate"} =>
                 Cardinality(Asking(after)) <= Cardinality(Asking(chs)) + 1
            /\ c.step \notin {"prompt", "generate"} =>
                 Cardinality(Asking(after)) <= Cardinality(Asking(chs))
            /\ c.step \notin {"prompt", "generate"} /\ chs[e].step \in {"prompt", "generate"} =>
                 Cardinality(Asking(after)) + 1 = Cardinality(Asking(chs))
            /\ chs[e].step \in {"prompt", "generate"} =>
                 Cardinality(Asking(after)) <= Cardinality(Asking(chs))
<1>. DEFINE after == [chs EXCEPT ![e] = c]
            A == Asking(chs)
            B == Asking(after)
<1>1. /\ \A x \in Editors : x # e => after[x] = chs[x]
      /\ after[e] = c
  OBVIOUS
<1>2. IsFiniteSet(Editors)
  <2>1. 1 \in Int /\ MaxEditors \in Int
    BY AiNumbers
  <2>. QED BY <2>1, FS_Interval DEF Editors
<1>3. A \subseteq Editors /\ B \subseteq Editors
  BY DEF Asking
<1>4. /\ \A x \in Editors : x # e => (x \in A <=> x \in B)
      /\ e \in A <=> chs[e].step \in {"prompt", "generate"}
      /\ e \in B <=> c.step \in {"prompt", "generate"}
  BY <1>1 DEF Asking
<1>. HIDE DEF A, B, after
<1>5. IsFiniteSet(A) /\ IsFiniteSet(B) /\ Cardinality(A) \in Nat /\ Cardinality(B) \in Nat
  BY <1>2, <1>3, FS_Subset, FS_CardinalityType
<1>6. CASE e \in A /\ e \in B
  <2>1. A = B
    BY <1>3, <1>4, <1>6
  <2>. QED BY <2>1, <1>4, <1>5, <1>6 DEF A, B, after
<1>7. CASE e \notin A /\ e \notin B
  <2>1. A = B
    BY <1>3, <1>4, <1>7
  <2>. QED BY <2>1, <1>4, <1>5, <1>7 DEF A, B, after
<1>8. CASE e \in A /\ e \notin B
  <2>1. A = B \cup {e}
    BY <1>3, <1>4, <1>8
  <2>2. Cardinality(A) = Cardinality(B) + 1
    BY <2>1, <1>5, <1>8, FS_AddElement
  <2>. QED BY <2>2, <1>4, <1>5, <1>8 DEF A, B, after
<1>9. CASE e \notin A /\ e \in B
  <2>1. B = A \cup {e}
    BY <1>3, <1>4, <1>9
  <2>2. Cardinality(B) = Cardinality(A) + 1
    BY <2>1, <1>5, <1>9, FS_AddElement
  <2>. QED BY <2>2, <1>4, <1>5, <1>9 DEF A, B, after
<1>. QED BY <1>6, <1>7, <1>8, <1>9

(* What is right remains so when more is named and said.                     *)
LEMMA EditorGrows ==
  ASSUME NEW ed, NEW ch, NEW n \in Nat, NEW s \in Nat, NEW m \in Nat, NEW t \in Nat,
         n <= m, s <= t, EditorIsRight(ed, ch, n, s)
  PROVE  EditorIsRight(ed, ch, m, t)
<1>1. ed \in EditorTypes(m)
  BY AiNumbers DEF EditorIsRight, EditorTypes
<1>2. Whole(ed.messages, t)
  BY WholeGrows DEF EditorIsRight
<1>3. ed.content <= t
  BY DEF EditorIsRight, EditorTypes
<1>. QED BY <1>1, <1>2, <1>3 DEF EditorIsRight

(* The same of a send.                                                       *)
LEMMA ChainGrows ==
  ASSUME NEW ch, NEW n \in Nat, NEW s \in Nat, NEW m \in Nat, NEW t \in Nat,
         n <= m, s <= t, ChainIsRight(ch, n, s)
  PROVE  ChainIsRight(ch, m, t)
<1>1. ch \in ChainTypes(m)
  BY AiNumbers DEF ChainIsRight, ChainTypes
<1>2. ch.content <= t
  BY DEF ChainIsRight, ChainTypes
<1>3. ch.step # "idle" => ch.as # NoSession /\ Whole(ch.copy, t)
  BY WholeGrows DEF ChainIsRight
<1>4. Len(ch.copy) < 2 * s => Len(ch.copy) < 2 * t
  <2>1. Len(ch.copy) \in Nat
    BY <1>1 DEF ChainTypes
  <2>. QED BY <2>1
<1>. QED BY <1>1, <1>2, <1>3, <1>4 DEF ChainIsRight

(* The same of a stored conversation.                                        *)
LEMMA HistoryGrows ==
  ASSUME NEW h, NEW s \in Nat, NEW t \in Nat, s <= t, HistoryIsRight(h, s)
  PROVE  HistoryIsRight(h, t)
<1>1. h.content <= t
  BY DEF HistoryIsRight, HistoryTypes
<1>. QED BY <1>1, WholeGrows DEF HistoryIsRight

(* The same of the loads.                                                    *)
LEMMA LoadsGrow ==
  ASSUME NEW ld, NEW n \in Nat, NEW s \in Nat, NEW m \in Nat, NEW t \in Nat,
         n <= m, s <= t, LoadsAreRight(ld, n, s)
  PROVE  LoadsAreRight(ld, m, t)
<1>. SUFFICES ASSUME NEW l \in ld PROVE LoadIsRight(l, m, t)
  BY DEF LoadsAreRight
<1>1. LoadIsRight(l, n, s)
  BY DEF LoadsAreRight
<1>2. l \in [at : Editors, of : 1..m, got : Seq(HistoryTypes)]
  BY <1>1, AiNumbers DEF LoadIsRight
<1>. QED BY <1>1, <1>2, HistoryGrows DEF LoadIsRight

(* One editor and its send change.                                           *)
LEMMA EditorChanges ==
  ASSUME NEW eds, NEW chs, NEW n \in Nat, NEW s \in Nat, NEW m \in Nat, NEW t \in Nat,
         n <= m, s <= t, EditorsAreRight(eds, chs, n, s), NEW e \in Editors, NEW ed, NEW ch,
         EditorIsRight(ed, ch, m, t), ChainIsRight(ch, m, t)
  PROVE  EditorsAreRight([eds EXCEPT ![e] = ed], [chs EXCEPT ![e] = ch], m, t)
<1>. DEFINE f == [eds EXCEPT ![e] = ed]
            g == [chs EXCEPT ![e] = ch]
<1>1. /\ eds = [x \in Editors |-> eds[x]] /\ chs = [x \in Editors |-> chs[x]]
      /\ \A x \in Editors : EditorIsRight(eds[x], chs[x], n, s) /\ ChainIsRight(chs[x], n, s)
  BY DEF EditorsAreRight
<1>2. f = [x \in Editors |-> f[x]] /\ g = [x \in Editors |-> g[x]]
  BY <1>1
<1>3. f[e] = ed /\ g[e] = ch /\ \A x \in Editors : x # e => f[x] = eds[x] /\ g[x] = chs[x]
  BY <1>1
<1>. HIDE DEF f, g
<1>4. ASSUME NEW x \in Editors PROVE EditorIsRight(f[x], g[x], m, t) /\ ChainIsRight(g[x], m, t)
  <2>1. CASE x = e
    BY <2>1, <1>3
  <2>2. CASE x # e
    <3>1. EditorIsRight(eds[x], chs[x], n, s) /\ ChainIsRight(chs[x], n, s)
      BY <1>1
    <3>2. EditorIsRight(eds[x], chs[x], m, t) /\ ChainIsRight(chs[x], m, t)
      BY <3>1, EditorGrows, ChainGrows
    <3>. QED BY <3>2, <2>2, <1>3
  <2>. QED BY <2>1, <2>2
<1>5. EditorsAreRight(f, g, m, t)
  BY <1>2, <1>4 DEF EditorsAreRight
<1>. QED BY <1>5 DEF f, g

(* One stored conversation changes.                                          *)
LEMMA HistoryChanges ==
  ASSUME NEW hs, NEW n \in Nat, NEW s \in Nat, HistoriesAreRight(hs, n, s),
         NEW x \in Names, NEW h, HistoryIsRight(h, s), x <= n
  PROVE  HistoriesAreRight([hs EXCEPT ![x] = h], n, s)
<1>. DEFINE f == [hs EXCEPT ![x] = h]
<1>1. /\ hs = [y \in Names |-> hs[y]]
      /\ \A y \in Names : HistoryIsRight(hs[y], s) /\ (hs[y].state # "absent" => y <= n)
  BY DEF HistoriesAreRight
<1>2. f = [y \in Names |-> f[y]] /\ f[x] = h /\ \A y \in Names : y # x => f[y] = hs[y]
  BY <1>1
<1>. HIDE DEF f
<1>3. HistoriesAreRight(f, n, s)
  BY <1>1, <1>2 DEF HistoriesAreRight
<1>. QED BY <1>3 DEF f

(* Stored conversations remain right when more is named and said.            *)
LEMMA HistoriesGrow ==
  ASSUME NEW hs, NEW n \in Nat, NEW s \in Nat, NEW m \in Nat, NEW t \in Nat,
         n <= m, s <= t, HistoriesAreRight(hs, n, s)
  PROVE  HistoriesAreRight(hs, m, t)
<1>1. \A x \in Names : x \in Nat
  BY AiNumbers DEF Names
<1>2. \A x \in Names : x <= n => x <= m
  BY <1>1
<1>3. \A x \in Names : HistoryIsRight(hs[x], t)
  BY HistoryGrows DEF HistoriesAreRight
<1>. QED BY <1>2, <1>3 DEF HistoriesAreRight

(* The ref of an editor follows the session.                                 *)
LEMMA RefChanges ==
  ASSUME NEW eds, NEW chs, NEW n \in Nat, NEW s \in Nat, EditorsAreRight(eds, chs, n, s),
         NEW e \in Editors, NEW session \in Known(n)
  PROVE  EditorsAreRight([eds EXCEPT ![e].ref = session], chs, n, s)
<1>. DEFINE ed == [eds[e] EXCEPT !.ref = session]
            f == [eds EXCEPT ![e].ref = session]
<1>1. /\ eds = [x \in Editors |-> eds[x]] /\ chs = [x \in Editors |-> chs[x]]
      /\ EditorIsRight(eds[e], chs[e], n, s) /\ ChainIsRight(chs[e], n, s)
  BY DEF EditorsAreRight
<1>2. EditorIsRight(ed, chs[e], n, s)
  BY <1>1 DEF EditorIsRight, EditorTypes
<1>3. f = [eds EXCEPT ![e] = ed] /\ chs = [chs EXCEPT ![e] = chs[e]]
  BY <1>1
<1>. HIDE DEF ed, f
<1>4. ChainIsRight(chs[e], n, s) /\ n <= n /\ s <= s
  BY <1>1
<1>5. EditorsAreRight([eds EXCEPT ![e] = ed], [chs EXCEPT ![e] = chs[e]], n, s)
  BY <1>2, <1>4, EditorChanges
<1>6. EditorsAreRight(f, chs, n, s)
  BY <1>3, <1>5
<1>. QED BY <1>6 DEF f

(* Only the ref of the editor shown follows.                                 *)
LEMMA FollowedIsRight ==
  ASSUME NEW eds, NEW chs, NEW n \in Nat, NEW s \in Nat, EditorsAreRight(eds, chs, n, s),
         NEW session \in Known(n), wizard.shown \in 0..MaxEditors
  PROVE  /\ EditorsAreRight(Followed(eds, session), chs, n, s)
         /\ \A e \in Editors : e # wizard.shown => Followed(eds, session)[e] = eds[e]
<1>1. CASE ~Moved(session)
  BY <1>1 DEF Followed, EditorsAreRight, EditorIsRight, EditorTypes
<1>2. CASE Moved(session)
  <2>1. wizard.shown \in Editors
    BY <1>2, AiNumbers DEF Moved, Editors
  <2>2. Followed(eds, session) = [eds EXCEPT ![wizard.shown].ref = session]
    BY <1>2 DEF Followed
  <2>3. EditorsAreRight(Followed(eds, session), chs, n, s)
    <3>. DEFINE w == wizard.shown
    <3>1. w \in Editors
      BY <2>1
    <3>. HIDE DEF w
    <3>2. EditorsAreRight([eds EXCEPT ![w].ref = session], chs, n, s)
      BY <3>1, RefChanges
    <3>. QED BY <3>2, <2>2 DEF w
  <2>4. eds = [x \in Editors |-> eds[x]]
    BY DEF EditorsAreRight
  <2>5. ASSUME NEW e \in Editors
        PROVE  e # wizard.shown => Followed(eds, session)[e] = eds[e]
    BY <2>2, <2>4
  <2>. QED BY <2>3, <2>5
<1>. QED BY <1>1, <1>2

-----------------------------------------------------------------------------
(* What the invariant says of the numbers and of each part.                  *)
LEMMA SessionGives ==
  ASSUME SessionInv
  PROVE  /\ named \in Nat /\ sends \in Nat /\ sends <= MaxSends /\ aiErrors \in Nat
         /\ named <= 2 * MaxSends /\ 1..named \subseteq Names
         /\ WizardIsRight /\ CountsAreRight /\ TalkIsRight
         /\ EditorsAreRight(editors, chains, named, sends)
         /\ HistoriesAreRight(histories, named, sends) /\ LoadsAreRight(loads, named, sends)
         /\ deleting \in [Editors -> Known(named)]
         /\ editors = [e \in Editors |-> editors[e]] /\ chains = [e \in Editors |-> chains[e]]
         /\ \A e \in Editors :
              /\ editors[e] \in EditorTypes(named) /\ chains[e] \in ChainTypes(named)
              /\ EditorIsRight(editors[e], chains[e], named, sends)
              /\ ChainIsRight(chains[e], named, sends)
         /\ histories = [x \in Names |-> histories[x]]
         /\ \A x \in Names : histories[x] \in HistoryTypes
         /\ wizard \in Wizards(named) /\ wizard.shown \in 0..MaxEditors
         /\ wizard.shown # 0 => wizard.shown \in Editors
         /\ \A l \in loads : l \in [at : Editors, of : 1..named, got : Seq(HistoryTypes)]
<1>1. WizardIsRight /\ CountsAreRight /\ TalkIsRight
  BY DEF SessionInv
<1>2. named \in Nat /\ sends \in Nat /\ sends <= MaxSends /\ aiErrors \in Nat
  BY <1>1, AiNumbers DEF CountsAreRight
<1>3. /\ EditorsAreRight(editors, chains, named, sends)
      /\ HistoriesAreRight(histories, named, sends) /\ LoadsAreRight(loads, named, sends)
      /\ deleting \in [Editors -> Known(named)]
  BY <1>1 DEF TalkIsRight
<1>4. /\ editors = [e \in Editors |-> editors[e]] /\ chains = [e \in Editors |-> chains[e]]
      /\ \A e \in Editors :
           /\ EditorIsRight(editors[e], chains[e], named, sends)
           /\ ChainIsRight(chains[e], named, sends)
  BY <1>3 DEF EditorsAreRight
<1>5. \A e \in Editors : editors[e] \in EditorTypes(named) /\ chains[e] \in ChainTypes(named)
  BY <1>4 DEF EditorIsRight, ChainIsRight
<1>6. /\ histories = [x \in Names |-> histories[x]]
      /\ \A x \in Names : histories[x] \in HistoryTypes
  BY <1>3 DEF HistoriesAreRight, HistoryIsRight
<1>7. named <= 2 * MaxSends /\ 1..named \subseteq Names
  <2>1. IsFiniteSet(Asking(chains)) /\ Cardinality(Asking(chains)) \in Nat
    <3>1. 1 \in Int /\ MaxEditors \in Int
      BY AiNumbers
    <3>2. IsFiniteSet(Editors) /\ Asking(chains) \subseteq Editors
      BY <3>1, FS_Interval DEF Editors, Asking
    <3>. QED BY <3>2, FS_Subset, FS_CardinalityType
  <2>2. named + Cardinality(Asking(chains)) <= 2 * sends
    BY <1>1 DEF CountsAreRight
  <2>3. MaxSends \in Nat
    BY AiNumbers
  <2>4. named <= 2 * MaxSends
    BY <2>1, <2>2, <2>3, <1>2
  <2>. QED BY <2>3, <2>4, <1>2 DEF Names
<1>8. wizard \in Wizards(named) /\ wizard.shown \in 0..MaxEditors
  BY <1>1 DEF WizardIsRight, Wizards
<1>9. wizard.shown # 0 => wizard.shown \in Editors
  BY <1>8, AiNumbers DEF Editors
<1>10. \A l \in loads : l \in [at : Editors, of : 1..named, got : Seq(HistoryTypes)]
  BY <1>3 DEF LoadsAreRight, LoadIsRight
<1>. QED BY <1>1, <1>2, <1>3, <1>4, <1>5, <1>6, <1>7, <1>8, <1>9, <1>10

(* For a user who waits, what is under way is in the editor that is shown.   *)
LEMMA OnlyAtWork ==
  ASSUME SessionInv, unhurried
  PROVE  /\ \A e \in Editors : ~AtRestIn(e) => wizard.shown = e
         /\ loads # {} => wizard.shown # 0
         /\ wizard.shown # 0 => AtWork /\ wizard.shown \in Editors
         /\ wizard.shown = 0 => AtHome
<1>1. 0 \notin Editors
  BY DEF Editors
<1>. QED BY <1>1, SessionGives DEF SessionInv, AtHome, AtWork

(* What a user who waits starts from.                                        *)
LEMMA NothingPending ==
  ASSUME ~CallPending
  PROVE  loads = {} /\ \A e \in Editors : chains[e].step = "idle" /\ deleting[e] = NoSession
BY DEF CallPending

(* A save of the editor e, whose state is changed first, names its session.  *)
LEMMA SavesIs ==
  ASSUME SessionInv, NEW e \in Editors, NEW eds,
         NEW m, NEW c, NEW l, NEW n \in Known(named), NEW r, NEW k, NEW how, NEW copy, NEW content,
         eds = [editors EXCEPT ![e] = [messages |-> m, content |-> c, isLoading |-> l,
                                       name |-> n, ref |-> r, kept |-> k]],
         Saves(e, eds, how, copy, content)
  PROVE  LET s == IF n = NoSession THEN named + 1 ELSE n
         IN /\ named' = (IF n = NoSession THEN s ELSE named)
            /\ editors' = [editors EXCEPT ![e] = [messages |-> m, content |-> c, isLoading |-> l,
                                                  name |-> s, ref |-> r, kept |-> k]]
            /\ chains' = [chains EXCEPT ![e] = [step |-> how, as |-> s, copy |-> copy,
                                                content |-> content]]
            /\ named' \in Nat /\ named <= named' /\ named' <= named + 1
            /\ s \in Known(named') /\ s # NoSession /\ s \in Nat /\ s > 0
<1>. DEFINE s == IF n = NoSession THEN named + 1 ELSE n
            ed == [messages |-> m, content |-> c, isLoading |-> l, name |-> n, ref |-> r,
                   kept |-> k]
            own == [messages |-> m, content |-> c, isLoading |-> l, name |-> s, ref |-> r,
                    kept |-> k]
<1>1. editors = [x \in Editors |-> editors[x]] /\ named \in Nat
  BY SessionGives
<1>2. eds[e] = ed /\ eds = [x \in Editors |-> IF x = e THEN ed ELSE editors[x]]
  BY <1>1
<1>3. eds[e].name = n
  BY <1>2
<1>4. /\ named' = (IF n = NoSession THEN s ELSE named)
      /\ editors' = [eds EXCEPT ![e].name = s]
      /\ chains' = [chains EXCEPT ![e] = [step |-> how, as |-> s, copy |-> copy,
                                          content |-> content]]
  BY <1>3 DEF Saves
<1>5. editors' = [editors EXCEPT ![e] = own]
  <2>. HIDE DEF s
  <2>1. [ed EXCEPT !.name = s] = own
    OBVIOUS
  <2>. HIDE DEF ed, own
  <2>. QED BY <2>1, <1>1, <1>2, <1>4
<1>6. /\ named' \in Nat /\ named <= named' /\ named' <= named + 1
      /\ s \in Known(named') /\ s # NoSession /\ s \in Nat /\ s > 0
  <2>1. CASE n = NoSession
    BY <2>1, <1>1, <1>4, AiNumbers DEF Known
  <2>2. CASE n # NoSession
    <3>1. n \in 1..named
      BY <2>2, <1>1 DEF Known
    <3>. QED BY <3>1, <2>2, <1>1, <1>4, AiNumbers DEF Known
  <2>. QED BY <2>1, <2>2
<1>. QED BY <1>4, <1>5, <1>6

(* What one editor and its send leave of the rest.                           *)
LEMMA EditorAndSend ==
  ASSUME SessionInv, NEW e \in Editors, NEW ed, NEW ch,
         editors' = [editors EXCEPT ![e] = ed], chains' = [chains EXCEPT ![e] = ch],
         named' \in Nat, named <= named', sends' \in Nat, sends <= sends',
         EditorIsRight(ed, ch, named', sends'), ChainIsRight(ch, named', sends')
  PROVE  /\ EditorsAreRight(editors', chains', named', sends')
         /\ HistoriesAreRight(histories, named', sends') /\ LoadsAreRight(loads, named', sends')
         /\ deleting \in [Editors -> Known(named')]
         /\ editors'[e] = ed /\ chains'[e] = ch
         /\ \A x \in Editors : x # e => editors'[x] = editors[x] /\ chains'[x] = chains[x]
<1>. DEFINE n == named'
            t == sends'
<1>1. n \in Nat /\ t \in Nat /\ named <= n /\ sends <= t /\ named \in Nat /\ sends \in Nat
  BY SessionGives
<1>2. EditorIsRight(ed, ch, n, t) /\ ChainIsRight(ch, n, t)
  OBVIOUS
<1>. HIDE DEF n, t
<1>3. EditorsAreRight([editors EXCEPT ![e] = ed], [chains EXCEPT ![e] = ch], n, t)
  BY <1>1, <1>2, SessionGives, EditorChanges
<1>4. HistoriesAreRight(histories, n, t) /\ LoadsAreRight(loads, n, t)
  BY <1>1, SessionGives, HistoriesGrow, LoadsGrow
<1>5. deleting \in [Editors -> Known(n)]
  BY <1>1, SessionGives, AiNumbers
<1>6. /\ editors'[e] = ed /\ chains'[e] = ch
      /\ \A x \in Editors : x # e => editors'[x] = editors[x] /\ chains'[x] = chains[x]
  BY SessionGives
<1>. QED BY <1>3, <1>4, <1>5, <1>6 DEF n, t

(* What a request leaves that works or fails.                                *)
LEMMA WorksOrFails ==
  ASSUME SessionInv, AiWorks \/ AiFails
  PROVE  /\ UNCHANGED <<sends, turns, unhurried>>
         /\ aiErrors' \in 0..MaxAiErrors /\ aiErrors' \in Nat /\ aiErrors \in Nat
         /\ aiErrors' \in {aiErrors, aiErrors + 1} /\ (AiWorks => aiErrors' = aiErrors)
<1>1. aiErrors \in 0..MaxAiErrors
  BY SessionGives DEF CountsAreRight
<1>. QED BY <1>1, AiNumbers DEF AiWorks, AiFails

(* A send goes on.                                                           *)
LEMMA CountsKeep ==
  ASSUME SessionInv, NEW e \in Editors, NEW ch, chains' = [chains EXCEPT ![e] = ch],
         UNCHANGED <<sends, unhurried>>, turns' \in 0..MaxTurns, aiErrors' \in 0..MaxAiErrors,
         \/ named' = named /\ (ch.step \notin {"prompt", "generate"}
                                 \/ chains[e].step \in {"prompt", "generate"})
         \/ /\ named' \in Nat /\ named' <= named + 1
            /\ ch.step \notin {"prompt", "generate"} /\ chains[e].step \in {"prompt", "generate"}
  PROVE  CountsAreRight'
<1>1. /\ named \in Nat /\ sends \in Nat /\ chains = [x \in Editors |-> chains[x]]
      /\ CountsAreRight
  BY SessionGives
<1>. DEFINE before == Cardinality(Asking(chains))
            after == Cardinality(Asking(chains'))
<1>2. /\ before \in Nat /\ after \in Nat
      /\ (ch.step \notin {"prompt", "generate"} \/ chains[e].step \in {"prompt", "generate"}) =>
           after <= before
      /\ ch.step \notin {"prompt", "generate"} /\ chains[e].step \in {"prompt", "generate"} =>
           after + 1 = before
  BY <1>1, AskingCounts
<1>3. named + before <= 2 * sends
  BY <1>1 DEF CountsAreRight
<1>4. Asking(chains)' = Asking(chains')
  BY DEF Asking
<1>. HIDE DEF before, after
<1>5. named' \in Nat /\ named' + after <= 2 * sends
  BY <1>1, <1>2, <1>3
<1>. QED BY <1>1, <1>4, <1>5 DEF CountsAreRight, after

(* The editors to come stay idle.                                            *)
LEMMA UnopenedKeep ==
  ASSUME SessionInv, NEW e \in Editors, NEW ch, chains' = [chains EXCEPT ![e] = ch],
         wizard'.opened = wizard.opened, wizard.shown = e \/ chains[e].step # "idle"
  PROVE  UnopenedAreIdle'
<1>1. /\ chains = [x \in Editors |-> chains[x]] /\ wizard \in Wizards(named)
      /\ UnopenedAreIdle /\ (wizard.shown # 0 => wizard.shown = wizard.opened)
  BY SessionGives DEF SessionInv, WizardIsRight
<1>2. wizard.opened \in Nat /\ \A x \in Editors : x \in Nat /\ x # 0
  BY <1>1, AiNumbers DEF Wizards, Editors
<1>3. ~(e > wizard.opened)
  BY <1>1, <1>2 DEF UnopenedAreIdle
<1>. QED BY <1>1, <1>3 DEF UnopenedAreIdle

-----------------------------------------------------------------------------
(* A prompt is sent.                                                         *)
LEMMA SendKeeps ==
  ASSUME SessionInv, NEW e \in Editors, Send(e)
  PROVE  SessionInv'
<1>. DEFINE asked == Append(editors[e].messages, [by |-> "user", of |-> sends + 1])
            name == editors[e].name
            s == IF name = NoSession THEN named + 1 ELSE name
            ed == [messages |-> asked, content |-> editors[e].content, isLoading |-> TRUE,
                   name |-> s, ref |-> editors[e].ref, kept |-> editors[e].kept]
            ch == [step |-> "prompt", as |-> s, copy |-> asked, content |-> editors[e].content]
<1>1. /\ named \in Nat /\ sends \in Nat /\ sends <= MaxSends /\ aiErrors \in Nat
      /\ named <= 2 * MaxSends
      /\ editors = [x \in Editors |-> editors[x]] /\ chains = [x \in Editors |-> chains[x]]
      /\ editors[e] \in EditorTypes(named) /\ chains[e] \in ChainTypes(named)
      /\ EditorIsRight(editors[e], chains[e], named, sends)
      /\ deleting \in [Editors -> Known(named)]
  BY SessionGives
<1>2. /\ wizard.shown = e /\ ~editors[e].isLoading /\ (unhurried => ~CallPending)
      /\ sends < MaxSends /\ sends' = sends + 1
      /\ UNCHANGED <<wizard, loads, deleting, histories, turns, aiErrors, unhurried>>
  BY DEF Send
<1>3. /\ named' = (IF name = NoSession THEN s ELSE named) /\ chains' = [chains EXCEPT ![e] = ch]
      /\ editors' = [editors EXCEPT ![e] = ed]
      /\ named' \in Nat /\ named <= named' /\ named' <= named + 1
      /\ s \in Known(named') /\ s # NoSession /\ s \in Nat /\ s > 0
  <2>. DEFINE eds == [editors EXCEPT ![e].messages = asked, ![e].isLoading = TRUE]
              c == editors[e].content
              r == editors[e].ref
              k == editors[e].kept
              yes == TRUE
  <2>1. Saves(e, eds, "prompt", asked, c)
    BY DEF Send
  <2>2. eds = [editors EXCEPT ![e] = [editors[e] EXCEPT !.messages = asked, !.isLoading = yes]]
    BY <1>1
  <2>. HIDE DEF asked, yes
  <2>3. [editors[e] EXCEPT !.messages = asked, !.isLoading = yes]
        = [messages |-> asked, content |-> c, isLoading |-> yes, name |-> name, ref |-> r,
           kept |-> k]
    <3>. DEFINE old == editors[e]
                was == old.messages
                busy == old.isLoading
    <3>1. old = [messages |-> was, content |-> c, isLoading |-> busy, name |-> name, ref |-> r,
                 kept |-> k]
      BY <1>1 DEF EditorTypes
    <3>. HIDE DEF old, c, r, k, name, was, busy, s, ed, ch
    <3>. DEFINE mid == [old EXCEPT !.messages = asked]
    <3>2. mid = [messages |-> asked, content |-> c, isLoading |-> busy, name |-> name, ref |-> r,
                 kept |-> k]
      BY <3>1
    <3>3. [old EXCEPT !.messages = asked, !.isLoading = yes] = [mid EXCEPT !.isLoading = yes]
      BY <3>1
    <3>. HIDE DEF mid
    <3>4. [mid EXCEPT !.isLoading = yes]
          = [messages |-> asked, content |-> c, isLoading |-> yes, name |-> name, ref |-> r,
             kept |-> k]
      BY <3>2
    <3>. QED BY <3>3, <3>4 DEF old
  <2>4. name \in Known(named)
    BY <1>1 DEF EditorTypes
  <2>5. eds = [editors EXCEPT ![e] = [messages |-> asked, content |-> c, isLoading |-> yes,
                                      name |-> name, ref |-> r, kept |-> k]]
    BY <2>2, <2>3
  <2>. HIDE DEF eds, c, r, k, yes, name
  <2>6. /\ named' = (IF name = NoSession THEN s ELSE named)
        /\ editors' = [editors EXCEPT ![e] = [messages |-> asked, content |-> c,
                                  isLoading |-> yes, name |-> s, ref |-> r, kept |-> k]]
        /\ chains' = [chains EXCEPT ![e] = [step |-> "prompt", as |-> s, copy |-> asked,
                                            content |-> c]]
        /\ named' \in Nat /\ named <= named' /\ named' <= named + 1
        /\ s \in Known(named') /\ s # NoSession /\ s \in Nat /\ s > 0
    BY <2>1, <2>4, <2>5, SavesIs
  <2>. HIDE DEF s
  <2>. QED BY <2>6 DEF c, r, k, yes
<1>4. editors' = [editors EXCEPT ![e] = ed]
  BY <1>3
<1>5. chains[e].step = "idle"
  BY <1>1, <1>2 DEF EditorIsRight
<1>6. /\ Whole(asked, sends + 1) /\ Len(asked) > 0 /\ Len(asked) < 2 * (sends + 1)
      /\ asked[Len(asked)].by = "user" /\ asked \in Seq(Message)
  <2>1. Whole(editors[e].messages, sends)
    BY <1>1 DEF EditorIsRight
  <2>2. /\ Whole(asked, sends + 1) /\ Len(asked) > 0 /\ Len(asked) < 2 * (sends + 1)
        /\ asked[Len(asked)].by = "user"
    BY <2>1, <1>1, <1>2, PromptIsWhole
  <2>. QED BY <2>2 DEF Whole
<1>7. /\ named' \in Nat /\ named <= named'
      /\ s \in Known(named') /\ s # NoSession /\ s \in Nat /\ s > 0
  BY <1>3
<1>8. editors[e].content <= sends' /\ editors[e].content \in Nat
  BY <1>1, <1>2 DEF EditorIsRight, EditorTypes
<1>9. editors[e].ref \in Known(named') /\ editors[e].kept \in BOOLEAN
  BY <1>1, <1>7, AiNumbers DEF EditorTypes
<1>. HIDE DEF asked, s
<1>10. EditorIsRight(ed, ch, named', sends')
  BY <1>2, <1>6, <1>7, <1>8, <1>9 DEF EditorIsRight, EditorTypes
<1>11. ChainIsRight(ch, named', sends')
  BY <1>2, <1>6, <1>7, <1>8 DEF ChainIsRight, ChainTypes
<1>12. ed.ref = editors[e].ref /\ ed.name = s /\ ch.step = "prompt" /\ ch.as = s
       /\ ed.messages = ch.copy /\ ed.content = ch.content
  OBVIOUS
<1>. HIDE DEF ed, ch
<1>13. sends' \in Nat /\ sends <= sends'
  BY <1>1, <1>2
<1>14. TalkIsRight'
  <2>. QED BY <1>2, <1>3, <1>4, <1>7, <1>10, <1>11, <1>13, EditorAndSend DEF TalkIsRight
<1>15. CountsAreRight'
  <2>1. /\ Cardinality(Asking(chains)) \in Nat /\ Cardinality(Asking(chains')) \in Nat
        /\ Cardinality(Asking(chains')) <= Cardinality(Asking(chains)) + 1
    BY <1>1, <1>3, <1>5, AskingCounts
  <2>2. named + Cardinality(Asking(chains)) <= 2 * sends
    BY SessionGives DEF CountsAreRight
  <2>3. named' + Cardinality(Asking(chains')) <= 2 * sends'
    <3>1. named' <= named + 1
      BY <1>1, <1>3 DEF s
    <3>. QED BY <3>1, <2>1, <2>2, <1>1, <1>2, <1>7
  <2>4. Asking(chains)' = Asking(chains')
    BY DEF Asking
  <2>. QED BY <2>3, <2>4, <1>1, <1>2, <1>7, SessionGives, AiNumbers DEF CountsAreRight
<1>16. WizardIsRight'
  <2>1. WizardIsRight /\ wizard' = wizard /\ editors'[e] = ed
    BY <1>1, <1>2, <1>4, SessionGives
  <2>2. Wizards(named) \subseteq Wizards(named')
    BY <1>1, <1>7, AiNumbers DEF Wizards
  <2>. QED BY <2>1, <2>2, <1>2, <1>12 DEF WizardIsRight
<1>17. ASSUME unhurried PROVE AtWork'
  <2>1. AtWork /\ loads = {} /\ \A x \in Editors : AtRestIn(x)
    BY <1>2, <1>17, OnlyAtWork, NothingPending DEF AtRestIn, Editors
  <2>. DEFINE h == histories
              url == wizard.url
  <2>2. /\ Addressed(editors[e], chains[e], {}, h, url, aiErrors)
        /\ NamesAreRight(editors[e], chains[e], {}, NoSession, h, aiErrors)
    BY <2>1, <1>2 DEF AtWork, AtEditor, AtRestIn
  <2>3. h[s].state # "trashed" /\ (h[s].state = "lost" => IsLost(editors[e], h))
    <3>1. CASE name = NoSession
      <4>1. s = named + 1 /\ named' = s
        BY <3>1, <1>3 DEF s
      <4>2. s <= 2 * MaxSends
        <5>1. Cardinality(Asking(chains')) \in Nat
          BY <1>1, <1>3, AskingCounts
        <5>2. Asking(chains)' = Asking(chains') /\ MaxSends \in Nat
          BY AiNumbers DEF Asking
        <5>. QED BY <4>1, <5>1, <5>2, <1>1, <1>2, <1>7, <1>15 DEF CountsAreRight
      <4>3. s \in Names /\ ~(s <= named)
        BY <4>1, <4>2, <1>1, <1>7, AiNumbers DEF Names
      <4>. QED BY <4>3, SessionGives DEF HistoriesAreRight
    <3>2. CASE name # NoSession
      BY <3>2, <2>2 DEF NamesAreRight, IsLost, s
    <3>. QED BY <3>1, <3>2
  <2>4. aiErrors = 0 => ed.ref = s \/ ed.ref = NoSession
    BY <2>1, <2>2, <1>5, <1>12 DEF NamesAreRight, s
  <2>5. NamesAreRight(ed, ch, {}, NoSession, h, aiErrors)
    BY <2>2, <2>3, <2>4, <1>7, <1>12 DEF NamesAreRight, IsLost
  <2>6. Addressed(ed, ch, {}, h, url, aiErrors)
    BY <2>2, <2>3, <1>1, <1>5, <1>12 DEF Addressed, Gone, IsLost, s
  <2>7. AtEditor(ed, ch, {}, NoSession, h, url, aiErrors)
    BY <2>5, <2>6, <1>12 DEF AtEditor, Exclusive, LoadsAreCurrent, ChainIsShown
  <2>8. editors'[e] = ed /\ chains'[e] = ch /\ \A x \in Editors : x # e => chains'[x] = chains[x]
    BY <1>1, <1>3, <1>4
  <2>. QED BY <2>1, <2>7, <2>8, <1>2 DEF AtWork, AtRestIn
<1>18. UnopenedAreIdle'
  BY <1>2, <1>3, UnopenedKeep
<1>. QED BY <1>2, <1>14, <1>15, <1>16, <1>17, <1>18 DEF SessionInv, Editors

(* The model answers, or does not.                                           *)
LEMMA GeneratedKeeps ==
  ASSUME SessionInv, NEW e \in Editors, Generated(e)
  PROVE  SessionInv'
<1>. DEFINE copy == chains[e].copy
            n == copy[Len(copy)].of
            all == Append(copy, [by |-> "assistant", of |-> n])
            name == editors[e].name
            s == IF name = NoSession THEN named + 1 ELSE name
            Ed(c) == [messages |-> all, content |-> c, isLoading |-> editors[e].isLoading,
                      name |-> s, ref |-> editors[e].ref, kept |-> editors[e].kept]
            Ch(how, c) == [step |-> how, as |-> s, copy |-> all, content |-> c]
            Said(how, c, d) ==
              /\ how \in {"reply", "error"} /\ c \in Nat /\ d \in Nat /\ c <= sends /\ d <= sends
              /\ editors' = [editors EXCEPT ![e] = Ed(c)]
              /\ chains' = [chains EXCEPT ![e] = Ch(how, d)]
              /\ \/ how = "reply" /\ c = d /\ AiWorks
                 \/ how = "error" /\ c = editors[e].content /\ d = chains[e].content /\ AiFails
<1>1. /\ named \in Nat /\ sends \in Nat /\ sends <= MaxSends /\ aiErrors \in Nat
      /\ named <= 2 * MaxSends
      /\ editors = [x \in Editors |-> editors[x]] /\ chains = [x \in Editors |-> chains[x]]
      /\ editors[e] \in EditorTypes(named) /\ chains[e] \in ChainTypes(named)
      /\ EditorIsRight(editors[e], chains[e], named, sends)
      /\ ChainIsRight(chains[e], named, sends)
  BY SessionGives
<1>2. /\ chains[e].step = "generate" /\ (unhurried => loads = {})
      /\ UNCHANGED <<wizard, loads, deleting, histories>>
  BY DEF Generated
<1>3. Whole(all, sends) /\ all \in Seq(Message)
  <2>1. Whole(copy, sends) /\ Len(copy) > 0 /\ Len(copy) < 2 * sends /\ copy[Len(copy)].by = "user"
    BY <1>1, <1>2 DEF ChainIsRight
  <2>. HIDE DEF copy
  <2>2. Whole(all, sends)
    BY <2>1, <1>1, ReplyIsWhole
  <2>. QED BY <2>2 DEF Whole
<1>4. n \in Nat /\ n <= sends
  <2>1. /\ copy \in Seq(Message) /\ Len(copy) > 0 /\ \A i \in DOMAIN copy : copy[i].of <= sends
    BY <1>1, <1>2 DEF ChainIsRight, Whole
  <2>2. Len(copy) \in DOMAIN copy /\ copy[Len(copy)] \in Message
    BY <2>1
  <2>. QED BY <2>1, <2>2, AiNumbers DEF Message
<1>5. /\ editors[e].content \in Nat /\ editors[e].content <= sends
      /\ chains[e].content \in Nat /\ chains[e].content <= sends
  BY <1>1 DEF EditorIsRight, ChainIsRight, EditorTypes, ChainTypes
<1>6. /\ named' = (IF name = NoSession THEN s ELSE named)
      /\ named' \in Nat /\ named <= named' /\ named' <= named + 1
      /\ s \in Known(named') /\ s # NoSession /\ s \in Nat /\ s > 0
      /\ \E how \in {"reply", "error"}, c, d \in Nat : Said(how, c, d)
  <2>. DEFINE old == editors[e]
              was == old.messages
              k0 == old.content
              l == old.isLoading
              r == old.ref
              k == old.kept
  <2>1. old = [messages |-> was, content |-> k0, isLoading |-> l, name |-> name, ref |-> r,
               kept |-> k]
    BY <1>1 DEF EditorTypes
  <2>2. name \in Known(named)
    BY <1>1 DEF EditorTypes
  <2>. HIDE DEF was, l
  <2>3. CASE Replies(e, "reply", n) /\ AiWorks
    <3>. DEFINE eds == [editors EXCEPT ![e].messages = all, ![e].content = n]
    <3>1. Saves(e, eds, "reply", all, n)
      BY <2>3 DEF Replies
    <3>2. eds = [editors EXCEPT ![e] = [old EXCEPT !.messages = all, !.content = n]]
      BY <1>1
    <3>3. [old EXCEPT !.messages = all, !.content = n]
          = [messages |-> all, content |-> n, isLoading |-> l, name |-> name, ref |-> r, kept |-> k]
      <4>. HIDE DEF old, r, k, k0, name, all, n, s
      <4>. DEFINE mid == [old EXCEPT !.messages = all]
      <4>1. mid = [messages |-> all, content |-> k0, isLoading |-> l, name |-> name, ref |-> r,
                   kept |-> k]
        BY <2>1
      <4>2. [old EXCEPT !.messages = all, !.content = n] = [mid EXCEPT !.content = n]
        BY <2>1
      <4>. HIDE DEF mid
      <4>3. [mid EXCEPT !.content = n]
            = [messages |-> all, content |-> n, isLoading |-> l, name |-> name, ref |-> r,
               kept |-> k]
        BY <4>1
      <4>. QED BY <4>2, <4>3
    <3>4. eds = [editors EXCEPT ![e] = [messages |-> all, content |-> n, isLoading |-> l,
                                        name |-> name, ref |-> r, kept |-> k]]
      BY <3>2, <3>3
    <3>. HIDE DEF eds, all, l, r, k, name, n
    <3>5. /\ named' = (IF name = NoSession THEN s ELSE named)
          /\ editors' = [editors EXCEPT ![e] = [messages |-> all, content |-> n, isLoading |-> l,
                                                name |-> s, ref |-> r, kept |-> k]]
          /\ chains' = [chains EXCEPT ![e] = [step |-> "reply", as |-> s, copy |-> all,
                                              content |-> n]]
          /\ named' \in Nat /\ named <= named' /\ named' <= named + 1
          /\ s \in Known(named') /\ s # NoSession /\ s \in Nat /\ s > 0
      BY <3>1, <3>4, <2>2, SavesIs
    <3>. HIDE DEF s
    <3>6. Said("reply", n, n)
      BY <3>5, <2>3, <1>4 DEF l, r, k
    <3>. HIDE DEF Said
    <3>. QED BY <3>5, <3>6, <1>4
  <2>4. CASE Replies(e, "error", chains[e].content) /\ AiFails
    <3>. DEFINE eds == [editors EXCEPT ![e].messages = all, ![e].content = @]
                d == chains[e].content
    <3>1. Saves(e, eds, "error", all, d)
      BY <2>4 DEF Replies
    <3>2. eds = [editors EXCEPT ![e] = [old EXCEPT !.messages = all, !.content = k0]]
      BY <1>1
    <3>3. [old EXCEPT !.messages = all, !.content = k0]
          = [messages |-> all, content |-> k0, isLoading |-> l, name |-> name, ref |-> r,
             kept |-> k]
      <4>. HIDE DEF old, r, k, k0, name, all, n, s
      <4>. DEFINE mid == [old EXCEPT !.messages = all]
      <4>1. mid = [messages |-> all, content |-> k0, isLoading |-> l, name |-> name, ref |-> r,
                   kept |-> k]
        BY <2>1
      <4>2. [old EXCEPT !.messages = all, !.content = k0] = [mid EXCEPT !.content = k0]
        BY <2>1
      <4>. HIDE DEF mid
      <4>3. [mid EXCEPT !.content = k0]
            = [messages |-> all, content |-> k0, isLoading |-> l, name |-> name, ref |-> r,
               kept |-> k]
        BY <4>1
      <4>. QED BY <4>2, <4>3
    <3>4. eds = [editors EXCEPT ![e] = [messages |-> all, content |-> k0, isLoading |-> l,
                                        name |-> name, ref |-> r, kept |-> k]]
      BY <3>2, <3>3
    <3>. HIDE DEF eds, all, l, r, k, k0, name, d
    <3>5. /\ named' = (IF name = NoSession THEN s ELSE named)
          /\ editors' = [editors EXCEPT ![e] = [messages |-> all, content |-> k0, isLoading |-> l,
                                                name |-> s, ref |-> r, kept |-> k]]
          /\ chains' = [chains EXCEPT ![e] = [step |-> "error", as |-> s, copy |-> all,
                                              content |-> d]]
          /\ named' \in Nat /\ named <= named' /\ named' <= named + 1
          /\ s \in Known(named') /\ s # NoSession /\ s \in Nat /\ s > 0
      BY <3>1, <3>4, <2>2, SavesIs
    <3>. HIDE DEF s
    <3>6. Said("error", k0, d)
      BY <3>5, <2>4, <1>5 DEF l, r, k, k0, d
    <3>. HIDE DEF Said
    <3>. QED BY <3>5, <3>6, <1>5 DEF k0, d
  <2>. QED BY <2>3, <2>4 DEF Generated
<1>7. PICK how \in {"reply", "error"}, c \in Nat, d \in Nat : Said(how, c, d)
  BY <1>6
<1>. DEFINE ed == Ed(c)
            ch == Ch(how, d)
<1>. HIDE DEF s, n, all
<1>8. /\ UNCHANGED <<sends, turns, unhurried>>
      /\ aiErrors' \in 0..MaxAiErrors /\ aiErrors' \in Nat
      /\ aiErrors' \in {aiErrors, aiErrors + 1}
      /\ how = "reply" => aiErrors' = aiErrors
  BY <1>7, WorksOrFails
<1>9. editors[e].ref \in Known(named')
  BY <1>1, <1>6, AiNumbers DEF EditorTypes
<1>10. EditorIsRight(ed, ch, named', sends')
  BY <1>1, <1>2, <1>3, <1>6, <1>7, <1>8, <1>9 DEF EditorIsRight, EditorTypes
<1>11. ChainIsRight(ch, named', sends')
  BY <1>1, <1>3, <1>6, <1>7, <1>8 DEF ChainIsRight, ChainTypes
<1>12. /\ ed.ref = editors[e].ref /\ ed.name = s /\ ch.step = how /\ ch.as = s
       /\ ed.messages = ch.copy /\ ed.content = c /\ ch.content = d
       /\ editors' = [editors EXCEPT ![e] = ed] /\ chains' = [chains EXCEPT ![e] = ch]
       /\ c = d \/ (c = editors[e].content /\ d = chains[e].content)
  BY <1>7
<1>. HIDE DEF ed, ch
<1>13. sends' \in Nat /\ sends <= sends'
  BY <1>1, <1>8
<1>14. /\ TalkIsRight'
       /\ editors'[e] = ed /\ chains'[e] = ch
       /\ \A x \in Editors : x # e => editors'[x] = editors[x] /\ chains'[x] = chains[x]
  <2>1. /\ EditorsAreRight(editors', chains', named', sends')
        /\ HistoriesAreRight(histories, named', sends') /\ LoadsAreRight(loads, named', sends')
        /\ deleting \in [Editors -> Known(named')]
        /\ editors'[e] = ed /\ chains'[e] = ch
        /\ \A x \in Editors : x # e => editors'[x] = editors[x] /\ chains'[x] = chains[x]
    BY <1>6, <1>10, <1>11, <1>12, <1>13, EditorAndSend
  <2>. QED BY <2>1, <1>2 DEF TalkIsRight
<1>15. CountsAreRight'
  <2>1. turns \in 0..MaxTurns
    BY SessionGives DEF CountsAreRight
  <2>. QED BY <2>1, <1>2, <1>6, <1>7, <1>8, <1>12, CountsKeep
<1>16. WizardIsRight'
  <2>1. WizardIsRight /\ wizard' = wizard
    BY <1>2, SessionGives
  <2>2. Wizards(named) \subseteq Wizards(named')
    BY <1>1, <1>6, AiNumbers DEF Wizards
  <2>3. wizard.shown # 0 => wizard.shown \in Editors
    BY SessionGives
  <2>. QED BY <2>1, <2>2, <2>3, <1>12, <1>14 DEF WizardIsRight
<1>17. ASSUME unhurried PROVE wizard.shown = e /\ AtWork'
  <2>1. wizard.shown = e /\ AtWork /\ loads = {}
    <3>1. ~AtRestIn(e) /\ e # 0
      BY <1>2 DEF AtRestIn, Editors
    <3>. QED BY <3>1, <1>2, <1>17, OnlyAtWork
  <2>. DEFINE h == histories
              url == wizard.url
  <2>2. /\ Addressed(editors[e], chains[e], {}, h, url, aiErrors)
        /\ NamesAreRight(editors[e], chains[e], {}, deleting[e], h, aiErrors)
        /\ Exclusive(chains[e], {}, deleting[e]) /\ ChainIsShown(editors[e], chains[e], {}, h)
    BY <2>1 DEF AtWork, AtEditor
  <2>3. /\ name = chains[e].as /\ name # NoSession /\ s = name
        /\ editors[e].content = chains[e].content /\ deleting[e] = NoSession
    BY <2>2, <1>1, <1>2 DEF ChainIsShown, ChainIsRight, Exclusive, s
  <2>4. aiErrors' = 0 => aiErrors = 0
    BY <1>1, <1>8
  <2>5. NamesAreRight(ed, ch, {}, NoSession, h, aiErrors')
    BY <2>2, <2>3, <2>4, <1>2, <1>12 DEF NamesAreRight, IsLost
  <2>6. Addressed(ed, ch, {}, h, url, aiErrors')
    <3>1. CASE how = "reply"
      BY <3>1, <2>2, <2>3, <1>2, <1>8, <1>12 DEF Addressed, Gone, IsLost
    <3>2. CASE how = "error"
      <4>1. aiErrors' = aiErrors + 1
        BY <3>2, <1>7 DEF AiFails
      <4>2. aiErrors' \in {0, 1} => aiErrors = 0
        BY <4>1, <1>1
      <4>. QED BY <4>2, <2>2, <2>3, <1>2, <1>12 DEF Addressed, Gone, IsLost
    <3>. QED BY <3>1, <3>2, <1>7
  <2>7. AtEditor(ed, ch, {}, NoSession, h, url, aiErrors')
    BY <2>3, <2>5, <2>6, <1>7, <1>12 DEF AtEditor, Exclusive, LoadsAreCurrent, ChainIsShown
  <2>. QED BY <2>1, <2>3, <2>7, <1>2, <1>14 DEF AtWork, AtRestIn
<1>18. UnopenedAreIdle'
  BY <1>2, <1>12, UnopenedKeep
<1>. QED BY <1>2, <1>8, <1>14, <1>15, <1>16, <1>17, <1>18 DEF SessionInv, Editors

(* A save that ends, well or not: the send goes on, or ends with it.         *)
LEMMA AdvancedIs ==
  ASSUME SessionInv, NEW e \in Editors, chains[e].step \in {"prompt", "reply", "error"},
         Advanced(e)
  PROVE  \E ch : /\ chains' = [chains EXCEPT ![e] = ch] /\ chains'[e] = ch
                 /\ ChainIsRight(ch, named, sends) /\ ch.step = NextStep(e)
                 /\ ch.step = (IF chains[e].step = "prompt" THEN "generate" ELSE "idle")
                 /\ ch.step # "idle" => /\ ch.as = chains[e].as /\ ch.copy = chains[e].copy
                                        /\ ch.content = chains[e].content
<1>1. /\ chains = [x \in Editors |-> chains[x]] /\ chains[e] \in ChainTypes(named)
      /\ ChainIsRight(chains[e], named, sends) /\ named \in Nat /\ sends \in Nat
  BY SessionGives
<1>2. CASE chains[e].step = "prompt"
  <2>. DEFINE old == chains[e]
              ch == [old EXCEPT !.step = "generate"]
  <2>1. chains' = [chains EXCEPT ![e] = ch] /\ NextStep(e) = "generate"
    BY <1>2 DEF Advanced, NextStep
  <2>2. /\ ch \in ChainTypes(named) /\ ch.step = "generate" /\ ch.as = old.as
        /\ ch.copy = old.copy /\ ch.content = old.content
    BY <1>1 DEF ChainTypes
  <2>. HIDE DEF ch
  <2>3. ChainIsRight(ch, named, sends)
    BY <1>1, <1>2, <2>2 DEF ChainIsRight
  <2>4. chains'[e] = ch
    BY <1>1, <2>1
  <2>. QED BY <1>2, <2>1, <2>2, <2>3, <2>4
<1>3. CASE chains[e].step # "prompt"
  <2>1. chains' = [chains EXCEPT ![e] = NoChain] /\ NextStep(e) = "idle"
    BY <1>3 DEF Advanced, NextStep
  <2>2. NoChain \in ChainTypes(named) /\ NoChain.step = "idle" /\ NoChain.content = 0
    BY <1>1, AiNumbers, NothingIsWhole DEF NoChain, ChainTypes
  <2>3. ChainIsRight(NoChain, named, sends)
    BY <1>1, <2>2 DEF ChainIsRight
  <2>4. chains'[e] = NoChain
    BY <1>1, <2>1
  <2>. QED BY <1>3, <2>1, <2>2, <2>3, <2>4
<1>. QED BY <1>2, <1>3

(* What the server stores.                                                   *)
LEMMA WritesIs ==
  ASSUME SessionInv, NEW e \in Editors, chains[e].step # "idle", Writes(e)
  PROVE  /\ chains[e].as \in Names /\ ~InTrash(chains[e].as)
         /\ HistoriesAreRight(histories', named, sends)
         /\ histories'[chains[e].as].state = "kept"
         /\ histories'[chains[e].as].messages = chains[e].copy
         /\ histories'[chains[e].as].content = chains[e].content
         /\ \A x \in Names : x # chains[e].as => histories'[x] = histories[x]
<1>. DEFINE s == chains[e].as
            h == [state |-> "kept", messages |-> chains[e].copy, content |-> chains[e].content]
<1>1. /\ chains[e] \in ChainTypes(named) /\ ChainIsRight(chains[e], named, sends)
      /\ named \in Nat /\ sends \in Nat /\ 1..named \subseteq Names
      /\ HistoriesAreRight(histories, named, sends)
      /\ histories = [x \in Names |-> histories[x]]
  BY SessionGives
<1>2. s \in 1..named /\ s \in Names /\ s <= named
  BY <1>1 DEF ChainIsRight, ChainTypes, Known
<1>3. ~InTrash(s) /\ histories' = [histories EXCEPT ![s] = h]
  BY DEF Writes
<1>4. HistoryIsRight(h, sends)
  BY <1>1 DEF ChainIsRight, ChainTypes, HistoryIsRight, HistoryTypes
<1>5. h.state = "kept" /\ h.messages = chains[e].copy /\ h.content = chains[e].content
  OBVIOUS
<1>. HIDE DEF h, s
<1>6. HistoriesAreRight([histories EXCEPT ![s] = h], named, sends)
  BY <1>1, <1>2, <1>4, HistoryChanges
<1>7. histories'[s] = h /\ \A x \in Names : x # s => histories'[x] = histories[x]
  BY <1>1, <1>2, <1>3
<1>. QED BY <1>2, <1>3, <1>5, <1>6, <1>7 DEF s

(* A save fails.                                                             *)
LEMMA SaveFailsKeeps ==
  ASSUME SessionInv, NEW e \in Editors, SaveFails(e)
  PROVE  SessionInv'
<1>1. /\ named \in Nat /\ sends \in Nat /\ aiErrors \in Nat /\ 1..named \subseteq Names
      /\ editors = [x \in Editors |-> editors[x]] /\ chains = [x \in Editors |-> chains[x]]
      /\ editors[e] \in EditorTypes(named) /\ chains[e] \in ChainTypes(named)
      /\ EditorIsRight(editors[e], chains[e], named, sends)
      /\ ChainIsRight(chains[e], named, sends) /\ wizard \in Wizards(named)
  BY SessionGives
<1>2. /\ chains[e].step \in {"prompt", "reply", "error"} /\ Advanced(e)
      /\ UNCHANGED <<wizard, loads, deleting, named>>
  BY DEF SaveFails
<1>3. PICK ch : /\ chains' = [chains EXCEPT ![e] = ch] /\ chains'[e] = ch
                /\ ChainIsRight(ch, named, sends) /\ ch.step = NextStep(e)
                /\ ch.step = (IF chains[e].step = "prompt" THEN "generate" ELSE "idle")
                /\ ch.step # "idle" => /\ ch.as = chains[e].as /\ ch.copy = chains[e].copy
                                       /\ ch.content = chains[e].content
  BY <1>2, AdvancedIs
<1>. DEFINE ed == editors'[e]
<1>4. /\ ed \in EditorTypes(named) /\ ed.isLoading = (ch.step # "idle") /\ ed.kept = FALSE
      /\ ed.messages = editors[e].messages /\ ed.content = editors[e].content
      /\ ed.name = editors[e].name /\ ed.ref = editors[e].ref
      /\ editors' = [editors EXCEPT ![e] = ed]
  <2>. DEFINE busy == NextStep(e) # "idle"
  <2>1. editors' = [editors EXCEPT ![e].isLoading = busy, ![e].kept = FALSE] /\ busy \in BOOLEAN
    BY DEF SaveFails
  <2>2. busy = (ch.step # "idle")
    BY <1>3
  <2>. HIDE DEF busy
  <2>. QED BY <1>1, <2>1, <2>2 DEF EditorTypes
<1>5. EditorIsRight(ed, ch, named, sends)
  BY <1>1, <1>4 DEF EditorIsRight
<1>. HIDE DEF ed
<1>6. /\ UNCHANGED <<sends, turns, unhurried>>
      /\ aiErrors' \in 0..MaxAiErrors /\ aiErrors' \in Nat
      /\ aiErrors' \in {aiErrors, aiErrors + 1}
  BY WorksOrFails DEF SaveFails
<1>7. /\ EditorsAreRight(editors', chains', named', sends')
      /\ LoadsAreRight(loads, named', sends') /\ deleting \in [Editors -> Known(named')]
      /\ \A x \in Editors : x # e => editors'[x] = editors[x] /\ chains'[x] = chains[x]
  <2>1. /\ named' \in Nat /\ named <= named' /\ sends' \in Nat /\ sends <= sends'
        /\ EditorIsRight(ed, ch, named', sends') /\ ChainIsRight(ch, named', sends')
    BY <1>1, <1>2, <1>3, <1>5, <1>6
  <2>. QED BY <2>1, <1>3, <1>4, EditorAndSend
<1>8. /\ HistoriesAreRight(histories', named, sends)
      /\ \A x \in Names : InTrash(x) => histories'[x] = histories[x]
      /\ ~InTrash(chains[e].as) =>
           histories'[chains[e].as].state \notin {"trashed", "lost"} /\ AiFails
      /\ InTrash(chains[e].as) => UNCHANGED histories
  <2>1. CASE Writes(e) /\ AiFails
    <3>1. /\ ~InTrash(chains[e].as) /\ HistoriesAreRight(histories', named, sends)
          /\ histories'[chains[e].as].state = "kept"
          /\ \A x \in Names : x # chains[e].as => histories'[x] = histories[x]
      BY <2>1, <1>2, WritesIs
    <3>. QED BY <3>1, <2>1, <1>2
  <2>2. CASE UNCHANGED histories
    BY <2>2, <1>2, SessionGives DEF SaveFails, Writes, InTrash
  <2>. QED BY <2>1, <2>2 DEF SaveFails
<1>9. TalkIsRight'
  BY <1>2, <1>6, <1>7, <1>8 DEF TalkIsRight
<1>10. CountsAreRight'
  <2>1. turns' \in 0..MaxTurns
    BY <1>6, SessionGives DEF CountsAreRight
  <2>. QED BY <2>1, <1>2, <1>3, <1>6, CountsKeep
<1>11. WizardIsRight'
  BY <1>2, <1>4, <1>7, SessionGives DEF WizardIsRight
<1>12. ASSUME unhurried PROVE wizard.shown = e /\ AtWork'
  <2>1. wizard.shown = e /\ AtWork
    <3>1. ~AtRestIn(e) /\ e # 0
      BY <1>2 DEF AtRestIn, Editors
    <3>. QED BY <3>1, <1>12, OnlyAtWork
  <2>. DEFINE h == histories
              k == histories'
              url == wizard.url
  <2>2. /\ Addressed(editors[e], chains[e], loads, h, url, aiErrors)
        /\ NamesAreRight(editors[e], chains[e], loads, deleting[e], h, aiErrors)
        /\ Exclusive(chains[e], loads, deleting[e]) /\ ChainIsShown(editors[e], chains[e], loads, h)
    BY <2>1 DEF AtWork, AtEditor
  <2>3. /\ editors[e].name = chains[e].as /\ editors[e].name # NoSession
        /\ editors[e].messages = chains[e].copy /\ editors[e].content = chains[e].content
        /\ deleting[e] = NoSession /\ loads = {}
    BY <2>2, <1>1, <1>2 DEF ChainIsShown, ChainIsRight, Exclusive
  <2>4. k[editors[e].name].state # "trashed" /\ (aiErrors' = aiErrors + 1 \/ IsLost(editors[e], h))
    <3>1. CASE InTrash(chains[e].as)
      BY <3>1, <2>2, <2>3, <1>8 DEF NamesAreRight, InTrash, IsLost
    <3>2. CASE ~InTrash(chains[e].as)
      BY <3>2, <2>3, <1>8 DEF AiFails
    <3>. QED BY <3>1, <3>2
  <2>5. /\ aiErrors' # 0
        /\ aiErrors' = 1 => aiErrors = 0 \/ (aiErrors = 1 /\ IsLost(editors[e], h))
    BY <2>2, <2>4, <1>1, <1>6 DEF NamesAreRight
  <2>6. NamesAreRight(ed, ch, {}, NoSession, k, aiErrors')
    BY <2>3, <2>4, <2>5, <1>4 DEF NamesAreRight
  <2>7. Gone(url, h) => Gone(url, k)
    <3>1. url \in Names \cup {NoSession}
      BY <1>1 DEF Wizards, Known
    <3>. QED BY <3>1, <1>8 DEF Gone, InTrash
  <2>8. Addressed(ed, ch, {}, k, url, aiErrors')
    BY <2>2, <2>3, <2>5, <2>7, <1>4 DEF Addressed
  <2>9. AtEditor(ed, ch, {}, NoSession, k, url, aiErrors')
    BY <2>3, <2>6, <2>8, <1>3, <1>4 DEF AtEditor, Exclusive, LoadsAreCurrent, ChainIsShown
  <2>. QED BY <2>1, <2>3, <2>9, <1>2, <1>3, <1>7 DEF AtWork, AtRestIn, ed
<1>13. UnopenedAreIdle'
  BY <1>2, <1>3, UnopenedKeep
<1>. QED BY <1>2, <1>6, <1>9, <1>10, <1>11, <1>12, <1>13 DEF SessionInv, Editors

(* A save succeeds: the wizard takes the session, and may load it.           *)
LEMMA SaveSucceedsKeeps ==
  ASSUME SessionInv, NEW e \in Editors, SaveSucceeds(e)
  PROVE  SessionInv'
<1>. DEFINE as == chains[e].as
            w == wizard.shown
            session == SessionAfter(e)
            busy == NextStep(e) # "idle"
            own == [editors EXCEPT ![e].isLoading = busy, ![e].kept = TRUE,
                                   ![e].ref = IF @ = NoSession THEN as ELSE @]
            ed == own[e]
<1>1. /\ named \in Nat /\ sends \in Nat /\ aiErrors \in Nat /\ 1..named \subseteq Names
      /\ editors = [x \in Editors |-> editors[x]] /\ chains = [x \in Editors |-> chains[x]]
      /\ editors[e] \in EditorTypes(named) /\ chains[e] \in ChainTypes(named)
      /\ EditorIsRight(editors[e], chains[e], named, sends)
      /\ ChainIsRight(chains[e], named, sends) /\ wizard \in Wizards(named)
      /\ EditorsAreRight(editors, chains, named, sends) /\ LoadsAreRight(loads, named, sends)
      /\ deleting \in [Editors -> Known(named)] /\ WizardIsRight
      /\ w \in 0..MaxEditors /\ (w # 0 => w \in Editors)
  BY SessionGives
<1>2. /\ chains[e].step \in {"prompt", "reply", "error"} /\ Advanced(e) /\ Writes(e)
      /\ UNCHANGED <<deleting, named>> /\ AiWorks
      /\ wizard' = Navigated(e, session) /\ editors' = Followed(own, session)
      /\ loads' = LoadsOn(session)
  BY DEF SaveSucceeds
<1>3. PICK ch : /\ chains' = [chains EXCEPT ![e] = ch] /\ chains'[e] = ch
                /\ ChainIsRight(ch, named, sends) /\ ch.step = NextStep(e)
                /\ ch.step = (IF chains[e].step = "prompt" THEN "generate" ELSE "idle")
                /\ ch.step # "idle" => /\ ch.as = chains[e].as /\ ch.copy = chains[e].copy
                                       /\ ch.content = chains[e].content
  BY <1>2, AdvancedIs
<1>4. as \in 1..named /\ as \in Known(named) /\ as # NoSession
  BY <1>1, <1>2, AiNumbers DEF ChainIsRight, ChainTypes, Known
<1>5. /\ session \in Known(named) /\ (session # NoSession => session \in 1..named)
      /\ session = (IF editors[e].ref = NoSession THEN as ELSE wizard.session)
  BY <1>1, <1>4 DEF SessionAfter, Wizards, Known
<1>6. /\ ed \in EditorTypes(named) /\ ed.isLoading = (ch.step # "idle") /\ ed.kept = TRUE
      /\ ed.messages = editors[e].messages /\ ed.content = editors[e].content
      /\ ed.name = editors[e].name
      /\ ed.ref = (IF editors[e].ref = NoSession THEN as ELSE editors[e].ref)
      /\ own = [editors EXCEPT ![e] = ed]
      /\ \A x \in Editors : x # e => own[x] = editors[x]
  <2>1. busy \in BOOLEAN /\ busy = (ch.step # "idle")
    BY <1>3
  <2>. HIDE DEF busy, as
  <2>. QED BY <1>1, <1>4, <2>1 DEF EditorTypes
<1>7. EditorIsRight(ed, ch, named, sends)
  BY <1>1, <1>6 DEF EditorIsRight
<1>. HIDE DEF ed, own, session, as, w, busy
<1>8. /\ UNCHANGED <<sends, turns, unhurried>>
      /\ aiErrors' = aiErrors /\ aiErrors' \in 0..MaxAiErrors
  BY <1>2, WorksOrFails
<1>9. /\ EditorsAreRight(own, chains', named, sends)
  <2>1. named <= named /\ sends <= sends
    BY <1>1
  <2>2. EditorsAreRight([editors EXCEPT ![e] = ed], [chains EXCEPT ![e] = ch], named, sends)
    BY <2>1, <1>1, <1>3, <1>7, EditorChanges
  <2>. QED BY <2>2, <1>3, <1>6
<1>10. /\ EditorsAreRight(editors', chains', named, sends)
       /\ \A x \in Editors : x # w => editors'[x] = own[x]
  <2>. DEFINE chs == chains'
              eds == Followed(own, session)
  <2>1. /\ EditorsAreRight(own, chs, named, sends) /\ wizard.shown \in 0..MaxEditors
        /\ session \in Known(named) /\ named \in Nat /\ sends \in Nat
    BY <1>1, <1>5, <1>9 DEF w
  <2>. HIDE DEF chs
  <2>2. /\ EditorsAreRight(eds, chs, named, sends)
        /\ \A x \in Editors : x # wizard.shown => eds[x] = own[x]
    BY <2>1, FollowedIsRight
  <2>. QED BY <2>2, <1>2 DEF chs, w
<1>11. LoadsAreRight(loads', named, sends)
  <2>1. CASE Moved(session) /\ session # NoSession
    <3>1. w \in Editors /\ w = wizard.shown
      BY <2>1, <1>1 DEF Moved, w
    <3>2. loads' = loads \cup {Load(w, session)}
      BY <2>1, <1>2 DEF LoadsOn, w
    <3>3. <<>> \in Seq(HistoryTypes)
      OBVIOUS
    <3>4. LoadIsRight(Load(w, session), named, sends)
      BY <2>1, <3>1, <3>3, <1>5 DEF LoadIsRight, Load
    <3>. QED BY <3>2, <3>4, <1>1 DEF LoadsAreRight
  <2>2. CASE ~(Moved(session) /\ session # NoSession)
    BY <2>2, <1>1, <1>2 DEF LoadsOn
  <2>. QED BY <2>1, <2>2
<1>12. /\ HistoriesAreRight(histories', named, sends)
       /\ as \in Names /\ ~InTrash(as)
       /\ histories'[as].state = "kept" /\ histories'[as].messages = chains[e].copy
       /\ histories'[as].content = chains[e].content
       /\ \A x \in Names : x # as => histories'[x] = histories[x]
  BY <1>2, WritesIs DEF as
<1>13. TalkIsRight'
  BY <1>1, <1>2, <1>8, <1>10, <1>11, <1>12 DEF TalkIsRight
<1>14. CountsAreRight'
  <2>1. turns' \in 0..MaxTurns
    BY <1>8, SessionGives DEF CountsAreRight
  <2>. QED BY <2>1, <1>2, <1>3, <1>8, CountsKeep
<1>15. w # 0 => editors'[w].ref = session
  <2>. SUFFICES ASSUME w # 0 PROVE editors'[w].ref = session
    OBVIOUS
  <2>1. w \in Editors /\ editors[w].ref = wizard.session
    BY <1>1 DEF WizardIsRight, w
  <2>2. CASE Moved(session)
    <3>1. editors' = [own EXCEPT ![w].ref = session]
      BY <2>2, <1>2 DEF Followed, w
    <3>2. own[w] \in EditorTypes(named) /\ own = [x \in Editors |-> own[x]]
      BY <2>1, <1>9 DEF EditorsAreRight, EditorIsRight
    <3>. QED BY <2>1, <3>1, <3>2 DEF EditorTypes
  <2>3. CASE ~Moved(session)
    <3>1. editors' = own /\ session = wizard.session
      BY <2>3, <1>2 DEF Followed, Moved, w
    <3>2. CASE w = e
      <4>1. /\ own[w] = ed
            /\ ed.ref = (IF editors[w].ref = NoSession THEN as ELSE editors[w].ref)
            /\ session = (IF editors[w].ref = NoSession THEN as ELSE wizard.session)
        BY <3>2, <1>5, <1>6 DEF ed
      <4>2. editors'[w].ref = ed.ref
        BY <3>1, <4>1
      <4>. QED BY <2>1, <4>1, <4>2
    <3>3. CASE w # e
      BY <2>1, <3>1, <3>3, <1>6
    <3>. QED BY <3>2, <3>3
  <2>. QED BY <2>2, <2>3
<1>16. /\ wizard' \in Wizards(named) /\ wizard'.session = session
       /\ \/ /\ wizard'.shown = w /\ wizard'.mode = wizard.mode
             /\ \/ wizard'.url = wizard.url
                     /\ (chains[e].step = "reply" => editors[e].name \in {wizard.url, NoSession})
                \/ chains[e].step = "reply" /\ editors[e].name # NoSession
                     /\ wizard'.url = editors[e].name
          \/ /\ wizard'.shown = 0 /\ wizard'.mode = "searching" /\ session = NoSession
             /\ wizard'.url = editors[e].name /\ editors[e].name # NoSession
       /\ wizard'.opened = wizard.opened
  <2>1. editors[e].name \in Known(named) /\ 0 \in 0..MaxEditors
    BY <1>1, AiNumbers DEF EditorTypes
  <2>2. CASE chains[e].step # "reply" \/ editors[e].name \in {wizard.url, NoSession}
    <3>1. wizard' = [wizard EXCEPT !.session = session]
      BY <2>2, <1>2 DEF Navigated
    <3>. QED BY <2>1, <2>2, <3>1, <1>1, <1>5 DEF Wizards, w
  <2>3. CASE /\ ~(chains[e].step # "reply" \/ editors[e].name \in {wizard.url, NoSession})
             /\ session # NoSession
    <3>1. wizard' = [wizard EXCEPT !.session = session, !.url = editors[e].name]
      BY <2>3, <1>2 DEF Navigated
    <3>. QED BY <2>1, <2>3, <3>1, <1>1, <1>5 DEF Wizards, w
  <2>4. CASE /\ ~(chains[e].step # "reply" \/ editors[e].name \in {wizard.url, NoSession})
             /\ session = NoSession
    <3>1. wizard' = [wizard EXCEPT !.url = editors[e].name, !.mode = "searching", !.shown = 0]
      BY <2>4, <1>2 DEF Navigated
    <3>2. wizard.session = NoSession
      BY <2>4, <1>4, <1>5
    <3>. QED BY <2>1, <2>4, <3>1, <3>2, <1>1, <1>5 DEF Wizards, w
  <2>. QED BY <2>2, <2>3, <2>4
<1>17. WizardIsRight'
  <2>1. /\ (wizard.mode = "editor") = (w # 0) /\ (w # 0 => w = wizard.opened)
        /\ wizard.mode = "searching" => wizard.url # NoSession
    BY <1>1 DEF WizardIsRight, w
  <2>2. (wizard'.mode = "editor") = (wizard'.shown # 0)
    BY <2>1, <1>16
  <2>3. wizard'.shown # 0 =>
          wizard'.shown = wizard'.opened /\ editors'[wizard'.shown].ref = wizard'.session
    BY <2>1, <1>15, <1>16
  <2>4. wizard'.mode = "searching" => wizard'.url # NoSession
    BY <2>1, <1>16
  <2>. QED BY <2>2, <2>3, <2>4, <1>2, <1>16 DEF WizardIsRight
<1>18. ASSUME unhurried PROVE wizard'.shown # 0 /\ AtWork'
  <2>1. w = e /\ AtWork /\ e # 0
    <3>1. ~AtRestIn(e) /\ e # 0
      BY <1>2 DEF AtRestIn, Editors
    <3>. QED BY <3>1, <1>18, OnlyAtWork DEF w
  <2>. DEFINE h == histories
              k == histories'
              url == wizard.url
              now == editors'[e]
              u == wizard'.url
              ld == loads'
  <2>2. /\ Addressed(editors[e], chains[e], loads, h, url, aiErrors)
        /\ NamesAreRight(editors[e], chains[e], loads, deleting[e], h, aiErrors)
        /\ Exclusive(chains[e], loads, deleting[e]) /\ ChainIsShown(editors[e], chains[e], loads, h)
    BY <2>1 DEF AtWork, AtEditor, w
  <2>3. /\ editors[e].name = as /\ loads = {} /\ deleting[e] = NoSession
        /\ editors[e].messages = chains[e].copy /\ editors[e].content = chains[e].content
    BY <2>2, <1>1, <1>2 DEF ChainIsShown, ChainIsRight, Exclusive, as
  <2>4. session # NoSession
    BY <2>1, <1>1, <1>4, <1>5 DEF WizardIsRight, w
  <2>5. /\ wizard'.shown = e
        /\ \/ u = url /\ (chains[e].step = "reply" => url = as)
           \/ u = as
    BY <2>1, <2>3, <2>4, <1>4, <1>16
  <2>6. /\ now.messages = chains[e].copy /\ now.content = chains[e].content /\ now.name = as
        /\ now.kept = TRUE
        /\ now.ref = session
        /\ session = (IF editors[e].ref = NoSession THEN as ELSE editors[e].ref)
    <3>1. own[e] \in EditorTypes(named) /\ own = [x \in Editors |-> own[x]]
      BY <1>9 DEF EditorsAreRight, EditorIsRight
    <3>2. session = (IF editors[e].ref = NoSession THEN as ELSE editors[e].ref)
      BY <2>1, <1>1, <1>5 DEF WizardIsRight, w
    <3>3. editors' = own \/ editors' = [own EXCEPT ![e].ref = session]
      BY <2>1, <1>2 DEF Followed, w
    <3>4. /\ now.messages = own[e].messages /\ now.content = own[e].content
          /\ now.name = own[e].name /\ now.kept = own[e].kept
      BY <3>1, <3>3 DEF EditorTypes
    <3>. QED BY <2>1, <2>3, <3>2, <3>4, <1>6, <1>15 DEF ed
  <2>7. ld \in {{}, {Load(e, as)}} /\ (ld # {} => session = as)
    <3>1. CASE editors[e].ref = NoSession
      BY <3>1, <2>1, <2>3, <1>2, <1>5 DEF LoadsOn, w
    <3>2. CASE editors[e].ref # NoSession
      <4>1. ~Moved(session)
        BY <3>2, <2>1, <1>1, <1>5 DEF Moved, WizardIsRight, w
      <4>. QED BY <4>1, <2>3, <1>2 DEF LoadsOn
    <3>. QED BY <3>1, <3>2
  <2>. HIDE DEF now, u, ld
  <2>8. \A l \in ld : l.at = e /\ l.of = as /\ l.got = <<>> /\ session = as
    <3>. SUFFICES ASSUME NEW l \in ld
                  PROVE  l.at = e /\ l.of = as /\ l.got = <<>> /\ session = as
      OBVIOUS
    <3>1. l = Load(e, as) /\ session = as
      BY <2>7
    <3>. QED BY <3>1 DEF Load
  <2>9. LoadsAreCurrent(now, ch, ld, k, u)
    BY <2>6, <2>8, <1>12 DEF LoadsAreCurrent
  <2>10. Exclusive(ch, ld, NoSession)
    BY <1>3 DEF Exclusive
  <2>11. ChainIsShown(now, ch, ld, k)
    BY <2>6, <1>3, <1>12 DEF ChainIsShown, as
  <2>12. ch.step = "idle" /\ now.kept => IsStored(now, k)
    BY <2>6, <1>4, <1>12 DEF IsStored
  <2>13. NamesAreRight(now, ch, ld, NoSession, k, aiErrors) /\ ~IsLost(now, k)
    BY <2>2, <2>3, <2>6, <1>4, <1>12 DEF NamesAreRight, IsLost
  <2>14. Gone(url, h) => Gone(url, k)
    <3>1. url \in Names \cup {NoSession}
      BY <1>1 DEF Wizards, Known
    <3>. QED BY <3>1, <1>12 DEF Gone, InTrash
  <2>15. Addressed(now, ch, ld, k, u, aiErrors)
    <3>1. CASE u = as
      BY <3>1, <2>6 DEF Addressed
    <3>2. CASE u # as
      <4>1. u = url /\ chains[e].step \in {"prompt", "error"}
        BY <3>2, <2>5, <1>2
      <4>2. CASE chains[e].step = "prompt"
        BY <4>1, <4>2, <2>2, <2>3, <2>6, <2>13, <2>14, <1>3, <1>4 DEF Addressed
      <4>3. CASE chains[e].step = "error"
        BY <4>1, <4>3, <2>2, <2>3, <2>6, <2>13, <2>14, <1>3, <1>4 DEF Addressed
      <4>. QED BY <4>1, <4>2, <4>3
    <3>. QED BY <3>1, <3>2
  <2>16. AtEditor(now, ch, ld, NoSession, k, u, aiErrors)
    BY <2>9, <2>10, <2>11, <2>12, <2>13, <2>15 DEF AtEditor
  <2>17. \A x \in Editors : x # e => AtRestIn(x)'
    <3>1. \A x \in Editors : x # e => AtRestIn(x) /\ chains'[x] = chains[x]
      BY <2>1, <1>1, <1>3 DEF AtWork, w
    <3>. QED BY <3>1, <1>2 DEF AtRestIn
  <2>. QED BY <2>1, <2>3, <2>5, <2>8, <2>16, <2>17, <1>2, <1>3, <1>8 DEF AtWork, now, u, ld
<1>19. UnopenedAreIdle'
  BY <1>2, <1>3, <1>16, UnopenedKeep
<1>. QED BY <1>8, <1>13, <1>14, <1>17, <1>18, <1>19 DEF SessionInv

-----------------------------------------------------------------------------
(* Most steps leave the sends alone.                                         *)
LEMMA ChainsRest ==
  ASSUME SessionInv, UNCHANGED <<chains, named, sends, unhurried>>,
         turns' \in 0..MaxTurns, aiErrors' \in 0..MaxAiErrors
  PROVE  CountsAreRight' /\ (wizard'.opened = wizard.opened => UnopenedAreIdle')
BY SessionGives DEF SessionInv, CountsAreRight, UnopenedAreIdle, Asking

(* The user's turn: one who waits has nothing under way.                     *)
LEMMA TurnsIs ==
  ASSUME SessionInv, Turns
  PROVE  /\ UNCHANGED <<sends, aiErrors, unhurried>>
         /\ turns' \in 0..MaxTurns /\ aiErrors' \in 0..MaxAiErrors
         /\ unhurried => loads = {} /\ \A e \in Editors : AtRestIn(e)
<1>1. turns \in 0..MaxTurns /\ aiErrors \in 0..MaxAiErrors
  BY SessionGives DEF CountsAreRight
<1>2. unhurried => loads = {} /\ \A e \in Editors : AtRestIn(e)
  BY NothingPending DEF Turns, AtRestIn
<1>. QED BY <1>1, <1>2, AiNumbers DEF Turns

(* One editor changes, and its send does not.                                *)
LEMMA EditorAlone ==
  ASSUME SessionInv, NEW e \in Editors, NEW ed, EditorIsRight(ed, chains[e], named, sends)
  PROVE  EditorsAreRight([editors EXCEPT ![e] = ed], chains, named, sends)
<1>. DEFINE ch == chains[e]
<1>1. /\ named \in Nat /\ sends \in Nat /\ named <= named /\ sends <= sends
      /\ EditorsAreRight(editors, chains, named, sends) /\ ChainIsRight(ch, named, sends)
      /\ chains = [chains EXCEPT ![e] = ch] /\ EditorIsRight(ed, ch, named, sends)
  BY SessionGives
<1>. HIDE DEF ch
<1>2. EditorsAreRight([editors EXCEPT ![e] = ed], [chains EXCEPT ![e] = ch], named, sends)
  BY <1>1, EditorChanges
<1>. QED BY <1>1, <1>2

(* A load's item is read.                                                    *)
LEMMA LoadReadKeeps ==
  ASSUME SessionInv, NEW l, LoadRead(l)
  PROVE  SessionInv'
<1>. DEFINE h == histories[l.of]
            got == <<h>>
            new == [l EXCEPT !.got = got]
<1>1. /\ named \in Nat /\ sends \in Nat /\ 1..named \subseteq Names
      /\ HistoriesAreRight(histories, named, sends) /\ LoadsAreRight(loads, named, sends)
      /\ WizardIsRight /\ CountsAreRight /\ TalkIsRight
  BY SessionGives
<1>2. /\ l \in loads /\ l.got = <<>> /\ h.state = "kept" /\ loads' = (loads \ {l}) \cup {new}
      /\ AiWorks /\ UNCHANGED <<wizard, editors, chains, deleting, histories, named>>
  BY DEF LoadRead
<1>3. l \in [at : Editors, of : 1..named, got : Seq(HistoryTypes)] /\ l.of \in Names
  BY <1>1, <1>2 DEF LoadsAreRight, LoadIsRight
<1>4. HistoryIsRight(h, sends) /\ h \in HistoryTypes
  BY <1>1, <1>3 DEF HistoriesAreRight, HistoryIsRight
<1>5. got \in Seq(HistoryTypes) /\ got[1] = h /\ got # <<>>
  <2>. HIDE DEF h
  <2>. QED BY <1>4
<1>6. /\ new.at = l.at /\ new.of = l.of /\ new.got = got
      /\ new \in [at : Editors, of : 1..named, got : Seq(HistoryTypes)]
  <2>. HIDE DEF got
  <2>. QED BY <1>3, <1>5
<1>. HIDE DEF new, got, h
<1>7. LoadIsRight(new, named, sends)
  BY <1>4, <1>5, <1>6 DEF LoadIsRight
<1>8. /\ UNCHANGED <<sends, turns, unhurried>>
      /\ aiErrors' = aiErrors /\ aiErrors' \in 0..MaxAiErrors
  BY <1>2, WorksOrFails
<1>9. TalkIsRight'
  <2>1. LoadsAreRight(loads', named, sends)
    BY <1>1, <1>2, <1>7 DEF LoadsAreRight
  <2>. QED BY <2>1, <1>1, <1>2, <1>8 DEF TalkIsRight
<1>10. CountsAreRight' /\ UnopenedAreIdle'
  <2>1. turns' \in 0..MaxTurns
    BY <1>1, <1>8 DEF CountsAreRight
  <2>. QED BY <2>1, <1>2, <1>8, ChainsRest
<1>11. WizardIsRight'
  BY <1>1, <1>2 DEF WizardIsRight
<1>12. ASSUME unhurried PROVE wizard.shown # 0 /\ AtWork'
  <2>. DEFINE e == wizard.shown
              ed == editors[e]
              ch == chains[e]
              del == deleting[e]
              ld == loads'
  <2>1. e # 0 /\ AtWork
    BY <1>2, <1>12, OnlyAtWork
  <2>2. /\ Exclusive(ch, loads, del) /\ LoadsAreCurrent(ed, ch, loads, histories, wizard.url)
        /\ ChainIsShown(ed, ch, loads, histories)
        /\ ch.step = "idle" /\ ed.kept => IsStored(ed, histories)
    BY <2>1 DEF AtWork, AtEditor
  <2>3. /\ NamesAreRight(ed, ch, loads, del, histories, aiErrors)
        /\ Addressed(ed, ch, loads, histories, wizard.url, aiErrors)
    BY <2>1 DEF AtWork, AtEditor
  <2>. HIDE DEF ed, ch, del, e
  <2>4. Exclusive(ch, ld, del)
    BY <2>2, <1>2 DEF Exclusive
  <2>5. LoadsAreCurrent(ed, ch, ld, histories, wizard.url)
    BY <2>2, <1>2, <1>5, <1>6 DEF LoadsAreCurrent, h
  <2>6. ChainIsShown(ed, ch, ld, histories)
    BY <2>2, <1>2 DEF ChainIsShown
  <2>7. NamesAreRight(ed, ch, ld, del, histories, aiErrors)
    BY <2>3, <1>2 DEF NamesAreRight
  <2>8. Addressed(ed, ch, ld, histories, wizard.url, aiErrors)
    BY <2>3, <1>2, <1>6 DEF Addressed, IsLost
  <2>9. \A k \in ld : k.at = e
    BY <2>1, <1>2, <1>6 DEF AtWork, e
  <2>. HIDE DEF ld
  <2>10. AtEditor(ed, ch, ld, del, histories, wizard.url, aiErrors)
    BY <2>2, <2>4, <2>5, <2>6, <2>7, <2>8 DEF AtEditor
  <2>. QED BY <2>1, <2>9, <2>10, <1>2, <1>8 DEF AtWork, AtRestIn, ld, ed, ch, del, e
<1>. QED BY <1>2, <1>8, <1>9, <1>10, <1>11, <1>12 DEF SessionInv

(* What a user who waits has in the editor while a load is under way.        *)
LEMMA LoadIsOfShown ==
  ASSUME SessionInv, unhurried, NEW l \in loads
  PROVE  LET e == wizard.shown
         IN /\ e # 0 /\ l.at = e /\ AtWork /\ deleting[e] = NoSession
            /\ e \in Editors /\ l.of \in 1..named
            /\ chains[e].step \in {"idle", "generate"}
            /\ l.of = editors[e].ref /\ histories[l.of].state = "kept"
            /\ l.got # <<>> => l.got[1] = histories[l.of]
            /\ \/ l.of = editors[e].name
               \/ /\ editors[e].name = NoSession /\ l.of = wizard.url
                  /\ chains[e].step = "idle"
<1>. DEFINE e == wizard.shown
<1>1. e # 0 /\ AtWork /\ e \in Editors /\ chains[e] \in ChainTypes(named) /\ l.of \in 1..named
  BY SessionGives, OnlyAtWork
<1>2. /\ Exclusive(chains[e], loads, deleting[e])
      /\ LoadsAreCurrent(editors[e], chains[e], loads, histories, wizard.url) /\ l.at = e
  BY <1>1 DEF AtWork, AtEditor
<1>. HIDE DEF e
<1>3. deleting[e] = NoSession /\ chains[e].step \in {"idle", "generate"}
  BY <1>1, <1>2 DEF Exclusive, ChainTypes
<1>. QED BY <1>1, <1>2, <1>3 DEF LoadsAreCurrent, e

(* A load's item arrives.                                                    *)
LEMMA LoadArrivesKeeps ==
  ASSUME SessionInv, NEW l, LoadArrives(l)
  PROVE  SessionInv'
<1>. DEFINE e == l.at
            h == l.got[1]
            ed == [messages |-> h.messages, content |-> h.content,
                   isLoading |-> editors[e].isLoading, name |-> l.of, ref |-> editors[e].ref,
                   kept |-> TRUE]
<1>1. /\ named \in Nat /\ sends \in Nat /\ 1..named \subseteq Names
      /\ LoadsAreRight(loads, named, sends)
      /\ WizardIsRight /\ CountsAreRight /\ TalkIsRight
      /\ editors = [x \in Editors |-> editors[x]]
  BY SessionGives
<1>2. /\ l \in loads /\ l.got # <<>> /\ loads' = loads \ {l}
      /\ AiWorks /\ UNCHANGED <<wizard, chains, deleting, histories, named>>
  BY DEF LoadArrives
<1>3. e \in Editors /\ l.of \in 1..named /\ HistoryIsRight(h, sends)
  BY <1>1, <1>2 DEF LoadsAreRight, LoadIsRight
<1>4. editors[e] \in EditorTypes(named) /\ EditorIsRight(editors[e], chains[e], named, sends)
  BY <1>3, SessionGives
<1>5. editors' = [editors EXCEPT ![e] = ed]
  <2>. DEFINE yes == TRUE
              m == h.messages
              c == h.content
              n == l.of
              old == editors[e]
  <2>1. editors' = [editors EXCEPT ![e].name = n, ![e].messages = m, ![e].content = c,
                                   ![e].kept = yes]
    BY DEF LoadArrives
  <2>. HIDE DEF yes, m, c, n, e
  <2>2. editors' = [editors EXCEPT ![e] = [old EXCEPT !.name = n, !.messages = m, !.content = c,
                                                      !.kept = yes]]
    BY <2>1, <1>1, <1>3
  <2>3. [old EXCEPT !.name = n, !.messages = m, !.content = c, !.kept = yes]
        = [messages |-> m, content |-> c, isLoading |-> old.isLoading, name |-> n,
           ref |-> old.ref, kept |-> yes]
    <3>. DEFINE was == old.messages
                d == old.content
                busy == old.isLoading
                name == old.name
                r == old.ref
                k == old.kept
    <3>1. old = [messages |-> was, content |-> d, isLoading |-> busy, name |-> name, ref |-> r,
                 kept |-> k]
      BY <1>4 DEF EditorTypes
    <3>. HIDE DEF old, was, d, busy, name, r, k
    <3>. DEFINE one == [old EXCEPT !.name = n]
                two == [one EXCEPT !.messages = m]
                three == [two EXCEPT !.content = c]
    <3>2. [old EXCEPT !.name = n, !.messages = m, !.content = c, !.kept = yes]
          = [three EXCEPT !.kept = yes]
      BY <3>1
    <3>3. one = [messages |-> was, content |-> d, isLoading |-> busy, name |-> n, ref |-> r,
                 kept |-> k]
      BY <3>1
    <3>. HIDE DEF one
    <3>4. two = [messages |-> m, content |-> d, isLoading |-> busy, name |-> n, ref |-> r,
                 kept |-> k]
      BY <3>3
    <3>. HIDE DEF two
    <3>5. three = [messages |-> m, content |-> c, isLoading |-> busy, name |-> n, ref |-> r,
                   kept |-> k]
      BY <3>4
    <3>. HIDE DEF three
    <3>6. [three EXCEPT !.kept = yes] = [messages |-> m, content |-> c, isLoading |-> busy,
                                         name |-> n, ref |-> r, kept |-> yes]
      BY <3>5
    <3>. QED BY <3>2, <3>6 DEF busy, r
  <2>. QED BY <2>2, <2>3 DEF yes, m, c, n
<1>6. /\ ed.ref = editors[e].ref /\ ed.name = l.of /\ ed.messages = h.messages
      /\ ed.content = h.content /\ EditorIsRight(ed, chains[e], named, sends)
  <2>1. /\ h.messages \in Seq(Message) /\ h.content \in Nat /\ Whole(h.messages, sends)
        /\ h.content <= sends
    BY <1>3 DEF HistoryIsRight, HistoryTypes
  <2>2. l.of \in Known(named)
    BY <1>3 DEF Known
  <2>. HIDE DEF h
  <2>. QED BY <2>1, <2>2, <1>4 DEF EditorIsRight, EditorTypes
<1>. HIDE DEF ed, e, h
<1>7. /\ UNCHANGED <<sends, turns, unhurried>>
      /\ aiErrors' = aiErrors /\ aiErrors' \in 0..MaxAiErrors
  BY <1>2, WorksOrFails
<1>8. TalkIsRight'
  <2>1. LoadsAreRight(loads', named, sends)
    BY <1>1, <1>2 DEF LoadsAreRight
  <2>2. EditorsAreRight([editors EXCEPT ![e] = ed], chains, named, sends)
    BY <1>3, <1>6, EditorAlone
  <2>. QED BY <2>1, <2>2, <1>1, <1>2, <1>5, <1>7 DEF TalkIsRight
<1>9. CountsAreRight' /\ UnopenedAreIdle'
  <2>1. turns' \in 0..MaxTurns
    BY <1>1, <1>7 DEF CountsAreRight
  <2>. QED BY <2>1, <1>2, <1>7, ChainsRest
<1>10. editors'[e] = ed /\ \A x \in Editors : editors'[x].ref = editors[x].ref
  BY <1>1, <1>3, <1>5, <1>6
<1>11. WizardIsRight'
  <2>1. wizard.shown # 0 => wizard.shown \in Editors
    BY SessionGives
  <2>. QED BY <2>1, <1>1, <1>2, <1>10 DEF WizardIsRight
<1>12. ASSUME unhurried PROVE wizard.shown # 0 /\ AtWork'
  <2>. DEFINE ch == chains[e]
              old == editors[e]
              ld == loads'
              url == wizard.url
  <2>1. /\ wizard.shown = e /\ e # 0 /\ AtWork /\ deleting[e] = NoSession
        /\ ch.step \in {"idle", "generate"} /\ l.of = old.ref /\ histories[l.of].state = "kept"
        /\ h = histories[l.of]
        /\ l.of = old.name \/ (old.name = NoSession /\ l.of = url /\ ch.step = "idle")
    BY <1>2, <1>12, LoadIsOfShown DEF e, h
  <2>2. /\ LoadsAreCurrent(old, ch, loads, histories, url)
        /\ ChainIsShown(old, ch, loads, histories)
        /\ Addressed(old, ch, loads, histories, url, aiErrors)
    BY <2>1 DEF AtWork, AtEditor
  <2>3. l.of # NoSession
    BY <1>1, <1>3, AiNumbers
  <2>. HIDE DEF ch, old, url
  <2>4. Exclusive(ch, ld, NoSession)
    BY <2>1 DEF Exclusive
  <2>5. LoadsAreCurrent(ed, ch, ld, histories, url)
    BY <2>1, <2>2, <1>2, <1>6 DEF LoadsAreCurrent, old
  <2>6. ChainIsShown(ed, ch, ld, histories)
    BY <2>1, <2>2, <2>3, <1>2, <1>6 DEF ChainIsShown
  <2>7. IsStored(ed, histories)
    BY <2>1, <2>3, <1>6 DEF IsStored
  <2>8. NamesAreRight(ed, ch, ld, NoSession, histories, aiErrors)
    BY <2>1, <2>3, <1>6 DEF NamesAreRight, IsLost, old
  <2>9. Addressed(ed, ch, ld, histories, url, aiErrors)
    BY <2>1, <2>2, <2>3, <1>6 DEF Addressed, LoadsAreCurrent, IsLost
  <2>10. \A k \in ld : k.at = e
    BY <2>1, <1>2 DEF AtWork
  <2>. HIDE DEF ld
  <2>11. AtEditor(ed, ch, ld, NoSession, histories, url, aiErrors)
    BY <2>4, <2>5, <2>6, <2>7, <2>8, <2>9 DEF AtEditor
  <2>. QED BY <2>1, <2>10, <2>11, <1>2, <1>7, <1>10 DEF AtWork, AtRestIn, ld, ch, url
<1>. QED BY <1>2, <1>7, <1>8, <1>9, <1>11, <1>12 DEF SessionInv

(* A load fails.                                                             *)
LEMMA LoadFailsKeeps ==
  ASSUME SessionInv, NEW l, LoadFails(l)
  PROVE  SessionInv'
<1>1. /\ LoadsAreRight(loads, named, sends) /\ aiErrors \in Nat
      /\ WizardIsRight /\ CountsAreRight /\ TalkIsRight
  BY SessionGives
<1>2. /\ l \in loads /\ loads' = loads \ {l}
      /\ AiFails \/ (InTrash(l.of) /\ AiWorks)
      /\ UNCHANGED <<wizard, editors, chains, deleting, histories, named>>
  BY DEF LoadFails
<1>3. /\ UNCHANGED <<sends, turns, unhurried>>
      /\ aiErrors' \in 0..MaxAiErrors
  BY <1>2, WorksOrFails
<1>4. TalkIsRight'
  <2>1. LoadsAreRight(loads', named, sends)
    BY <1>1, <1>2 DEF LoadsAreRight
  <2>. QED BY <2>1, <1>1, <1>2, <1>3 DEF TalkIsRight
<1>5. CountsAreRight' /\ UnopenedAreIdle'
  <2>1. turns' \in 0..MaxTurns
    BY <1>1, <1>3 DEF CountsAreRight
  <2>. QED BY <2>1, <1>2, <1>3, ChainsRest
<1>6. WizardIsRight'
  BY <1>1, <1>2 DEF WizardIsRight
<1>7. ASSUME unhurried PROVE wizard.shown # 0 /\ AtWork'
  <2>. DEFINE e == wizard.shown
              ch == chains[e]
              ed == editors[e]
              ld == loads'
              url == wizard.url
  <2>1. /\ e # 0 /\ AtWork /\ deleting[e] = NoSession /\ ch.step \in {"idle", "generate"}
        /\ histories[l.of].state = "kept"
        /\ l.of = ed.name \/ (ed.name = NoSession /\ l.of = url /\ ch.step = "idle")
    BY <1>2, <1>7, LoadIsOfShown
  <2>2. /\ LoadsAreCurrent(ed, ch, loads, histories, url) /\ ChainIsShown(ed, ch, loads, histories)
        /\ ch.step = "idle" /\ ed.kept => IsStored(ed, histories)
    BY <2>1 DEF AtWork, AtEditor
  <2>3. /\ NamesAreRight(ed, ch, loads, NoSession, histories, aiErrors)
        /\ Addressed(ed, ch, loads, histories, url, aiErrors)
    BY <2>1 DEF AtWork, AtEditor
  <2>4. aiErrors' = aiErrors + 1
    BY <2>1, <1>2 DEF AiFails, InTrash
  <2>5. aiErrors' # 0 /\ (aiErrors' = 1 => aiErrors = 0)
    BY <2>4, <1>1
  <2>. HIDE DEF ch, ed, url, e
  <2>6. Exclusive(ch, ld, NoSession)
    BY <2>1 DEF Exclusive
  <2>7. LoadsAreCurrent(ed, ch, ld, histories, url)
    BY <2>2, <1>2 DEF LoadsAreCurrent
  <2>8. ChainIsShown(ed, ch, ld, histories)
    BY <2>2, <1>2 DEF ChainIsShown
  <2>9. NamesAreRight(ed, ch, ld, NoSession, histories, aiErrors')
    BY <2>3, <2>5 DEF NamesAreRight
  <2>10. Addressed(ed, ch, ld, histories, url, aiErrors')
    BY <2>3, <2>5 DEF Addressed
  <2>11. \A k \in ld : k.at = e
    BY <2>1, <1>2 DEF AtWork, e
  <2>. HIDE DEF ld
  <2>12. AtEditor(ed, ch, ld, NoSession, histories, url, aiErrors')
    BY <2>2, <2>6, <2>7, <2>8, <2>9, <2>10 DEF AtEditor
  <2>. QED BY <2>1, <2>11, <2>12, <1>2 DEF AtWork, AtRestIn, ld, ch, ed, url, e
<1>. QED BY <1>2, <1>3, <1>4, <1>5, <1>6, <1>7 DEF SessionInv

-----------------------------------------------------------------------------
(* The conversation shown is cleared.                                        *)
LEMMA ClearContextKeeps ==
  ASSUME SessionInv, NEW e \in Editors, ClearContext(e)
  PROVE  SessionInv'
<1>. DEFINE ed == editors'[e]
            old == editors[e]
<1>1. /\ named \in Nat /\ sends \in Nat /\ editors = [x \in Editors |-> editors[x]]
      /\ old \in EditorTypes(named) /\ EditorIsRight(old, chains[e], named, sends)
      /\ WizardIsRight /\ CountsAreRight /\ TalkIsRight
  BY SessionGives
<1>2. /\ wizard.shown = e /\ Turns /\ e # 0
      /\ UNCHANGED <<wizard, chains, loads, deleting, histories, named>>
  BY DEF ClearContext, Editors
<1>3. /\ ed.messages = <<>> /\ ed.kept = FALSE /\ ed.content = old.content /\ ed.name = old.name
      /\ ed.ref = old.ref /\ ed.isLoading = old.isLoading /\ ed \in EditorTypes(named)
      /\ editors' = [editors EXCEPT ![e] = ed]
  <2>. DEFINE none == <<>>
  <2>1. editors' = [editors EXCEPT ![e].messages = none, ![e].kept = FALSE]
    BY DEF ClearContext
  <2>2. none \in Seq(Message)
    BY <1>1, NothingIsWhole
  <2>. HIDE DEF none
  <2>3. /\ ed.messages = none /\ ed.kept = FALSE /\ ed.content = old.content /\ ed.name = old.name
        /\ ed.ref = old.ref /\ ed.isLoading = old.isLoading /\ ed \in EditorTypes(named)
        /\ editors' = [editors EXCEPT ![e] = ed]
    BY <2>1, <2>2, <1>1 DEF EditorTypes
  <2>. QED BY <2>3 DEF none
<1>. HIDE DEF ed, old
<1>4. EditorIsRight(ed, chains[e], named, sends)
  BY <1>1, <1>3, NothingIsWhole DEF EditorIsRight
<1>5. /\ UNCHANGED <<sends, aiErrors, unhurried>>
      /\ turns' \in 0..MaxTurns /\ aiErrors' \in 0..MaxAiErrors
      /\ unhurried => loads = {} /\ \A x \in Editors : AtRestIn(x)
  BY <1>2, TurnsIs
<1>6. TalkIsRight'
  <2>1. EditorsAreRight([editors EXCEPT ![e] = ed], chains, named, sends)
    BY <1>4, EditorAlone
  <2>. QED BY <2>1, <1>1, <1>2, <1>3, <1>5 DEF TalkIsRight
<1>7. CountsAreRight' /\ UnopenedAreIdle'
  BY <1>2, <1>5, ChainsRest
<1>8. editors'[e] = ed
  BY <1>1, <1>3
<1>9. WizardIsRight'
  BY <1>1, <1>2, <1>3, <1>8 DEF WizardIsRight, old
<1>10. ASSUME unhurried PROVE AtWork'
  <2>. DEFINE ch == chains[e]
              url == wizard.url
  <2>1. AtWork /\ loads = {} /\ deleting[e] = NoSession /\ ch.step = "idle"
    BY <1>2, <1>5, <1>10, OnlyAtWork DEF AtRestIn
  <2>2. /\ NamesAreRight(old, ch, loads, NoSession, histories, aiErrors)
        /\ Addressed(old, ch, loads, histories, url, aiErrors)
    BY <2>1, <1>2 DEF AtWork, AtEditor, old
  <2>. HIDE DEF ch
  <2>3. NamesAreRight(ed, ch, loads, NoSession, histories, aiErrors)
    BY <2>2, <1>3 DEF NamesAreRight, IsLost
  <2>4. Addressed(ed, ch, loads, histories, url, aiErrors)
    BY <2>2, <1>3 DEF Addressed, IsLost
  <2>5. AtEditor(ed, ch, loads, NoSession, histories, url, aiErrors)
    BY <2>1, <2>3, <2>4, <1>3 DEF AtEditor, Exclusive, LoadsAreCurrent, ChainIsShown
  <2>. QED BY <2>1, <2>5, <1>2, <1>5, <1>8 DEF AtWork, AtRestIn, ch
<1>. QED BY <1>2, <1>5, <1>6, <1>7, <1>9, <1>10 DEF SessionInv

(* A deletion is asked for.                                                  *)
LEMMA DeleteSessionKeeps ==
  ASSUME SessionInv, NEW e \in Editors, DeleteSession(e)
  PROVE  SessionInv'
<1>. DEFINE ed == editors[e]
<1>1. /\ named \in Nat /\ ed \in EditorTypes(named) /\ deleting \in [Editors -> Known(named)]
      /\ WizardIsRight /\ CountsAreRight /\ TalkIsRight
  BY SessionGives
<1>2. /\ wizard.shown = e /\ Turns /\ e # 0 /\ deleting' = [deleting EXCEPT ![e] = ed.ref]
      /\ UNCHANGED <<wizard, editors, chains, loads, histories, named>>
  BY DEF DeleteSession, Editors
<1>3. /\ UNCHANGED <<sends, aiErrors, unhurried>>
      /\ turns' \in 0..MaxTurns /\ aiErrors' \in 0..MaxAiErrors
      /\ unhurried => loads = {} /\ \A x \in Editors : AtRestIn(x)
  BY <1>2, TurnsIs
<1>4. deleting' \in [Editors -> Known(named)] /\ deleting'[e] = ed.ref
      /\ \A x \in Editors : x # e => deleting'[x] = deleting[x]
  BY <1>1, <1>2 DEF EditorTypes
<1>5. TalkIsRight'
  BY <1>1, <1>2, <1>3, <1>4 DEF TalkIsRight
<1>6. CountsAreRight' /\ UnopenedAreIdle'
  BY <1>2, <1>3, ChainsRest
<1>7. WizardIsRight'
  BY <1>1, <1>2 DEF WizardIsRight
<1>8. ASSUME unhurried PROVE AtWork'
  <2>. DEFINE ch == chains[e]
              url == wizard.url
  <2>1. AtWork /\ loads = {} /\ deleting[e] = NoSession /\ ch.step = "idle"
    BY <1>2, <1>3, <1>8, OnlyAtWork DEF AtRestIn
  <2>2. /\ NamesAreRight(ed, ch, loads, NoSession, histories, aiErrors)
        /\ Addressed(ed, ch, loads, histories, url, aiErrors)
        /\ ed.kept => IsStored(ed, histories)
    BY <2>1, <1>2 DEF AtWork, AtEditor
  <2>. HIDE DEF ch, ed
  <2>3. NamesAreRight(ed, ch, loads, ed.ref, histories, aiErrors)
    BY <2>2 DEF NamesAreRight
  <2>4. AtEditor(ed, ch, loads, ed.ref, histories, url, aiErrors)
    BY <2>1, <2>2, <2>3 DEF AtEditor, Exclusive, LoadsAreCurrent, ChainIsShown
  <2>. QED BY <2>1, <2>4, <1>2, <1>3, <1>4 DEF AtWork, AtRestIn, ch, ed
<1>. QED BY <1>2, <1>3, <1>5, <1>6, <1>7, <1>8 DEF SessionInv

(* What a user who waits has in the editor while a deletion is under way.    *)
LEMMA DeletionIsOfShown ==
  ASSUME SessionInv, unhurried, NEW e \in Editors, deleting[e] # NoSession
  PROVE  /\ wizard.shown = e /\ e # 0 /\ AtWork /\ loads = {} /\ chains[e].step = "idle"
         /\ deleting[e] = editors[e].ref
         /\ editors[e].name # NoSession => histories[editors[e].name].state # "trashed"
         /\ aiErrors = 0 => editors[e].name # NoSession /\ editors[e].ref = editors[e].name
<1>1. ~AtRestIn(e) /\ e # 0
  BY DEF AtRestIn, Editors
<1>2. wizard.shown = e /\ AtWork
  BY <1>1, OnlyAtWork
<1>3. /\ Exclusive(chains[e], loads, deleting[e])
      /\ NamesAreRight(editors[e], chains[e], loads, deleting[e], histories, aiErrors)
  BY <1>2 DEF AtWork, AtEditor
<1>. QED BY <1>1, <1>2, <1>3 DEF Exclusive, NamesAreRight

(* A deletion fails, is refused, or is carried out and its answer lost.      *)
LEMMA DeletionFailsKeeps ==
  ASSUME SessionInv, NEW e \in Editors, DeletionFails(e)
  PROVE  SessionInv'
<1>. DEFINE ed == editors[e]
            d == deleting[e]
            h == [histories[d] EXCEPT !.state = "lost"]
<1>1. /\ named \in Nat /\ sends \in Nat /\ deleting \in [Editors -> Known(named)]
      /\ aiErrors \in Nat /\ 1..named \subseteq Names /\ wizard \in Wizards(named)
      /\ ed \in EditorTypes(named) /\ HistoriesAreRight(histories, named, sends)
      /\ histories = [x \in Names |-> histories[x]]
      /\ WizardIsRight /\ CountsAreRight /\ TalkIsRight
  BY SessionGives
<1>2. /\ d # NoSession /\ deleting' = [deleting EXCEPT ![e] = NoSession]
      /\ UNCHANGED <<wizard, editors, chains, loads, named>>
      /\ \/ AiFails /\ UNCHANGED histories
         \/ /\ AiFails /\ ~InTrash(d)
            /\ histories' = [histories EXCEPT ![d].state = "lost"]
         \/ InTrash(d) /\ AiWorks /\ UNCHANGED histories
  BY DEF DeletionFails
<1>3. /\ UNCHANGED <<sends, turns, unhurried>> /\ aiErrors' \in 0..MaxAiErrors
      /\ aiErrors' = aiErrors + 1 \/ (aiErrors' = aiErrors /\ UNCHANGED histories)
  BY <1>2, WorksOrFails DEF AiFails, AiWorks
<1>4. deleting' \in [Editors -> Known(named)] /\ deleting'[e] = NoSession
      /\ \A x \in Editors : x # e => deleting'[x] = deleting[x]
  BY <1>1, <1>2, AiNumbers
<1>5. /\ HistoriesAreRight(histories', named, sends)
      /\ \A x \in Names : /\ histories'[x].state \in {histories[x].state, "lost"}
                          /\ histories'[x].messages = histories[x].messages
                          /\ histories'[x].content = histories[x].content
  <2>1. CASE UNCHANGED histories
    BY <2>1, <1>1
  <2>2. CASE histories' = [histories EXCEPT ![d].state = "lost"]
    <3>1. d \in Names /\ d <= named
      <4>1. d \in 1..named
        BY <1>1, <1>2 DEF Known
      <4>. QED BY <4>1, <1>1
    <3>2. histories[d] \in HistoryTypes /\ HistoryIsRight(histories[d], sends)
      BY <3>1, <1>1 DEF HistoriesAreRight, HistoryIsRight
    <3>3. /\ HistoryIsRight(h, sends) /\ h.state = "lost" /\ h.messages = histories[d].messages
          /\ h.content = histories[d].content
      BY <3>2 DEF HistoryIsRight, HistoryTypes
    <3>4. histories' = [histories EXCEPT ![d] = h]
      BY <2>2, <3>1, <1>1
    <3>. HIDE DEF h, d
    <3>5. HistoriesAreRight([histories EXCEPT ![d] = h], named, sends)
      BY <3>1, <3>3, <1>1, HistoryChanges
    <3>6. histories'[d] = h /\ \A x \in Names : x # d => histories'[x] = histories[x]
      BY <3>1, <3>4, <1>1
    <3>. QED BY <3>3, <3>4, <3>5, <3>6
  <2>. QED BY <2>1, <2>2, <1>2
<1>6. TalkIsRight'
  BY <1>1, <1>2, <1>3, <1>4, <1>5 DEF TalkIsRight
<1>7. CountsAreRight' /\ UnopenedAreIdle'
  <2>1. turns' \in 0..MaxTurns
    BY <1>1, <1>3 DEF CountsAreRight
  <2>. QED BY <2>1, <1>2, <1>3, ChainsRest
<1>8. WizardIsRight'
  BY <1>1, <1>2 DEF WizardIsRight
<1>9. ASSUME unhurried PROVE wizard.shown # 0 /\ AtWork'
  <2>. DEFINE ch == chains[e]
              url == wizard.url
              k == histories'
  <2>1. /\ wizard.shown = e /\ e # 0 /\ AtWork /\ loads = {} /\ ch.step = "idle"
        /\ aiErrors = 0 => ed.name # NoSession /\ ed.ref = ed.name
    BY <1>2, <1>9, DeletionIsOfShown
  <2>2. /\ Addressed(ed, ch, loads, histories, url, aiErrors)
        /\ NamesAreRight(ed, ch, loads, deleting[e], histories, aiErrors)
        /\ ed.kept => IsStored(ed, histories)
    BY <2>1 DEF AtWork, AtEditor
  <2>3. ed.name \in Names \cup {NoSession} /\ url \in Names \cup {NoSession}
    BY <1>1 DEF EditorTypes, Wizards, Known
  <2>4. Gone(url, histories) => Gone(url, k)
    BY <2>3, <1>5 DEF Gone
  <2>. HIDE DEF ch, ed, url, d
  <2>5. NamesAreRight(ed, ch, loads, NoSession, k, aiErrors')
    BY <2>1, <2>2, <2>3, <1>1, <1>3, <1>5 DEF NamesAreRight, IsLost
  <2>6. Addressed(ed, ch, loads, k, url, aiErrors')
    <3>1. CASE aiErrors' = aiErrors /\ UNCHANGED histories
      BY <3>1, <2>2 DEF Addressed
    <3>2. CASE aiErrors' = aiErrors + 1
      <4>1. aiErrors' # 0 /\ (aiErrors' = 1 => aiErrors = 0)
        BY <3>2, <1>1
      <4>. QED BY <4>1, <2>1, <2>2, <2>4 DEF Addressed
    <3>. QED BY <3>1, <3>2, <1>3
  <2>7. ed.kept => IsStored(ed, k)
    BY <2>2, <2>3, <1>5 DEF IsStored
  <2>8. AtEditor(ed, ch, loads, NoSession, k, url, aiErrors')
    BY <2>1, <2>5, <2>6, <2>7 DEF AtEditor, Exclusive, LoadsAreCurrent, ChainIsShown
  <2>. QED BY <2>1, <2>8, <1>2, <1>3, <1>4 DEF AtWork, AtRestIn, ch, ed, url
<1>. QED BY <1>2, <1>3, <1>4, <1>6, <1>7, <1>8, <1>9 DEF SessionInv

(* A session is deleted: its editor starts anew, and the one shown follows.  *)
LEMMA DeletedKeeps ==
  ASSUME SessionInv, NEW e \in Editors, Deleted(e)
  PROVE  SessionInv'
<1>. DEFINE d == deleting[e]
            w == wizard.shown
            h == [histories[d] EXCEPT !.state = "trashed"]
            busy == editors[e].isLoading
            ed == [FreshEditor(NoSession) EXCEPT !.isLoading = busy]
            eds == Followed(editors, NoSession)
<1>1. /\ named \in Nat /\ sends \in Nat /\ aiErrors \in Nat /\ 1..named \subseteq Names
      /\ deleting \in [Editors -> Known(named)] /\ wizard \in Wizards(named)
      /\ w \in 0..MaxEditors /\ (w # 0 => w \in Editors)
      /\ EditorsAreRight(editors, chains, named, sends)
      /\ HistoriesAreRight(histories, named, sends)
      /\ histories = [x \in Names |-> histories[x]]
      /\ EditorIsRight(editors[e], chains[e], named, sends)
      /\ ChainIsRight(chains[e], named, sends)
      /\ WizardIsRight /\ CountsAreRight /\ TalkIsRight
  BY SessionGives
<1>2. /\ d # NoSession /\ deleting' = [deleting EXCEPT ![e] = NoSession]
      /\ histories' = [histories EXCEPT ![d].state = "trashed"]
      /\ editors' = [eds EXCEPT ![e] = ed] /\ wizard' = [wizard EXCEPT !.session = NoSession]
      /\ AiWorks /\ UNCHANGED <<chains, loads, named>>
  BY DEF Deleted
<1>3. /\ UNCHANGED <<sends, turns, unhurried>>
      /\ aiErrors' = aiErrors /\ aiErrors' \in 0..MaxAiErrors
  BY <1>2, WorksOrFails
<1>4. d \in Names /\ d <= named
  <2>1. d \in 1..named
    BY <1>1, <1>2 DEF Known
  <2>. QED BY <2>1, <1>1
<1>5. /\ HistoriesAreRight(histories', named, sends) /\ histories'[d].state = "trashed"
      /\ \A x \in Names : x # d => histories'[x] = histories[x]
  <2>1. histories[d] \in HistoryTypes /\ HistoryIsRight(histories[d], sends)
    BY <1>1, <1>4 DEF HistoriesAreRight, HistoryIsRight
  <2>2. HistoryIsRight(h, sends) /\ h.state = "trashed"
    BY <2>1 DEF HistoryIsRight, HistoryTypes
  <2>3. histories' = [histories EXCEPT ![d] = h]
    BY <1>1, <1>2, <1>4
  <2>. HIDE DEF h, d
  <2>4. HistoriesAreRight([histories EXCEPT ![d] = h], named, sends)
    BY <2>2, <1>1, <1>4, HistoryChanges
  <2>. QED BY <2>2, <2>3, <2>4, <1>1, <1>4
<1>6. /\ deleting' \in [Editors -> Known(named)] /\ deleting'[e] = NoSession
      /\ \A x \in Editors : x # e => deleting'[x] = deleting[x]
  BY <1>1, <1>2, AiNumbers
<1>7. /\ ed.messages = <<>> /\ ed.content = 0 /\ ed.isLoading = busy /\ ed.name = NoSession
      /\ ed.ref = NoSession /\ ed.kept = FALSE /\ EditorIsRight(ed, chains[e], named, sends)
  <2>1. busy \in BOOLEAN /\ busy = (chains[e].step # "idle") /\ NoSession \in Known(named)
    BY <1>1, AiNumbers DEF EditorIsRight, EditorTypes
  <2>. DEFINE none == <<>>
  <2>2. none \in Seq(Message) /\ Whole(none, sends)
    BY <1>1, NothingIsWhole
  <2>. HIDE DEF busy, none
  <2>3. ed = [messages |-> none, content |-> 0, isLoading |-> busy, name |-> NoSession,
              ref |-> NoSession, kept |-> FALSE]
    <3>. DEFINE no == FALSE
                old == [messages |-> none, content |-> 0, isLoading |-> no, name |-> NoSession,
                        ref |-> NoSession, kept |-> no]
    <3>1. ed = [old EXCEPT !.isLoading = busy]
      BY DEF FreshEditor, none
    <3>. HIDE DEF no
    <3>2. [old EXCEPT !.isLoading = busy]
          = [messages |-> none, content |-> 0, isLoading |-> busy, name |-> NoSession,
             ref |-> NoSession, kept |-> no]
      OBVIOUS
    <3>. QED BY <3>1, <3>2 DEF no
  <2>. HIDE DEF ed
  <2>4. /\ ed.messages = none /\ ed.content = 0 /\ ed.isLoading = busy /\ ed.name = NoSession
        /\ ed.ref = NoSession /\ ed.kept = FALSE /\ ed \in EditorTypes(named)
    BY <2>1, <2>2, <2>3 DEF EditorTypes
  <2>. QED BY <2>1, <2>2, <2>4, <1>1 DEF EditorIsRight, none
<1>. HIDE DEF ed, h, busy
<1>8. /\ EditorsAreRight(eds, chains, named, sends) /\ eds = [x \in Editors |-> eds[x]]
      /\ \A x \in Editors : x # w => eds[x] = editors[x]
  <2>1. /\ EditorsAreRight(eds, chains, named, sends)
        /\ \A x \in Editors : x # w => eds[x] = editors[x]
    BY <1>1, AiNumbers, FollowedIsRight
  <2>. QED BY <2>1 DEF EditorsAreRight
<1>9. w # 0 => eds[w].ref = NoSession
  <2>. SUFFICES ASSUME w # 0 PROVE eds[w].ref = NoSession
    OBVIOUS
  <2>1. w \in Editors /\ editors[w].ref = wizard.session
    BY <1>1 DEF WizardIsRight
  <2>2. CASE Moved(NoSession)
    <3>1. editors[w] \in EditorTypes(named) /\ editors = [x \in Editors |-> editors[x]]
      BY <2>1, SessionGives
    <3>. QED BY <2>1, <2>2, <3>1 DEF Followed, EditorTypes
  <2>3. CASE ~Moved(NoSession)
    BY <2>1, <2>3 DEF Followed, Moved
  <2>. QED BY <2>2, <2>3
<1>. HIDE DEF eds
<1>10. EditorsAreRight(editors', chains, named, sends)
  <2>. DEFINE ch == chains[e]
  <2>1. /\ chains = [chains EXCEPT ![e] = ch] /\ named <= named /\ sends <= sends
        /\ EditorIsRight(ed, ch, named, sends) /\ ChainIsRight(ch, named, sends)
    BY <1>1, <1>7, SessionGives
  <2>. HIDE DEF ch
  <2>2. EditorsAreRight([eds EXCEPT ![e] = ed], [chains EXCEPT ![e] = ch], named, sends)
    BY <2>1, <1>1, <1>8, EditorChanges
  <2>. QED BY <2>1, <2>2, <1>2
<1>11. TalkIsRight'
  BY <1>1, <1>2, <1>3, <1>5, <1>6, <1>10 DEF TalkIsRight
<1>12. /\ wizard' \in Wizards(named) /\ wizard'.session = NoSession /\ wizard'.shown = w
       /\ wizard'.mode = wizard.mode /\ wizard'.url = wizard.url /\ wizard'.opened = wizard.opened
  BY <1>1, <1>2, AiNumbers DEF Wizards
<1>13. CountsAreRight' /\ UnopenedAreIdle'
  <2>1. turns' \in 0..MaxTurns
    BY <1>1, <1>3 DEF CountsAreRight
  <2>. QED BY <2>1, <1>2, <1>3, <1>12, ChainsRest
<1>14. editors'[e] = ed /\ \A x \in Editors : x # e => editors'[x] = eds[x]
  BY <1>2, <1>8
<1>15. WizardIsRight'
  <2>1. w # 0 => editors'[w].ref = NoSession
    BY <1>1, <1>7, <1>9, <1>14
  <2>. QED BY <2>1, <1>1, <1>2, <1>12 DEF WizardIsRight
<1>16. ASSUME unhurried PROVE w # 0 /\ AtWork'
  <2>. DEFINE ch == chains[e]
              old == editors[e]
              url == wizard.url
              k == histories'
  <2>1. /\ w = e /\ e # 0 /\ AtWork /\ loads = {} /\ ch.step = "idle" /\ d = old.ref
        /\ aiErrors = 0 => old.name # NoSession /\ old.ref = old.name
    BY <1>2, <1>16, DeletionIsOfShown
  <2>2. Addressed(old, ch, loads, histories, url, aiErrors)
    BY <2>1 DEF AtWork, AtEditor
  <2>. HIDE DEF ch, old
  <2>3. NamesAreRight(ed, ch, loads, NoSession, k, aiErrors)
    BY <2>1, <1>7 DEF NamesAreRight, IsLost
  <2>4. Addressed(ed, ch, loads, k, url, aiErrors)
    <3>1. CASE aiErrors = 0
      <4>1. Gone(url, histories) \/ url = old.name
        BY <2>1, <2>2, <3>1 DEF Addressed
      <4>2. url \in Names \cup {NoSession}
        BY <1>1 DEF Wizards, Known
      <4>3. Gone(url, k)
        BY <4>1, <4>2, <2>1, <3>1, <1>5 DEF Gone
      <4>. QED BY <4>3 DEF Addressed
    <3>2. CASE aiErrors # 0
      BY <3>2, <1>7 DEF Addressed
    <3>. QED BY <3>1, <3>2
  <2>5. AtEditor(ed, ch, loads, NoSession, k, url, aiErrors)
    BY <2>1, <2>3, <2>4, <1>7 DEF AtEditor, Exclusive, LoadsAreCurrent, ChainIsShown
  <2>6. \A x \in Editors : x # e => AtRestIn(x)'
    BY <2>1, <1>2, <1>6 DEF AtWork, AtRestIn
  <2>. QED BY <2>1, <2>5, <2>6, <1>2, <1>3, <1>6, <1>12, <1>14 DEF AtWork, ch
<1>. QED BY <1>2, <1>3, <1>11, <1>12, <1>13, <1>15, <1>16 DEF SessionInv

-----------------------------------------------------------------------------
(* The wizard moves, and no editor is opened.                                *)
LEMMA WizardMoves ==
  ASSUME SessionInv, UNCHANGED <<editors, chains, loads, deleting, histories, named, sends>>,
         UNCHANGED unhurried, turns' \in 0..MaxTurns, aiErrors' \in 0..MaxAiErrors,
         wizard' \in Wizards(named), wizard'.mode \notin {"searching", "editor"},
         wizard'.shown = 0, wizard'.opened = wizard.opened,
         unhurried => /\ wizard'.mode \in {"list", "config"}
                      /\ wizard'.url = NoSession /\ wizard'.session = NoSession
                      /\ loads = {} /\ \A e \in Editors : AtRestIn(e)
  PROVE  SessionInv'
<1>1. TalkIsRight'
  BY SessionGives DEF TalkIsRight
<1>2. CountsAreRight' /\ UnopenedAreIdle'
  BY ChainsRest
<1>3. WizardIsRight'
  BY DEF WizardIsRight
<1>4. unhurried => AtHome'
  BY DEF AtHome, AtRestIn
<1>. QED BY <1>1, <1>2, <1>3, <1>4 DEF SessionInv

(* The user goes back to the list.                                           *)
LEMMA BackKeeps ==
  ASSUME SessionInv, Back
  PROVE  SessionInv'
<1>1. /\ UNCHANGED <<sends, aiErrors, unhurried>>
      /\ turns' \in 0..MaxTurns /\ aiErrors' \in 0..MaxAiErrors
      /\ unhurried => loads = {} /\ \A e \in Editors : AtRestIn(e)
  BY TurnsIs DEF Back
<1>2. /\ wizard' \in Wizards(named) /\ wizard'.mode = "list" /\ wizard'.url = NoSession
      /\ wizard'.session = NoSession /\ wizard'.shown = 0 /\ wizard'.opened = wizard.opened
  <2>1. /\ wizard \in Wizards(named) /\ NoSession \in Known(named) /\ 0 \in 0..MaxEditors
        /\ wizard' = [wizard EXCEPT !.mode = "list", !.session = NoSession, !.url = NoSession,
                                    !.shown = 0]
    BY SessionGives, AiNumbers DEF Back
  <2>2. /\ wizard' = [mode |-> wizard'.mode, session |-> wizard'.session, url |-> wizard'.url,
                      shown |-> wizard'.shown, opened |-> wizard'.opened]
        /\ wizard'.mode = "list" /\ wizard'.url = NoSession
        /\ wizard'.session = NoSession /\ wizard'.shown = 0 /\ wizard'.opened = wizard.opened
    BY <2>1 DEF Wizards
  <2>3. wizard.opened \in 0..MaxEditors
    BY <2>1 DEF Wizards
  <2>4. wizard' \in Wizards(named)
    BY <2>1, <2>2, <2>3 DEF Wizards
  <2>. QED BY <2>2, <2>4
<1>3. UNCHANGED <<editors, chains, loads, deleting, histories, named>>
  BY DEF Back
<1>. QED BY <1>1, <1>2, <1>3, WizardMoves

(* A new chat is to be configured.                                           *)
LEMMA NewChatKeeps ==
  ASSUME SessionInv, NewChat
  PROVE  SessionInv'
<1>1. /\ UNCHANGED <<sends, aiErrors, unhurried>>
      /\ turns' \in 0..MaxTurns /\ aiErrors' \in 0..MaxAiErrors
      /\ unhurried => loads = {} /\ \A e \in Editors : AtRestIn(e)
  BY TurnsIs DEF NewChat
<1>2. wizard.mode = "list" /\ wizard.shown = 0
  BY SessionGives DEF NewChat, WizardIsRight
<1>3. /\ wizard' \in Wizards(named) /\ wizard'.mode = "config" /\ wizard'.url = wizard.url
      /\ wizard'.session = NoSession /\ wizard'.shown = 0 /\ wizard'.opened = wizard.opened
  BY <1>2, SessionGives, AiNumbers DEF NewChat, Wizards
<1>4. UNCHANGED <<editors, chains, loads, deleting, histories, named>>
  BY DEF NewChat
<1>5. unhurried => wizard.url = NoSession
  BY <1>2, OnlyAtWork DEF AtHome
<1>. QED BY <1>1, <1>3, <1>4, <1>5, WizardMoves

(* The lookup of the address finds no session.                               *)
LEMMA SessionNotFoundKeeps ==
  ASSUME SessionInv, SessionNotFound
  PROVE  SessionInv'
<1>1. UNCHANGED <<sends, turns, unhurried>> /\ aiErrors' \in 0..MaxAiErrors
  BY WorksOrFails DEF SessionNotFound
<1>2. /\ wizard.mode = "searching" /\ wizard.shown = 0 /\ turns \in 0..MaxTurns
      /\ UNCHANGED <<editors, chains, loads, deleting, histories, named>>
  BY SessionGives DEF SessionNotFound, WizardIsRight, CountsAreRight
<1>3. /\ wizard' \in Wizards(named) /\ wizard'.mode = "error" /\ wizard'.shown = 0
      /\ wizard'.opened = wizard.opened
  BY <1>2, SessionGives DEF SessionNotFound, Wizards
<1>4. ~unhurried
  BY <1>2, OnlyAtWork DEF AtHome
<1>. QED BY <1>1, <1>2, <1>3, <1>4, WizardMoves

(* A new editor, on a session that is stored or on none.                     *)
LEMMA OpensKeeps ==
  ASSUME SessionInv, NEW session \in Known(named), NEW url \in Known(named),
         wizard.shown = 0, Opens(session, url),
         UNCHANGED <<chains, deleting, histories, named, sends>>,
         UNCHANGED unhurried, turns' \in 0..MaxTurns, aiErrors' \in 0..MaxAiErrors,
         unhurried => /\ aiErrors' = aiErrors /\ url = session
                      /\ session # NoSession => histories[session].state = "kept"
  PROVE  SessionInv'
<1>. DEFINE e == wizard.opened + 1
            ed == FreshEditor(session)
            ch == chains[e]
<1>1. /\ named \in Nat /\ sends \in Nat /\ wizard \in Wizards(named)
      /\ EditorsAreRight(editors, chains, named, sends) /\ LoadsAreRight(loads, named, sends)
      /\ editors = [x \in Editors |-> editors[x]]
      /\ WizardIsRight /\ CountsAreRight /\ TalkIsRight
  BY SessionGives
<1>2. /\ e \in Editors /\ editors' = [editors EXCEPT ![e] = ed]
      /\ wizard' = [mode |-> "editor", session |-> session, url |-> url, shown |-> e, opened |-> e]
      /\ loads' = IF session = NoSession THEN loads ELSE loads \cup {Load(e, session)}
  BY DEF Opens
<1>3. wizard.opened \in Nat /\ e > wizard.opened /\ e # 0 /\ e \in 0..MaxEditors
  <2>1. wizard.opened \in Nat
    BY <1>1, AiNumbers DEF Wizards
  <2>. QED BY <2>1, <1>2, AiNumbers DEF Editors
<1>4. ch.step = "idle" /\ \A x \in Editors : x > e => chains[x].step = "idle"
  <2>1. UnopenedAreIdle /\ \A x \in Editors : x \in Nat
    BY AiNumbers DEF SessionInv, Editors
  <2>2. \A x \in Editors : x > e => x > wizard.opened
    BY <2>1, <1>3
  <2>. QED BY <2>1, <2>2, <1>2, <1>3 DEF UnopenedAreIdle
<1>5. /\ ed.messages = <<>> /\ ed.content = 0 /\ ed.name = NoSession /\ ed.ref = session
      /\ ed.kept = FALSE /\ EditorIsRight(ed, ch, named, sends)
  <2>1. /\ ed.messages = <<>> /\ ed.content = 0 /\ ed.name = NoSession /\ ed.ref = session
        /\ ed.kept = FALSE /\ ed.isLoading = FALSE
    BY DEF FreshEditor
  <2>2. ed \in EditorTypes(named)
    BY <1>1, AiNumbers, NothingIsWhole DEF FreshEditor, EditorTypes
  <2>. HIDE DEF ed, ch
  <2>3. 0 <= sends /\ Whole(<<>>, sends)
    BY <1>1, NothingIsWhole
  <2>. QED BY <2>1, <2>2, <2>3, <1>4 DEF EditorIsRight
<1>6. LoadsAreRight(loads', named, sends)
  <2>1. CASE session = NoSession
    BY <2>1, <1>1, <1>2
  <2>2. CASE session # NoSession
    <3>1. <<>> \in Seq(HistoryTypes) /\ session \in 1..named
      BY <2>2 DEF Known
    <3>2. LoadIsRight(Load(e, session), named, sends)
      BY <3>1, <1>2 DEF LoadIsRight, Load
    <3>. QED BY <2>2, <3>2, <1>1, <1>2 DEF LoadsAreRight
  <2>. QED BY <2>1, <2>2
<1>. HIDE DEF ed
<1>7. TalkIsRight'
  <2>1. EditorsAreRight([editors EXCEPT ![e] = ed], chains, named, sends)
    BY <1>2, <1>5, EditorAlone
  <2>. QED BY <2>1, <1>1, <1>2, <1>6 DEF TalkIsRight
<1>8. editors'[e] = ed
  BY <1>1, <1>2
<1>. HIDE DEF e, ch
<1>9. CountsAreRight' /\ UnopenedAreIdle'
  <2>1. CountsAreRight'
    BY ChainsRest
  <2>2. wizard'.opened = e
    BY <1>2
  <2>. QED BY <2>1, <2>2, <1>4 DEF UnopenedAreIdle
<1>10. /\ wizard'.mode = "editor" /\ wizard'.session = session /\ wizard'.url = url
       /\ wizard'.shown = e /\ wizard'.opened = e /\ wizard' \in Wizards(named)
  BY <1>2, <1>3 DEF Wizards
<1>11. WizardIsRight'
  BY <1>3, <1>5, <1>8, <1>10 DEF WizardIsRight
<1>12. ASSUME unhurried PROVE AtWork'
  <2>. DEFINE ld == loads'
  <2>1. loads = {} /\ \A x \in Editors : AtRestIn(x)
    BY <1>12, OnlyAtWork DEF AtHome
  <2>2. \A l \in ld : l.at = e /\ l.of = session /\ l.got = <<>> /\ session # NoSession
    BY <2>1, <1>2 DEF Load
  <2>3. session # NoSession => \E l \in ld : l.of = session
    <3>1. session # NoSession => Load(e, session) \in ld
      BY <1>2
    <3>. QED BY <3>1 DEF Load
  <2>. HIDE DEF ld
  <2>4. LoadsAreCurrent(ed, ch, ld, histories, url)
    BY <2>2, <1>4, <1>5, <1>12 DEF LoadsAreCurrent
  <2>5. NamesAreRight(ed, ch, ld, NoSession, histories, aiErrors)
    BY <2>3, <1>5 DEF NamesAreRight, IsLost
  <2>6. Addressed(ed, ch, ld, histories, url, aiErrors)
    BY <2>3, <1>5, <1>12 DEF Addressed, Gone
  <2>7. AtEditor(ed, ch, ld, NoSession, histories, url, aiErrors)
    BY <2>4, <2>5, <2>6, <1>4, <1>5 DEF AtEditor, Exclusive, ChainIsShown
  <2>8. deleting[e] = NoSession
    BY <2>1, <1>2 DEF AtRestIn, e
  <2>. QED BY <2>1, <2>2, <2>7, <2>8, <1>8, <1>10, <1>12 DEF AtWork, AtRestIn, ld, ch
<1>. QED BY <1>3, <1>7, <1>9, <1>10, <1>11, <1>12 DEF SessionInv

(* The configuration ends, and an editor opens.                              *)
LEMMA ConfiguredKeeps ==
  ASSUME SessionInv, Configured
  PROVE  SessionInv'
<1>1. UNCHANGED <<sends, turns, unhurried>> /\ aiErrors' = aiErrors /\ aiErrors' \in 0..MaxAiErrors
  BY WorksOrFails DEF Configured
<1>2. /\ wizard.mode = "config" /\ wizard.shown = 0 /\ turns \in 0..MaxTurns
      /\ wizard.session \in Known(named) /\ wizard.url \in Known(named)
  BY SessionGives DEF Configured, WizardIsRight, CountsAreRight, Wizards
<1>3. unhurried => wizard.session = NoSession /\ wizard.url = NoSession
  BY <1>2, OnlyAtWork DEF AtHome
<1>. QED BY <1>1, <1>2, <1>3, OpensKeeps DEF Configured

(* A session of the list is opened.                                          *)
LEMMA OpenSessionKeeps ==
  ASSUME SessionInv, NEW s \in Names, OpenSession(s)
  PROVE  SessionInv'
<1>1. /\ UNCHANGED <<sends, aiErrors, unhurried>>
      /\ turns' \in 0..MaxTurns /\ aiErrors' \in 0..MaxAiErrors
  BY TurnsIs DEF OpenSession
<1>2. /\ wizard.mode = "list" /\ wizard.shown = 0 /\ histories[s].state = "kept"
  BY SessionGives DEF OpenSession, WizardIsRight
<1>3. s \in Known(named)
  <2>1. s <= named /\ s \in Nat /\ s > 0 /\ named \in Nat
    BY <1>2, SessionGives, AiNumbers DEF HistoriesAreRight, Names
  <2>. QED BY <2>1 DEF Known
<1>. QED BY <1>1, <1>2, <1>3, OpensKeeps DEF OpenSession

(* The lookup of the address finds its session.                              *)
LEMMA SessionFoundKeeps ==
  ASSUME SessionInv, SessionFound
  PROVE  SessionInv'
<1>1. UNCHANGED <<sends, turns, unhurried>> /\ aiErrors' = aiErrors /\ aiErrors' \in 0..MaxAiErrors
  BY WorksOrFails DEF SessionFound
<1>2. /\ wizard.mode = "searching" /\ wizard.shown = 0 /\ turns \in 0..MaxTurns
      /\ wizard.url \in Known(named)
  BY SessionGives DEF SessionFound, WizardIsRight, CountsAreRight, Wizards
<1>3. ~unhurried /\ UNCHANGED <<chains, deleting, histories, named>>
  BY <1>2, OnlyAtWork DEF AtHome, SessionFound
<1>4. CASE Opens(wizard.url, wizard.url)
  BY <1>1, <1>2, <1>3, <1>4, OpensKeeps
<1>5. CASE /\ wizard' = [wizard EXCEPT !.mode = "config", !.session = wizard.url]
           /\ UNCHANGED <<editors, loads>>
  <2>1. /\ wizard' \in Wizards(named) /\ wizard'.mode = "config" /\ wizard'.shown = 0
        /\ wizard'.opened = wizard.opened
    <3>. DEFINE url == wizard.url
    <3>1. wizard' = [wizard EXCEPT !.mode = "config", !.session = url] /\ url \in Known(named)
      BY <1>2, <1>5
    <3>2. wizard \in Wizards(named)
      BY SessionGives
    <3>. HIDE DEF url
    <3>. QED BY <3>1, <3>2, <1>2 DEF Wizards
  <2>. QED BY <2>1, <1>1, <1>2, <1>3, <1>5, WizardMoves
<1>. QED BY <1>4, <1>5 DEF SessionFound

-----------------------------------------------------------------------------
(* The invariant holds at the start: nothing is said, stored or under way.   *)
LEMMA SessionInvInit == AiSessionInit => SessionInv
<1>. SUFFICES ASSUME AiSessionInit PROVE SessionInv
  OBVIOUS
<1>1. /\ wizard = [mode |-> "list", session |-> NoSession, url |-> NoSession, shown |-> 0,
                   opened |-> 0]
      /\ editors = [e \in Editors |-> FreshEditor(NoSession)]
      /\ chains = [e \in Editors |-> NoChain]
      /\ loads = {} /\ deleting = [e \in Editors |-> NoSession]
      /\ histories = [s \in Names |-> [state |-> "absent", messages |-> <<>>, content |-> 0]]
      /\ sends = 0 /\ named = 0 /\ turns = 0 /\ aiErrors = 0 /\ unhurried \in BOOLEAN
  BY DEF AiSessionInit
<1>2. NoSession \in Known(0) /\ 0 \in Nat /\ 0 \in 0..MaxEditors
  BY AiNumbers
<1>3. WizardIsRight
  BY <1>1, <1>2 DEF WizardIsRight, Wizards
<1>4. CountsAreRight
  <2>1. Asking(chains) = {}
    BY <1>1 DEF Asking, NoChain
  <2>2. Cardinality(Asking(chains)) = 0
    BY <2>1, FS_EmptySet
  <2>. QED BY <2>2, <1>1, AiNumbers DEF CountsAreRight
<1>5. <<>> \in Seq(Message) /\ Whole(<<>>, 0)
  BY <1>2, NothingIsWhole
<1>6. EditorsAreRight(editors, chains, 0, 0)
  <2>. DEFINE ed == FreshEditor(NoSession)
              ch == NoChain
  <2>1. /\ ed \in EditorTypes(0) /\ ed.messages = <<>> /\ ed.content = 0
        /\ ed.isLoading = FALSE
    BY <1>2, <1>5 DEF FreshEditor, EditorTypes
  <2>2. ch \in ChainTypes(0) /\ ch.step = "idle" /\ ch.content = 0
    BY <1>2, <1>5 DEF NoChain, ChainTypes
  <2>. HIDE DEF ed, ch
  <2>3. EditorIsRight(ed, ch, 0, 0)
    <3>1. ed.isLoading = (ch.step # "idle")
      BY <2>1, <2>2, Zenon
    <3>2. Whole(ed.messages, 0)
      BY <1>5, <2>1
    <3>3. ed.content <= 0
      BY <2>1, SMT
    <3>. QED BY <2>1, <3>1, <3>2, <3>3 DEF EditorIsRight
  <2>4. ChainIsRight(ch, 0, 0)
    BY <1>2, <2>2 DEF ChainIsRight
  <2>5. editors = [e \in Editors |-> ed] /\ chains = [e \in Editors |-> ch]
    BY <1>1 DEF ed, ch
  <2>. QED BY <2>3, <2>4, <2>5 DEF EditorsAreRight
<1>7. HistoriesAreRight(histories, 0, 0)
  <2>. DEFINE h == [state |-> "absent", messages |-> <<>>, content |-> 0]
  <2>1. h \in HistoryTypes /\ h.messages = <<>> /\ h.content = 0 /\ h.state = "absent"
    BY <1>2, <1>5 DEF HistoryTypes
  <2>. HIDE DEF h
  <2>2. HistoryIsRight(h, 0)
    BY <1>2, <1>5, <2>1 DEF HistoryIsRight
  <2>3. histories = [s \in Names |-> h]
    BY <1>1 DEF h
  <2>. QED BY <2>1, <2>2, <2>3 DEF HistoriesAreRight
<1>8. TalkIsRight
  BY <1>1, <1>2, <1>6, <1>7 DEF TalkIsRight, LoadsAreRight
<1>9. UnopenedAreIdle /\ AtHome
  BY <1>1 DEF UnopenedAreIdle, AtHome, AtRestIn, NoChain
<1>. QED BY <1>1, <1>3, <1>4, <1>8, <1>9 DEF SessionInv

(* Every step preserves the invariant.                                       *)
LEMMA SessionInvNext == SessionInv /\ [AiSessionNext]_aiVars => SessionInv'
<1>. SUFFICES ASSUME SessionInv, [AiSessionNext]_aiVars PROVE SessionInv'
  OBVIOUS
<1>1. CASE \E e \in Editors : Send(e)
  BY <1>1, SendKeeps
<1>2. CASE \E e \in Editors : SendProceeds(e)
  BY <1>2, SaveSucceedsKeeps, SaveFailsKeeps, GeneratedKeeps DEF SendProceeds
<1>3. CASE \E e \in Editors : ClearContext(e) \/ DeleteSession(e)
  BY <1>3, ClearContextKeeps, DeleteSessionKeeps
<1>4. CASE \E e \in Editors : Deleted(e) \/ DeletionFails(e)
  BY <1>4, DeletedKeeps, DeletionFailsKeeps
<1>5. CASE LoadProceeds
  BY <1>5, LoadReadKeeps, LoadArrivesKeeps, LoadFailsKeeps DEF LoadProceeds
<1>6. CASE Back \/ NewChat \/ Configured \/ SessionFound \/ SessionNotFound
  BY <1>6, BackKeeps, NewChatKeeps, ConfiguredKeeps, SessionFoundKeeps, SessionNotFoundKeeps
<1>7. CASE \E s \in Names : OpenSession(s)
  BY <1>7, OpenSessionKeeps
<1>8. CASE UNCHANGED aiVars
  BY <1>8 DEF aiVars, SessionInv, WizardIsRight, CountsAreRight, TalkIsRight, UnopenedAreIdle,
              AtHome, AtWork, AtRestIn
<1>. QED BY <1>1, <1>2, <1>3, <1>4, <1>5, <1>6, <1>7, <1>8 DEF AiSessionNext

(* The invariant says all that is to be shown.                               *)
LEMMA SessionInvImplies == SessionInv => SessionIsRight
<1>. SUFFICES ASSUME SessionInv PROVE SessionIsRight
  OBVIOUS
<1>1. /\ named \in Nat /\ sends \in Nat /\ named <= 2 * MaxSends /\ 1..named \subseteq Names
      /\ WizardIsRight /\ CountsAreRight /\ wizard \in Wizards(named)
      /\ deleting \in [Editors -> Known(named)]
      /\ HistoriesAreRight(histories, named, sends)
      /\ \A l \in loads : l \in [at : Editors, of : 1..named, got : Seq(HistoryTypes)]
      /\ \A x \in Names : histories[x] \in HistoryTypes
  BY SessionGives
<1>2. Known(named) \subseteq Session
  BY <1>1 DEF Known, Session
<1>3. AiSessionTypeOK
  <2>1. wizard \in [mode : {"list", "config", "searching", "editor", "error"},
                    session : Session, url : Session, shown : 0..MaxEditors,
                    opened : 0..MaxEditors]
    BY <1>1, <1>2 DEF Wizards
  <2>2. (wizard.mode = "editor") = (wizard.shown # 0)
    BY <1>1 DEF WizardIsRight
  <2>3. ASSUME NEW e \in Editors
        PROVE  /\ editors[e].messages \in Seq(Message) /\ Len(editors[e].messages) <= 2 * sends
               /\ editors[e].content \in 0..sends /\ editors[e].kept \in BOOLEAN
               /\ {editors[e].name, editors[e].ref, deleting[e]} \subseteq 1..named \cup {NoSession}
               /\ chains[e].step \in {"idle", "prompt", "generate", "reply", "error"}
               /\ editors[e].isLoading = (chains[e].step # "idle")
    <3>1. /\ editors[e] \in EditorTypes(named) /\ chains[e] \in ChainTypes(named)
          /\ EditorIsRight(editors[e], chains[e], named, sends)
      BY SessionGives
    <3>2. /\ editors[e].messages \in Seq(Message) /\ Len(editors[e].messages) <= 2 * sends
          /\ editors[e].isLoading = (chains[e].step # "idle")
      BY <3>1 DEF EditorIsRight, Whole
    <3>3. editors[e].content \in 0..sends /\ editors[e].kept \in BOOLEAN
      BY <1>1, <3>1 DEF EditorIsRight, EditorTypes
    <3>4. {editors[e].name, editors[e].ref, deleting[e]} \subseteq 1..named \cup {NoSession}
      BY <1>1, <3>1 DEF EditorTypes, Known
    <3>5. chains[e].step \in {"idle", "prompt", "generate", "reply", "error"}
      BY <3>1 DEF ChainTypes
    <3>. QED BY <3>2, <3>3, <3>4, <3>5
  <2>4. \A s \in Names : histories[s].state \in {"absent", "kept", "trashed", "lost"}
    BY <1>1 DEF HistoryTypes
  <2>5. named \in 0..2 * MaxSends
    BY <1>1, AiNumbers
  <2>6. /\ sends \in 0..MaxSends /\ turns \in 0..MaxTurns /\ aiErrors \in 0..MaxAiErrors
        /\ unhurried \in BOOLEAN
    BY <1>1 DEF CountsAreRight
  <2>. QED BY <2>1, <2>2, <2>3, <2>4, <2>5, <2>6, <1>1 DEF AiSessionTypeOK
<1>4. ConversationsAreWhole
  BY <1>1 DEF ConversationsAreWhole, HistoriesAreRight, HistoryIsRight, Whole
<1>5. ASSUME unhurried, ~CallPending, wizard.shown # 0
      PROVE  LET e == wizard.shown
             IN /\ e \in Editors /\ (editors[e].kept => IsStored(editors[e], histories))
                /\ Addressed(editors[e], chains[e], {}, histories, wizard.url, aiErrors)
                /\ chains[e].step = "idle"
  <2>. DEFINE e == wizard.shown
  <2>1. AtWork /\ e \in Editors /\ loads = {} /\ chains[e].step = "idle"
    BY <1>5, OnlyAtWork, NothingPending
  <2>. QED BY <2>1 DEF AtWork, AtEditor
<1>6. ShownIsStored
  <2>1. 0 \notin Editors
    BY DEF Editors
  <2>. QED BY <2>1, <1>5 DEF ShownIsStored, IsStored
<1>7. AddressIsShown
  <2>. SUFFICES ASSUME unhurried, ~CallPending, aiErrors <= 1, wizard.mode = "editor",
                       editors[wizard.shown].name # NoSession
                PROVE  \/ wizard.url \in {NoSession, editors[wizard.shown].name}
                       \/ InTrash(wizard.url)
    BY DEF AddressIsShown
  <2>1. wizard.shown # 0 /\ (aiErrors = 0 \/ aiErrors = 1)
    BY <1>1 DEF WizardIsRight, CountsAreRight
  <2>. QED BY <2>1, <1>5 DEF Addressed, Gone, InTrash
<1>. QED BY <1>3, <1>4, <1>6, <1>7 DEF SessionIsRight

(* Whatever is cleared, deleted, left or loaded while a reply is awaited,    *)
(* every stored conversation is one a chat can have; and what a user who     *)
(* waits sees is what is stored, under the address shown                     *)
(* (ManualEditor.tsx:883-1068, ai.create.tsx:30-81).                         *)
THEOREM SessionIsAlwaysRight == AiSessionSpec => []SessionIsRight
<1>1. AiSessionInit /\ [][AiSessionNext]_aiVars => []SessionInv
  BY SessionInvInit, SessionInvNext, PTL
<1>. QED BY <1>1, SessionInvImplies, PTL DEF AiSessionSpec

-----------------------------------------------------------------------------
(* The folder tree (SidebarTree)                                           *)

(* A set of natural numbers has a least one.                                 *)
LEMMA LeastNatural ==
  ASSUME NEW T \in SUBSET Nat, T # {}
  PROVE  \E x \in T : \A y \in T : ~(y < x)
<1> DEFINE R == OpToRel(<, Nat)
<1>1. IsWellFoundedOn(R, Nat)
  BY NatLessThanWellFounded, Zenon
<1>2. \A x, y \in Nat : y < x => <<y, x>> \in R
  BY DEF OpToRel
<1>3. \E x \in T : \A y \in T : <<y, x>> \notin R
  <2>. HIDE DEF R
  <2>. QED BY <1>1, WFMin
<1>. QED BY <1>2, <1>3

(* Induction over the natural numbers, stated of the set a fact holds on.    *)
LEMMA NaturalsInductive ==
  ASSUME NEW T, 0 \in T, \A n \in Nat : n \in T => n + 1 \in T
  PROVE  Nat \subseteq T
<1> SUFFICES ASSUME Nat \ T # {} PROVE FALSE
  OBVIOUS
<1>1. PICK x \in Nat \ T : \A y \in Nat \ T : ~(y < x)
  BY LeastNatural
<1>2. x # 0 /\ x - 1 \in Nat /\ x - 1 < x
  BY <1>1
<1>3. (x - 1) + 1 \in T
  BY <1>1, <1>2
<1>. QED BY <1>1, <1>2, <1>3

(* One element more of a sequence that is filtered.                          *)
Taken(left, c, X) == IF c \in X THEN Append(left, c) ELSE left

(* The steps by which Filter goes through a sequence exist.                  *)
LEMMA FilterSteps ==
  ASSUME NEW S, NEW s \in Seq(S), NEW X
  PROVE  \E f : /\ f = [i \in 0 .. Len(s) |-> IF i = 0 THEN <<>> ELSE Taken(f[i - 1], s[i], X)]
                /\ Filter(s, X) = f[Len(s)]
<1> DEFINE N == Len(s)
           Steps(f, k) == f = [i \in 0 .. k |-> IF i = 0 THEN <<>> ELSE Taken(f[i - 1], s[i], X)]
           T == {k \in Nat : \E f : Steps(f, k)}
<1>0. N \in Nat
  OBVIOUS
<1>1. 0 \in T
  <2> DEFINE f == [i \in 0 .. 0 |-> <<>>]
  <2>1. Steps(f, 0)
    OBVIOUS
  <2>. QED BY <2>1
<1>2. ASSUME NEW k \in Nat, k \in T PROVE k + 1 \in T
  <2>1. PICK f : Steps(f, k)
    BY <1>2
  <2> DEFINE g == [i \in 0 .. (k + 1) |-> IF i = k + 1 THEN Taken(f[k], s[k + 1], X) ELSE f[i]]
  <2>2. ASSUME NEW i \in 0 .. (k + 1)
        PROVE  g[i] = IF i = 0 THEN <<>> ELSE Taken(g[i - 1], s[i], X)
    <3>1. CASE i = k + 1
      <4>1. i # 0 /\ i - 1 = k /\ k \in 0 .. (k + 1) /\ k # k + 1
        BY <3>1
      <4>. QED BY <3>1, <4>1
    <3>2. CASE i # k + 1 /\ i = 0
      BY <2>1, <3>2
    <3>3. CASE i # k + 1 /\ i # 0
      <4>1. i - 1 \in 0 .. k /\ i - 1 # k + 1 /\ i \in 0 .. k /\ i - 1 \in 0 .. (k + 1)
        BY <3>3
      <4>2. g[i] = f[i] /\ g[i - 1] = f[i - 1]
        BY <3>3, <4>1
      <4>3. f[i] = Taken(f[i - 1], s[i], X)
        BY <2>1, <3>3, <4>1
      <4>. QED BY <3>3, <4>2, <4>3
    <3>. QED BY <3>1, <3>2, <3>3
  <2>3. Steps(g, k + 1)
    <3>1. g = [i \in 0 .. (k + 1) |-> g[i]]
      OBVIOUS
    <3>. HIDE DEF g
    <3>. QED BY <2>2, <3>1
  <2>. HIDE DEF g
  <2>. QED BY <2>3
<1>3. N \in T
  <2>. HIDE DEF T, N
  <2>. QED BY <1>0, <1>1, <1>2, NaturalsInductive
<1> DEFINE left == CHOOSE f : Steps(f, N)
<1>4. Steps(left, N)
  BY <1>3
<1>5. Filter(s, X) = left[N]
  BY DEF Filter, Taken
<1>. HIDE DEF left
<1>. QED BY <1>4, <1>5

(* The elements of a sequence and one more.                                  *)
LEMMA AppendedSet ==
  ASSUME NEW S, NEW s \in Seq(S), NEW c
  PROVE  /\ ToSet(Append(s, c)) = ToSet(s) \cup {c}
         /\ IsInjective(s) /\ c \notin ToSet(s) => IsInjective(Append(s, c))
<1> DEFINE t == Append(s, c)
<1>1. /\ DOMAIN t = 1..(Len(s) + 1) /\ DOMAIN s = 1..Len(s) /\ Len(s) \in Nat
      /\ \A i \in 1..Len(s) : t[i] = s[i]
      /\ t[Len(s) + 1] = c
  OBVIOUS
<1>. HIDE DEF t
<1>2. ToSet(t) = ToSet(s) \cup {c}
  <2>1. ToSet(t) \subseteq ToSet(s) \cup {c}
    BY <1>1 DEF ToSet
  <2>2. ToSet(s) \subseteq ToSet(t)
    BY <1>1 DEF ToSet
  <2>3. c \in ToSet(t)
    <3>1. Len(s) + 1 \in DOMAIN t
      BY <1>1
    <3>. QED BY <1>1, <3>1 DEF ToSet
  <2>. QED BY <2>1, <2>2, <2>3
<1>3. ASSUME IsInjective(s), c \notin ToSet(s) PROVE IsInjective(t)
  <2> SUFFICES ASSUME NEW a \in DOMAIN t, NEW b \in DOMAIN t, t[a] = t[b] PROVE a = b
    BY DEF IsInjective
  <2>1. \A i \in 1..Len(s) : s[i] # c
    BY <1>1, <1>3 DEF ToSet
  <2>2. \A i, j \in 1..Len(s) : s[i] = s[j] => i = j
    BY <1>1, <1>3 DEF IsInjective
  <2>. QED BY <1>1, <2>1, <2>2
<1>. QED BY <1>2, <1>3 DEF t

(* Filter returns the elements of the sequence that are in the set, and none *)
(* twice that the sequence does not hold twice.                              *)
LEMMA FilterIsPart ==
  ASSUME NEW S, NEW s \in Seq(S), NEW X
  PROVE  /\ Filter(s, X) \in Seq(S)
         /\ ToSet(Filter(s, X)) = ToSet(s) \cap X
         /\ IsInjective(s) => IsInjective(Filter(s, X))
<1> DEFINE N == Len(s)
<1>0. N \in Nat /\ DOMAIN s = 1..N
  OBVIOUS
<1>1. PICK f : /\ f = [i \in 0 .. N |-> IF i = 0 THEN <<>> ELSE Taken(f[i - 1], s[i], X)]
               /\ Filter(s, X) = f[N]
  BY FilterSteps
<1>. HIDE DEF N
<1> DEFINE Good(k) == /\ f[k] \in Seq(S)
                      /\ ToSet(f[k]) = {s[i] : i \in 1..k} \cap X
                      /\ IsInjective(s) => IsInjective(f[k])
           T == {k \in Nat : k \in 0 .. N => Good(k)}
<1>2. 0 \in T
  <2>1. f[0] = <<>>
    BY <1>0, <1>1
  <2>2. ToSet(<<>>) = {} /\ IsInjective(<<>>) /\ <<>> \in Seq(S)
    BY DEF ToSet, IsInjective
  <2>3. {s[i] : i \in 1..0} = {}
    OBVIOUS
  <2>4. Good(0)
    BY <2>1, <2>2, <2>3
  <2>. QED BY <2>4
<1>3. ASSUME NEW k \in Nat, k \in T PROVE k + 1 \in T
  <2> SUFFICES ASSUME k + 1 \in 0 .. N PROVE Good(k + 1)
    OBVIOUS
  <2>1. k \in 0 .. N /\ k + 1 # 0 /\ (k + 1) - 1 = k /\ k + 1 \in 1..N
    BY <1>0
  <2>2. f[k + 1] = Taken(f[k], s[k + 1], X) /\ Good(k)
    BY <1>1, <1>3, <2>1
  <2>3. s[k + 1] \in S
    BY <1>0, <2>1
  <2>4. {s[i] : i \in 1..(k + 1)} = {s[i] : i \in 1..k} \cup {s[k + 1]}
    <3>1. \A i \in 1..(k + 1) : i \in 1..k \/ i = k + 1
      OBVIOUS
    <3>2. k + 1 \in 1..(k + 1) /\ \A i \in 1..k : i \in 1..(k + 1)
      OBVIOUS
    <3>. QED BY <3>1, <3>2
  <2>5. CASE s[k + 1] \in X
    <3>1. f[k + 1] = Append(f[k], s[k + 1])
      BY <2>2, <2>5 DEF Taken
    <3>2. f[k + 1] \in Seq(S)
      BY <2>2, <2>3, <3>1
    <3>3. /\ ToSet(f[k + 1]) = ToSet(f[k]) \cup {s[k + 1]}
          /\ IsInjective(f[k]) /\ s[k + 1] \notin ToSet(f[k]) => IsInjective(f[k + 1])
      BY <2>2, <3>1, AppendedSet
    <3>4. IsInjective(s) => s[k + 1] \notin ToSet(f[k])
      BY <1>0, <2>1, <2>2 DEF IsInjective
    <3>5. ToSet(f[k + 1]) = {s[i] : i \in 1..(k + 1)} \cap X
      BY <2>2, <2>4, <2>5, <3>3
    <3>. QED BY <2>2, <3>2, <3>3, <3>4, <3>5
  <2>6. CASE s[k + 1] \notin X
    <3>1. f[k + 1] = f[k]
      BY <2>2, <2>6 DEF Taken
    <3>2. ToSet(f[k + 1]) = {s[i] : i \in 1..(k + 1)} \cap X
      BY <2>2, <2>4, <2>6, <3>1
    <3>. QED BY <2>2, <3>1, <3>2
  <2>. QED BY <2>5, <2>6
<1>4. Good(N)
  <2>1. N \in T
    <3>. HIDE DEF T
    <3>. QED BY <1>0, <1>2, <1>3, NaturalsInductive
  <2>. QED BY <1>0, <2>1
<1>5. {s[i] : i \in 1..N} = ToSet(s)
  BY <1>0 DEF ToSet
<1>. QED BY <1>1, <1>4, <1>5

(* A piece of a sequence.                                                    *)
LEMMA PieceOf ==
  ASSUME NEW S, NEW s \in Seq(S), NEW a \in Nat, NEW b \in Nat, a > 0, b <= Len(s)
  PROVE  /\ SubSeq(s, a, b) \in Seq(S)
         /\ ToSet(SubSeq(s, a, b)) \subseteq ToSet(s)
         /\ IsInjective(s) => IsInjective(SubSeq(s, a, b))
  BY DEF ToSet, IsInjective

(* A folder that is on the server.                                           *)
Stands(f, h) == f = Account \/ h[f] # Nowhere

(* A way down from the account: the folders on it are on the server, each of a *)
(* higher rank than those before it.                                         *)
IsPath(r, h, p) ==
  /\ p \in Seq(Folders) /\ Len(p) > 0 /\ p[1] = Account
  /\ \A i \in 1..Len(p) : Stands(p[i], h)
  /\ \A i, j \in 1..Len(p) : i < j => r[p[i]] < r[p[j]]

(* A rank that grows along every parent link of the server.                  *)
Graded(r, h) ==
  /\ h \in [Folders -> Folders \cup {Nowhere}] /\ h[Account] = Nowhere
  /\ \E B \in Nat : r \in [Folders -> 0..B]
  /\ \A f \in Folders : h[f] # Nowhere => r[h[f]] < r[f] /\ Stands(h[f], h)

(* The last folder of a path is its highest, and no folder is twice on it.   *)
LEMMA PathFacts ==
  ASSUME NEW r \in [Folders -> Nat], NEW h, NEW p, IsPath(r, h, p)
  PROVE  /\ p \in Seq(Folders) /\ Len(p) \in Nat \ {0} /\ DOMAIN p = 1..Len(p)
         /\ Last(p) \in Folders /\ Last(p) = p[Len(p)] /\ Stands(Last(p), h)
         /\ ~Below(p, Last(p)) /\ IsInjective(p)
<1>1. /\ p \in Seq(Folders) /\ Len(p) \in Nat \ {0} /\ DOMAIN p = 1..Len(p)
      /\ Last(p) \in Folders /\ Last(p) = p[Len(p)] /\ Stands(Last(p), h)
  BY DEF IsPath, Last
<1>2. \A i \in 1..Len(p) : r[p[i]] \in Nat
  BY <1>1
<1>3. \A i \in 1..Len(p) - 1 : i \in 1..Len(p) /\ i < Len(p) /\ Len(p) \in 1..Len(p)
  BY <1>1
<1>4. ~Below(p, Last(p))
  <2>1. \A i \in 1..Len(p) - 1 : r[p[i]] < r[p[Len(p)]]
    BY <1>3 DEF IsPath
  <2>. QED BY <1>1, <1>2, <1>3, <2>1 DEF Below
<1>5. IsInjective(p)
  <2> SUFFICES ASSUME NEW i \in 1..Len(p), NEW j \in 1..Len(p), p[i] = p[j], i # j PROVE FALSE
    BY <1>1 DEF IsInjective
  <2>1. i < j \/ j < i
    BY <1>1
  <2>2. r[p[i]] < r[p[j]] \/ r[p[j]] < r[p[i]]
    BY <2>1 DEF IsPath
  <2>. QED BY <1>2, <2>2
<1>. QED BY <1>1, <1>4, <1>5

(* The account by itself is a way down.                                      *)
LEMMA RootPath ==
  ASSUME NEW r, NEW h, Account \in Folders
  PROVE  IsPath(r, h, <<Account>>) /\ Last(<<Account>>) = Account
<1> DEFINE p == <<Account>>
<1>1. p \in Seq(Folders) /\ Len(p) = 1 /\ p[1] = Account
  OBVIOUS
<1>. HIDE DEF p
<1>2. \A i \in 1..Len(p) : i = 1
  BY <1>1
<1>3. IsPath(r, h, p)
  BY <1>1, <1>2 DEF IsPath, Stands
<1>4. Last(p) = Account
  BY <1>1 DEF Last
<1>. QED BY <1>3, <1>4 DEF p

(* A path and a folder of a higher rank than its last one.                   *)
LEMMA PathGrows ==
  ASSUME NEW r \in [Folders -> Nat], NEW h, NEW p, IsPath(r, h, p),
         NEW c \in Folders, r[Last(p)] < r[c], Stands(c, h)
  PROVE  /\ IsPath(r, h, Append(p, c))
         /\ Last(Append(p, c)) = c /\ Front(Append(p, c)) = p /\ Len(Append(p, c)) = Len(p) + 1
         /\ \A f : Below(Append(p, c), f) <=> Below(p, f) \/ f = Last(p)
<1> DEFINE q == Append(p, c)
           n == Len(p)
<1>1. /\ p \in Seq(Folders) /\ n \in Nat \ {0} /\ DOMAIN p = 1..n
      /\ Last(p) \in Folders /\ Last(p) = p[n]
  BY PathFacts
<1>2. /\ q \in Seq(Folders) /\ Len(q) = n + 1 /\ q[n + 1] = c
      /\ \A i \in 1..n : q[i] = p[i]
  BY <1>1
<1>3. Last(q) = c /\ Front(q) = p
  BY <1>1 DEF Last, Front
<1>. HIDE DEF q, n
<1>4. \A i \in 1..n : r[p[i]] \in Nat /\ r[p[i]] <= r[p[n]]
  <2> SUFFICES ASSUME NEW i \in 1..n PROVE r[p[i]] \in Nat /\ r[p[i]] <= r[p[n]]
    OBVIOUS
  <2>1. r[p[i]] \in Nat /\ r[p[n]] \in Nat
    BY <1>1
  <2>2. i < n => r[p[i]] < r[p[n]]
    BY <1>1 DEF IsPath, n
  <2>. QED BY <1>1, <2>1, <2>2
<1>5. \A i \in 1..n : r[p[i]] < r[c]
  BY <1>1, <1>4
<1>6. \A i, j \in 1..Len(q) : i < j => r[q[i]] < r[q[j]]
  <2> SUFFICES ASSUME NEW i \in 1..Len(q), NEW j \in 1..Len(q), i < j PROVE r[q[i]] < r[q[j]]
    OBVIOUS
  <2>1. i \in 1..n /\ (j \in 1..n \/ j = n + 1)
    BY <1>1, <1>2
  <2>2. CASE j = n + 1
    BY <1>2, <1>5, <2>1, <2>2
  <2>3. CASE j \in 1..n
    BY <1>2, <2>1, <2>3 DEF IsPath, n
  <2>. QED BY <2>1, <2>2, <2>3
<1>7. \A i \in 1..Len(q) : Stands(q[i], h)
  <2> SUFFICES ASSUME NEW i \in 1..Len(q) PROVE Stands(q[i], h)
    OBVIOUS
  <2>1. i \in 1..n \/ i = n + 1
    BY <1>1, <1>2
  <2>. QED BY <1>2, <2>1 DEF IsPath, n
<1>8. q[1] = Account
  BY <1>1, <1>2 DEF IsPath, n
<1>9. IsPath(r, h, q)
  BY <1>1, <1>2, <1>6, <1>7, <1>8 DEF IsPath
<1>10. \A f : Below(q, f) <=> Below(p, f) \/ f = Last(p)
  <2>1. Len(q) - 1 = n /\ \A i \in 1..n : i \in 1..n - 1 \/ i = n
    BY <1>1, <1>2
  <2>2. n \in 1..n /\ \A i \in 1..n - 1 : i \in 1..n
    BY <1>1
  <2>. QED BY <1>1, <1>2, <2>1, <2>2 DEF Below, n
<1>. QED BY <1>2, <1>3, <1>9, <1>10 DEF q, n

(* The ancestors of a folder, as the server finds them.                      *)
OneUp(down, h, g) == IF h[g] = Nowhere THEN <<g>> ELSE Append(down[h[g]], g)

(* The function that Ancestry defines by recursion exists: it can be built one *)
(* rank at a time.                                                           *)
LEMMA AncestrySteps ==
  ASSUME NEW r, NEW h, Graded(r, h), NEW f \in Folders
  PROVE  \E down : /\ \A g \in Folders : down[g] = OneUp(down, h, g)
                   /\ Ancestry(f, h) = down[f]
<1>1. PICK B \in Nat : r \in [Folders -> 0..B]
  BY DEF Graded
<1> DEFINE T == {k \in Nat : \E d : \A g \in Folders : r[g] < k => d[g] = OneUp(d, h, g)}
<1>2. 0 \in T
  BY <1>1
<1>3. ASSUME NEW k \in Nat, k \in T PROVE k + 1 \in T
  <2>1. PICK d : \A g \in Folders : r[g] < k => d[g] = OneUp(d, h, g)
    BY <1>3
  <2> DEFINE e == [g \in Folders |-> IF r[g] < k THEN d[g] ELSE OneUp(d, h, g)]
  <2>2. ASSUME NEW g \in Folders, r[g] < k + 1 PROVE e[g] = OneUp(e, h, g)
    <3>1. e[g] = OneUp(d, h, g)
      BY <2>1
    <3>2. CASE h[g] = Nowhere
      BY <3>1, <3>2 DEF OneUp
    <3>3. CASE h[g] # Nowhere
      <4>1. h[g] \in Folders /\ r[h[g]] < r[g] /\ r[g] \in Nat /\ r[h[g]] \in Nat
        BY <1>1, <3>3 DEF Graded
      <4>2. e[h[g]] = d[h[g]]
        BY <2>2, <4>1
      <4>. QED BY <3>1, <4>2 DEF OneUp
    <3>. QED BY <3>2, <3>3
  <2>. HIDE DEF e
  <2>. QED BY <2>2
<1>4. B + 1 \in T
  <2>. HIDE DEF T
  <2>. QED BY <1>1, <1>2, <1>3, NaturalsInductive
<1>5. PICK d : \A g \in Folders : r[g] < B + 1 => d[g] = OneUp(d, h, g)
  BY <1>4
<1>6. \A g \in Folders : r[g] < B + 1
  BY <1>1
<1> DEFINE Full(e) == e = [g \in Folders |-> IF h[g] = Nowhere THEN <<g>> ELSE Append(e[h[g]], g)]
           full == [g \in Folders |-> d[g]]
<1>7. Full(full)
  <2>1. \A g \in Folders : full[g] = IF h[g] = Nowhere THEN <<g>> ELSE Append(full[h[g]], g)
    <3> SUFFICES ASSUME NEW g \in Folders
                 PROVE  full[g] = IF h[g] = Nowhere THEN <<g>> ELSE Append(full[h[g]], g)
      OBVIOUS
    <3>1. full[g] = IF h[g] = Nowhere THEN <<g>> ELSE Append(d[h[g]], g)
      BY <1>5, <1>6 DEF OneUp
    <3>2. h[g] # Nowhere => h[g] \in Folders
      BY DEF Graded
    <3>. QED BY <3>1, <3>2
  <2>2. full = [g \in Folders |-> full[g]]
    OBVIOUS
  <2>. HIDE DEF full
  <2>. QED BY <2>1, <2>2
<1> DEFINE down == CHOOSE e : Full(e)
<1>8. Full(down)
  <2>. HIDE DEF full
  <2>. QED BY <1>7
<1>9. Ancestry(f, h) = down[f]
  BY DEF Ancestry
<1>. HIDE DEF down
<1>10. \A g \in Folders : down[g] = OneUp(down, h, g)
  BY <1>8 DEF OneUp
<1>. QED BY <1>9, <1>10

(* The ancestors of a folder that is on the server are a path down to it.    *)
LEMMA AncestryIsPath ==
  ASSUME NEW r, NEW h, Graded(r, h), NEW f \in Folders, Stands(f, h), Account \in Folders
  PROVE  IsPath(r, h, Ancestry(f, h)) /\ Last(Ancestry(f, h)) = f
<1>1. PICK down : /\ \A g \in Folders : down[g] = OneUp(down, h, g)
                  /\ Ancestry(f, h) = down[f]
  BY AncestrySteps
<1>2. PICK B \in Nat : r \in [Folders -> 0..B]
  BY DEF Graded
<1>3. r \in [Folders -> Nat]
  BY <1>2
<1> DEFINE T == {k \in Nat : \A g \in Folders : r[g] < k /\ Stands(g, h)
                               => IsPath(r, h, down[g]) /\ Last(down[g]) = g}
<1>4. 0 \in T
  BY <1>3
<1>5. ASSUME NEW k \in Nat, k \in T PROVE k + 1 \in T
  <2> SUFFICES ASSUME NEW g \in Folders, r[g] < k + 1, Stands(g, h)
               PROVE  IsPath(r, h, down[g]) /\ Last(down[g]) = g
    OBVIOUS
  <2>1. CASE h[g] = Nowhere
    <3>1. g = Account
      BY <2>1 DEF Stands
    <3>2. down[g] = <<Account>>
      BY <1>1, <2>1, <3>1 DEF OneUp
    <3>. QED BY <3>1, <3>2, RootPath
  <2>2. CASE h[g] # Nowhere
    <3> DEFINE a == h[g]
    <3>1. a \in Folders /\ r[a] < r[g] /\ Stands(a, h) /\ r[a] \in Nat /\ r[g] \in Nat
      BY <1>3, <2>2 DEF Graded
    <3>2. r[a] < k
      BY <3>1
    <3>3. down[g] = Append(down[a], g)
      BY <1>1, <2>2 DEF OneUp
    <3>. HIDE DEF a
    <3>4. IsPath(r, h, down[a]) /\ Last(down[a]) = a
      BY <1>5, <3>1, <3>2
    <3>. QED BY <1>3, <3>1, <3>3, <3>4, PathGrows
  <2>. QED BY <2>1, <2>2
<1>6. r[f] + 1 \in T
  <2>1. r[f] + 1 \in Nat
    BY <1>3
  <2>. HIDE DEF T
  <2>. QED BY <1>4, <1>5, <2>1, NaturalsInductive
<1>7. r[f] < r[f] + 1
  BY <1>3
<1>. QED BY <1>1, <1>6, <1>7

(* A listing of children of a folder: each once, on the server, of higher rank. *)
Under(r, h, f, kids) ==
  /\ kids \in Seq(Folders) /\ IsInjective(kids)
  /\ \A c \in ToSet(kids) : r[f] < r[c] /\ Stands(c, h)

(* A tree: its nodes are the account and the children of its nodes.          *)
IsTree(r, h, t) ==
  /\ <<Account>> \in DOMAIN t
  /\ \A p \in DOMAIN t : IsPath(r, h, p) /\ Under(r, h, Last(p), t[p])
  /\ \A p \in DOMAIN t : \A c \in ToSet(t[p]) : Append(p, c) \in DOMAIN t
  /\ \A q \in DOMAIN t : q = <<Account>> \/ \E p \in DOMAIN t : \E c \in ToSet(t[p]) : q = Append(p, c)

Homes(h, f, kids) == \A c \in ToSet(kids) : h[c] = f
RightTree(t, h) == \A p \in DOMAIN t : Homes(h, Last(p), t[p])

(* A folder may be shown without children.                                   *)
LEMMA NoChildren ==
  ASSUME NEW r, NEW h, NEW f
  PROVE  ToSet(<<>>) = {} /\ Under(r, h, f, <<>>) /\ Homes(h, f, <<>>)
<1>1. ToSet(<<>>) = {} /\ IsInjective(<<>>) /\ <<>> \in Seq(Folders)
  BY DEF ToSet, IsInjective
<1>. QED BY <1>1 DEF Under, Homes

(* What is in a sequence of folders is a folder.                             *)
LEMMA ListedFolders ==
  ASSUME NEW S, NEW s \in Seq(S)
  PROVE  ToSet(s) \subseteq S
  BY DEF ToSet

(* A child below a node is at a path of its own.                             *)
LEMMA ChildPath ==
  ASSUME NEW r \in [Folders -> Nat], NEW h, NEW p, IsPath(r, h, p),
         NEW kids, Under(r, h, Last(p), kids), NEW c \in ToSet(kids)
  PROVE  /\ c \in Folders /\ IsPath(r, h, Append(p, c))
         /\ Last(Append(p, c)) = c /\ Front(Append(p, c)) = p /\ Len(Append(p, c)) = Len(p) + 1
         /\ \A f : Below(Append(p, c), f) <=> Below(p, f) \/ f = Last(p)
         /\ c # Last(p)
<1>1. c \in Folders /\ r[Last(p)] < r[c] /\ Stands(c, h)
  BY ListedFolders DEF Under
<1>2. Last(p) \in Folders
  BY PathFacts
<1>. QED BY <1>1, <1>2, PathGrows

(* updateNodeChildren keeps a tree a tree.                                   *)
LEMMA WithChildrenIsTree ==
  ASSUME NEW r \in [Folders -> Nat], NEW h, NEW t, IsTree(r, h, t),
         NEW f \in Folders, NEW kids, Under(r, h, f, kids)
  PROVE  /\ IsTree(r, h, WithChildren(f, kids, t))
         /\ RightTree(t, h) /\ Homes(h, f, kids) => RightTree(WithChildren(f, kids, t), h)
<1> DEFINE u == WithChildren(f, kids, t)
           old == {q \in DOMAIN t : ~Below(q, f)}
           new == NewNodes(f, kids, t)
           nodes == NodesOf(f, t)
           value(n) == IF Last(n) = f THEN kids ELSE IF Below(n, f) THEN <<>> ELSE t[n]
<1>1. DOMAIN u = old \cup new /\ \A p \in old \cup new : u[p] = value(p)
  BY DEF WithChildren
<1>2. new = {Append(q, c) : q \in nodes, c \in ToSet(kids)}
  BY DEF NewNodes
<1>3. nodes = {p \in DOMAIN t : Last(p) = f}
  BY DEF NodesOf
<1>4. \A p \in DOMAIN t : IsPath(r, h, p) /\ Under(r, h, Last(p), t[p])
  BY DEF IsTree
<1>5. \A p \in nodes : p \in DOMAIN t /\ Last(p) = f /\ IsPath(r, h, p) /\ ~Below(p, f)
  BY <1>3, <1>4, PathFacts
<1>6. nodes \subseteq old
  BY <1>3, <1>5
<1>7. ASSUME NEW q \in nodes, NEW c \in ToSet(kids)
      PROVE  /\ Append(q, c) \in new /\ IsPath(r, h, Append(q, c)) /\ Last(Append(q, c)) = c
             /\ c # f /\ c \in Folders /\ Below(Append(q, c), f)
  <2>1. IsPath(r, h, q) /\ Last(q) = f
    BY <1>5
  <2>2. /\ c \in Folders /\ IsPath(r, h, Append(q, c)) /\ Last(Append(q, c)) = c /\ c # f
        /\ Below(Append(q, c), f)
    BY <2>1, ChildPath
  <2>. QED BY <1>2, <2>2
<1>. HIDE DEF u, old, new, nodes
<1>8. \A p \in new : \E q \in nodes : \E c \in ToSet(kids) : p = Append(q, c)
  BY <1>2
<1>9. ASSUME NEW p \in new
      PROVE  IsPath(r, h, p) /\ Last(p) # f /\ Below(p, f) /\ value(p) = <<>>
  <2>1. PICK q \in nodes : \E c \in ToSet(kids) : p = Append(q, c)
    BY <1>8
  <2>2. PICK c \in ToSet(kids) : p = Append(q, c)
    BY <2>1
  <2>3. IsPath(r, h, p) /\ Last(p) # f /\ Below(p, f)
    BY <1>7, <2>2
  <2>. QED BY <2>3
<1>10. \A p \in old : p \in DOMAIN t /\ ~Below(p, f)
  BY DEF old
<1>11. \A p \in nodes : u[p] = kids
  BY <1>1, <1>5, <1>6
<1>12. \A p \in new : u[p] = <<>>
  BY <1>1, <1>9
<1>13. \A p \in old \ nodes : Last(p) # f /\ u[p] = t[p]
  BY <1>1, <1>3, <1>10
<1>14. <<Account>> \in DOMAIN u
  <2>1. <<Account>> \in DOMAIN t
    BY DEF IsTree
  <2>2. ~Below(<<Account>>, f)
    BY DEF Below
  <2>. QED BY <1>1, <2>1, <2>2 DEF old
<1>15. \A p \in DOMAIN u : IsPath(r, h, p) /\ Under(r, h, Last(p), u[p])
  <2> SUFFICES ASSUME NEW p \in DOMAIN u PROVE IsPath(r, h, p) /\ Under(r, h, Last(p), u[p])
    OBVIOUS
  <2>1. CASE p \in new
    BY <1>9, <1>12, <2>1, NoChildren
  <2>2. CASE p \in nodes
    BY <1>5, <1>11, <2>2
  <2>3. CASE p \in old \ nodes
    BY <1>4, <1>10, <1>13, <2>3
  <2>. QED BY <1>1, <2>1, <2>2, <2>3
<1>16. \A p \in DOMAIN u : \A c \in ToSet(u[p]) : Append(p, c) \in DOMAIN u
  <2> SUFFICES ASSUME NEW p \in DOMAIN u, NEW c \in ToSet(u[p]) PROVE Append(p, c) \in DOMAIN u
    OBVIOUS
  <2>1. CASE p \in new
    BY <1>12, <2>1, NoChildren
  <2>2. CASE p \in nodes
    BY <1>1, <1>7, <1>11, <2>2
  <2>3. CASE p \in old \ nodes
    <3>1. p \in DOMAIN t /\ ~Below(p, f) /\ Last(p) # f /\ c \in ToSet(t[p])
      BY <1>10, <1>13, <2>3
    <3>2. Append(p, c) \in DOMAIN t
      BY <3>1 DEF IsTree
    <3>3. ~Below(Append(p, c), f)
      BY <1>4, <3>1, ChildPath
    <3>. QED BY <1>1, <3>2, <3>3 DEF old
  <2>. QED BY <1>1, <2>1, <2>2, <2>3
<1>17. \A q \in DOMAIN u : q = <<Account>> \/ \E p \in DOMAIN u : \E c \in ToSet(u[p]) : q = Append(p, c)
  <2> SUFFICES ASSUME NEW q \in DOMAIN u, q # <<Account>>
               PROVE  \E p \in DOMAIN u : \E c \in ToSet(u[p]) : q = Append(p, c)
    OBVIOUS
  <2>1. CASE q \in new
    BY <1>1, <1>6, <1>8, <1>11, <2>1
  <2>2. CASE q \in old
    <3>1. q \in DOMAIN t /\ ~Below(q, f)
      BY <1>10, <2>2
    <3>2. PICK p \in DOMAIN t : \E c \in ToSet(t[p]) : q = Append(p, c)
      BY <3>1 DEF IsTree
    <3>. PICK c \in ToSet(t[p]) : q = Append(p, c)
      BY <3>2
    <3>3. ~Below(p, f) /\ Last(p) # f
      BY <1>4, <3>1, <3>2, ChildPath
    <3>4. p \in old /\ p \notin nodes
      BY <1>5, <3>2, <3>3 DEF old
    <3>. QED BY <1>1, <1>13, <3>2, <3>4
  <2>. QED BY <1>1, <2>1, <2>2
<1>18. IsTree(r, h, u)
  BY <1>14, <1>15, <1>16, <1>17 DEF IsTree
<1>19. ASSUME RightTree(t, h), Homes(h, f, kids) PROVE RightTree(u, h)
  <2> SUFFICES ASSUME NEW p \in DOMAIN u PROVE Homes(h, Last(p), u[p])
    BY DEF RightTree
  <2>1. CASE p \in new
    BY <1>12, <2>1, NoChildren
  <2>2. CASE p \in nodes
    BY <1>5, <1>11, <1>19, <2>2
  <2>3. CASE p \in old \ nodes
    BY <1>10, <1>13, <1>19, <2>3 DEF RightTree
  <2>. QED BY <1>1, <2>1, <2>2, <2>3
<1>. QED BY <1>18, <1>19 DEF u

(* The children shown and those of a further page that are not shown yet.    *)
LEMMA MoreChildren ==
  ASSUME NEW r \in [Folders -> Nat], NEW h, NEW f, NEW shown, NEW kids,
         Under(r, h, f, shown), Under(r, h, f, kids)
  PROVE  LET all == shown \o Filter(kids, Folders \ ToSet(shown))
         IN /\ Under(r, h, f, all) /\ ToSet(all) = ToSet(shown) \cup ToSet(kids)
            /\ Homes(h, f, shown) /\ Homes(h, f, kids) => Homes(h, f, all)
<1> DEFINE some == Filter(kids, Folders \ ToSet(shown))
           all == shown \o some
<1>1. shown \in Seq(Folders) /\ kids \in Seq(Folders) /\ IsInjective(shown) /\ IsInjective(kids)
  BY DEF Under
<1>2. /\ some \in Seq(Folders) /\ IsInjective(some)
      /\ ToSet(some) = ToSet(kids) \cap (Folders \ ToSet(shown))
  BY <1>1, FilterIsPart
<1>. HIDE DEF some
<1>3. /\ all \in Seq(Folders) /\ Len(all) = Len(shown) + Len(some)
      /\ DOMAIN all = 1..(Len(shown) + Len(some))
      /\ \A i \in 1..Len(shown) : all[i] = shown[i]
      /\ \A i \in 1..Len(some) : all[i + Len(shown)] = some[i]
      /\ Len(shown) \in Nat /\ Len(some) \in Nat
      /\ DOMAIN shown = 1..Len(shown) /\ DOMAIN some = 1..Len(some)
  BY <1>1, <1>2
<1>. HIDE DEF all
<1>4. \A i \in DOMAIN all : \/ i \in DOMAIN shown /\ all[i] = shown[i]
                            \/ /\ i - Len(shown) \in DOMAIN some /\ i = (i - Len(shown)) + Len(shown)
                               /\ all[i] = some[i - Len(shown)] /\ i - Len(shown) \in Int
  <2> SUFFICES ASSUME NEW i \in DOMAIN all, i \notin DOMAIN shown
               PROVE  /\ i - Len(shown) \in DOMAIN some /\ i = (i - Len(shown)) + Len(shown)
                      /\ all[i] = some[i - Len(shown)] /\ i - Len(shown) \in Int
    BY <1>3
  <2>1. i - Len(shown) \in DOMAIN some /\ i = (i - Len(shown)) + Len(shown) /\ i - Len(shown) \in Int
    BY <1>3
  <2>. QED BY <1>3, <2>1
<1>5. ToSet(all) \subseteq ToSet(shown) \cup ToSet(some)
  BY <1>4 DEF ToSet
<1>6. ToSet(shown) \cup ToSet(some) \subseteq ToSet(all)
  <2>1. ToSet(shown) \subseteq ToSet(all)
    BY <1>3 DEF ToSet
  <2>2. \A i \in 1..Len(some) : i + Len(shown) \in DOMAIN all
    BY <1>3
  <2>3. ToSet(some) \subseteq ToSet(all)
    BY <1>3, <2>2 DEF ToSet
  <2>. QED BY <2>1, <2>3
<1>7. IsInjective(all)
  <2> SUFFICES ASSUME NEW i \in DOMAIN all, NEW j \in DOMAIN all, all[i] = all[j] PROVE i = j
    BY DEF IsInjective
  <2>1. \A k \in DOMAIN shown : shown[k] \in ToSet(shown)
    BY DEF ToSet
  <2>2. \A k \in DOMAIN some : some[k] \notin ToSet(shown)
    BY <1>2 DEF ToSet
  <2>3. CASE i \in DOMAIN shown /\ j \in DOMAIN shown
    BY <1>1, <1>3, <2>3 DEF IsInjective
  <2>4. CASE i \notin DOMAIN shown /\ j \notin DOMAIN shown
    <3>1. some[i - Len(shown)] = some[j - Len(shown)]
      BY <1>4, <2>4
    <3>2. i - Len(shown) = j - Len(shown)
      BY <1>2, <1>4, <2>4, <3>1 DEF IsInjective
    <3>3. i = (i - Len(shown)) + Len(shown) /\ j = (j - Len(shown)) + Len(shown)
      BY <1>4, <2>4
    <3>. QED BY <3>2, <3>3
  <2>5. CASE i \in DOMAIN shown /\ j \notin DOMAIN shown
    BY <1>3, <1>4, <2>1, <2>2, <2>5
  <2>6. CASE i \notin DOMAIN shown /\ j \in DOMAIN shown
    BY <1>3, <1>4, <2>1, <2>2, <2>6
  <2>. QED BY <2>3, <2>4, <2>5, <2>6
<1>8. ToSet(all) = ToSet(shown) \cup ToSet(kids)
  <2>1. ToSet(kids) \subseteq Folders
    BY <1>1, ListedFolders
  <2>. QED BY <1>2, <1>5, <1>6, <2>1
<1>9. Under(r, h, f, all)
  BY <1>3, <1>7, <1>8 DEF Under
<1>10. Homes(h, f, shown) /\ Homes(h, f, kids) => Homes(h, f, all)
  BY <1>8 DEF Homes
<1>. QED BY <1>8, <1>9, <1>10 DEF all, some

(* appendNodeChildren keeps a tree a tree.                                   *)
LEMMA WithMoreIsTree ==
  ASSUME NEW r \in [Folders -> Nat], NEW h, NEW t, IsTree(r, h, t),
         NEW f \in Folders, NEW kids, Under(r, h, f, kids)
  PROVE  /\ IsTree(r, h, WithMore(f, kids, t))
         /\ RightTree(t, h) /\ Homes(h, f, kids) => RightTree(WithMore(f, kids, t), h)
<1> DEFINE u == WithMore(f, kids, t)
           new == NewNodes(f, kids, t)
           nodes == NodesOf(f, t)
           more(n) == t[n] \o Filter(kids, Folders \ ToSet(t[n]))
<1>1. /\ DOMAIN u = DOMAIN t \cup new
      /\ \A p \in DOMAIN t \cup new :
            u[p] = IF p \notin DOMAIN t THEN <<>> ELSE IF Last(p) = f THEN more(p) ELSE t[p]
  BY DEF WithMore
<1>2. new = {Append(q, c) : q \in nodes, c \in ToSet(kids)}
  BY DEF NewNodes
<1>3. nodes = {p \in DOMAIN t : Last(p) = f}
  BY DEF NodesOf
<1>4. \A p \in DOMAIN t : IsPath(r, h, p) /\ Under(r, h, Last(p), t[p])
  BY DEF IsTree
<1>5. \A p \in nodes : p \in DOMAIN t /\ Last(p) = f /\ IsPath(r, h, p) /\ Under(r, h, f, t[p])
  BY <1>3, <1>4
<1>. HIDE DEF u, new, nodes, more
<1>6. \A p \in new : \E q \in nodes : \E c \in ToSet(kids) : p = Append(q, c)
  BY <1>2
<1>7. ASSUME NEW p \in new PROVE IsPath(r, h, p)
  <2>1. PICK q \in nodes : \E c \in ToSet(kids) : p = Append(q, c)
    BY <1>6
  <2>2. PICK c \in ToSet(kids) : p = Append(q, c)
    BY <2>1
  <2>3. IsPath(r, h, q) /\ Under(r, h, Last(q), kids)
    BY <1>5
  <2>. QED BY <2>2, <2>3, ChildPath
<1>8. \A p \in nodes : u[p] = more(p)
  BY <1>1, <1>5
<1>9. \A p \in new \ DOMAIN t : u[p] = <<>>
  BY <1>1
<1>10. \A p \in DOMAIN t \ nodes : u[p] = t[p]
  BY <1>1, <1>3
<1>11. ASSUME NEW p \in nodes
       PROVE  /\ Under(r, h, f, more(p)) /\ ToSet(more(p)) = ToSet(t[p]) \cup ToSet(kids)
              /\ Homes(h, f, t[p]) /\ Homes(h, f, kids) => Homes(h, f, more(p))
  BY <1>5, MoreChildren DEF more
<1>12. <<Account>> \in DOMAIN u
  BY <1>1 DEF IsTree
<1>13. \A p \in DOMAIN u : IsPath(r, h, p) /\ Under(r, h, Last(p), u[p])
  <2> SUFFICES ASSUME NEW p \in DOMAIN u PROVE IsPath(r, h, p) /\ Under(r, h, Last(p), u[p])
    OBVIOUS
  <2>1. CASE p \in new \ DOMAIN t
    BY <1>7, <1>9, <2>1, NoChildren
  <2>2. CASE p \in nodes
    BY <1>5, <1>8, <1>11, <2>2
  <2>3. CASE p \in DOMAIN t \ nodes
    BY <1>4, <1>10, <2>3
  <2>. QED BY <1>1, <2>1, <2>2, <2>3
<1>14. \A p \in nodes : \A c \in ToSet(more(p)) : Append(p, c) \in DOMAIN u
  <2> SUFFICES ASSUME NEW p \in nodes, NEW c \in ToSet(more(p)) PROVE Append(p, c) \in DOMAIN u
    OBVIOUS
  <2>1. CASE c \in ToSet(t[p])
    BY <1>1, <1>5, <2>1 DEF IsTree
  <2>2. CASE c \in ToSet(kids)
    BY <1>1, <1>2, <2>2
  <2>. QED BY <1>11, <2>1, <2>2
<1>15. \A p \in DOMAIN u : \A c \in ToSet(u[p]) : Append(p, c) \in DOMAIN u
  <2> SUFFICES ASSUME NEW p \in DOMAIN u, NEW c \in ToSet(u[p]) PROVE Append(p, c) \in DOMAIN u
    OBVIOUS
  <2>1. CASE p \in new \ DOMAIN t
    BY <1>9, <2>1, NoChildren
  <2>2. CASE p \in nodes
    BY <1>8, <1>14, <2>2
  <2>3. CASE p \in DOMAIN t \ nodes
    BY <1>1, <1>10, <2>3 DEF IsTree
  <2>. QED BY <1>1, <2>1, <2>2, <2>3
<1>16. \A q \in DOMAIN u : q = <<Account>> \/ \E p \in DOMAIN u : \E c \in ToSet(u[p]) : q = Append(p, c)
  <2> SUFFICES ASSUME NEW q \in DOMAIN u, q # <<Account>>
               PROVE  \E p \in DOMAIN u : \E c \in ToSet(u[p]) : q = Append(p, c)
    OBVIOUS
  <2>1. CASE q \in DOMAIN t
    <3>1. PICK p \in DOMAIN t : \E c \in ToSet(t[p]) : q = Append(p, c)
      BY <2>1 DEF IsTree
    <3>. PICK c \in ToSet(t[p]) : q = Append(p, c)
      BY <3>1
    <3>2. c \in ToSet(u[p])
      BY <1>8, <1>10, <1>11
    <3>. QED BY <1>1, <3>1, <3>2
  <2>2. CASE q \in new
    <3>1. PICK p \in nodes, c \in ToSet(kids) : q = Append(p, c)
      BY <1>6, <2>2
    <3>2. c \in ToSet(u[p])
      BY <1>8, <1>11, <3>1
    <3>. QED BY <1>1, <1>5, <3>1, <3>2
  <2>. QED BY <1>1, <2>1, <2>2
<1>17. IsTree(r, h, u)
  BY <1>12, <1>13, <1>15, <1>16 DEF IsTree
<1>18. ASSUME RightTree(t, h), Homes(h, f, kids) PROVE RightTree(u, h)
  <2> SUFFICES ASSUME NEW p \in DOMAIN u PROVE Homes(h, Last(p), u[p])
    BY DEF RightTree
  <2>1. CASE p \in new \ DOMAIN t
    BY <1>9, <2>1, NoChildren
  <2>2. CASE p \in nodes
    BY <1>5, <1>8, <1>11, <1>18, <2>2 DEF RightTree
  <2>3. CASE p \in DOMAIN t \ nodes
    BY <1>10, <1>18, <2>3 DEF RightTree
  <2>. QED BY <1>1, <2>1, <2>2, <2>3
<1>. QED BY <1>17, <1>18 DEF u

(* The answer to the root request is a tree.                                 *)
LEMMA RootTreeIsTree ==
  ASSUME NEW r \in [Folders -> Nat], NEW h, NEW kids, Under(r, h, Account, kids), Account \in Folders
  PROVE  /\ IsTree(r, h, RootTree(kids))
         /\ Homes(h, Account, kids) => RightTree(RootTree(kids), h)
<1> DEFINE u == RootTree(kids)
           a == <<Account>>
           below == {Append(a, c) : c \in ToSet(kids)}
<1>1. \A c \in ToSet(kids) : <<Account, c>> = Append(a, c)
  OBVIOUS
<1>2. /\ DOMAIN u = {a} \cup below
      /\ \A p \in {a} \cup below : u[p] = IF p = a THEN kids ELSE <<>>
  BY <1>1 DEF RootTree
<1>3. IsPath(r, h, a) /\ Last(a) = Account /\ Len(a) = 1
  BY RootPath
<1>. HIDE DEF u, a
<1>4. ASSUME NEW p \in below PROVE IsPath(r, h, p) /\ p # a
  <2>1. PICK c \in ToSet(kids) : p = Append(a, c)
    OBVIOUS
  <2>2. IsPath(r, h, a) /\ Under(r, h, Last(a), kids)
    BY <1>3
  <2>3. IsPath(r, h, p) /\ Len(p) = Len(a) + 1
    BY <2>1, <2>2, ChildPath
  <2>4. Len(p) = 2 /\ Len(a) = 1
    BY <1>3, <2>3
  <2>5. p # a
    BY <2>4
  <2>. QED BY <2>3, <2>5
<1>5. u[a] = kids /\ \A p \in below : u[p] = <<>>
  <2>. HIDE DEF below
  <2>. QED BY <1>2, <1>4
<1>6. \A p \in DOMAIN u : IsPath(r, h, p) /\ Under(r, h, Last(p), u[p])
  BY <1>2, <1>3, <1>4, <1>5, NoChildren
<1>7. \A p \in DOMAIN u : \A c \in ToSet(u[p]) : Append(p, c) \in DOMAIN u
  BY <1>2, <1>5, NoChildren
<1>8. \A q \in DOMAIN u : q = a \/ \E p \in DOMAIN u : \E c \in ToSet(u[p]) : q = Append(p, c)
  <2> SUFFICES ASSUME NEW q \in below PROVE \E c \in ToSet(u[a]) : q = Append(a, c)
    BY <1>2
  <2>. QED BY <1>5
<1>9. IsTree(r, h, u)
  BY <1>2, <1>6, <1>7, <1>8 DEF IsTree, a
<1>10. Homes(h, Account, kids) => RightTree(u, h)
  BY <1>2, <1>3, <1>5, NoChildren DEF RightTree
<1>. QED BY <1>9, <1>10 DEF u

(* The first folders of a path are a path.                                   *)
LEMMA PathPrefix ==
  ASSUME NEW r \in [Folders -> Nat], NEW h, NEW p, IsPath(r, h, p), NEW i \in 1..Len(p)
  PROVE  /\ IsPath(r, h, SubSeq(p, 1, i)) /\ Last(SubSeq(p, 1, i)) = p[i]
         /\ i = 1 => SubSeq(p, 1, i) = <<Account>>
         /\ i # 1 => i - 1 \in 1..Len(p) /\ SubSeq(p, 1, i) = Append(SubSeq(p, 1, i - 1), p[i])
<1> DEFINE q == SubSeq(p, 1, i)
<1>1. p \in Seq(Folders) /\ Len(p) \in Nat /\ p[1] = Account
  BY DEF IsPath
<1>2. q \in Seq(Folders) /\ Len(q) = i /\ i > 0 /\ \A j \in 1..i : q[j] = p[j] /\ j \in 1..Len(p)
  BY <1>1
<1>3. ASSUME i = 1 PROVE q = <<Account>>
  <2>1. <<Account>> \in Seq(Folders) /\ Len(<<Account>>) = 1 /\ <<Account>>[1] = Account
    <3>1. Account \in Folders
      BY <1>1
    <3>. QED BY <3>1
  <2>2. Len(q) = 1 /\ q[1] = Account
    BY <1>1, <1>2, <1>3
  <2>. HIDE DEF q
  <2>. QED BY <1>2, <2>1, <2>2, SeqEqual
<1>4. i # 1 => i - 1 \in 1..Len(p) /\ q = Append(SubSeq(p, 1, i - 1), p[i])
  BY <1>1
<1>. HIDE DEF q
<1>5. Last(q) = p[i]
  BY <1>2 DEF Last
<1>6. \A j \in 1..Len(q) : Stands(q[j], h)
  BY <1>2 DEF IsPath
<1>7. \A j, k \in 1..Len(q) : j < k => r[q[j]] < r[q[k]]
  BY <1>2 DEF IsPath
<1>8. IsPath(r, h, q)
  BY <1>1, <1>2, <1>6, <1>7 DEF IsPath
<1>. QED BY <1>3, <1>4, <1>5, <1>8 DEF q

(* The answers to a deep link are listings of the folders of its chain.      *)
LinkedUnder(r, h, chain, kids) == \A f \in ToSet(chain) : Under(r, h, f, kids[f])
LinkedHomes(h, chain, kids) == \A f \in ToSet(chain) : Homes(h, f, kids[f])

(* useDeepLink builds a tree.                                                *)
LEMMA LinkTreeIsTree ==
  ASSUME NEW r \in [Folders -> Nat], NEW h, NEW chain, IsPath(r, h, chain),
         NEW kids, LinkedUnder(r, h, chain, kids)
  PROVE  /\ IsTree(r, h, LinkTree(chain, kids))
         /\ LinkedHomes(h, chain, kids) => RightTree(LinkTree(chain, kids), h)
<1> DEFINE far(i) == \A j \in 1..i - 1 : chain[j + 1] \in ToSet(kids[chain[j]])
           paths == {SubSeq(chain, 1, i) : i \in {j \in 1..Len(chain) : far(j)}}
           below == UNION {{Append(q, c) : c \in ToSet(kids[Last(q)])} : q \in paths}
           u == LinkTree(chain, kids)
<1>1. /\ DOMAIN u = paths \cup below
      /\ \A p \in paths \cup below : u[p] = IF p \in paths THEN kids[Last(p)] ELSE <<>>
  BY DEF LinkTree
<1>2. Len(chain) \in Nat \ {0} /\ DOMAIN chain = 1..Len(chain)
  BY PathFacts
<1>3. ASSUME NEW p \in paths
      PROVE  /\ IsPath(r, h, p) /\ Last(p) \in ToSet(chain) /\ Under(r, h, Last(p), kids[Last(p)])
             /\ p = <<Account>> \/ \E q \in paths : \E c \in ToSet(kids[Last(q)]) : p = Append(q, c)
  <2>1. PICK i \in 1..Len(chain) : far(i) /\ p = SubSeq(chain, 1, i)
    OBVIOUS
  <2>2. IsPath(r, h, p) /\ Last(p) = chain[i]
    BY <2>1, PathPrefix
  <2>3. Last(p) \in ToSet(chain)
    BY <1>2, <2>2 DEF ToSet
  <2>4. Under(r, h, Last(p), kids[Last(p)])
    BY <2>3 DEF LinkedUnder
  <2>5. CASE i = 1
    BY <2>1, <2>2, <2>3, <2>4, <2>5, PathPrefix
  <2>6. CASE i # 1
    <3> DEFINE q == SubSeq(chain, 1, i - 1)
    <3>1. i - 1 \in 1..Len(chain) /\ p = Append(q, chain[i])
      BY <2>1, <2>6, PathPrefix
    <3>2. far(i - 1)
      <4>1. \A j \in 1..(i - 1) - 1 : j \in 1..i - 1
        BY <1>2
      <4>. QED BY <2>1, <4>1
    <3>3. q \in paths
      BY <3>1, <3>2
    <3>4. Last(q) = chain[i - 1]
      BY <3>1, PathPrefix
    <3>5. i - 1 \in 1..i - 1 /\ (i - 1) + 1 = i
      BY <1>2, <2>6
    <3>6. chain[i] \in ToSet(kids[Last(q)])
      BY <2>1, <3>4, <3>5
    <3>. HIDE DEF q, paths
    <3>. QED BY <2>2, <2>3, <2>4, <3>1, <3>3, <3>6
  <2>. QED BY <2>5, <2>6
<1>4. <<Account>> \in paths
  <2>1. 1 \in 1..Len(chain)
    BY <1>2
  <2>2. far(1)
    OBVIOUS
  <2>3. SubSeq(chain, 1, 1) = <<Account>>
    BY <2>1, PathPrefix
  <2>4. SubSeq(chain, 1, 1) \in paths
    BY <2>1, <2>2
  <2>. QED BY <2>3, <2>4
<1>. HIDE DEF u, far, paths
<1>5. ASSUME NEW p \in below PROVE IsPath(r, h, p)
  <2>1. PICK q \in paths : \E c \in ToSet(kids[Last(q)]) : p = Append(q, c)
    OBVIOUS
  <2>2. PICK c \in ToSet(kids[Last(q)]) : p = Append(q, c)
    BY <2>1
  <2>. QED BY <1>3, <2>2, ChildPath
<1>6. \A p \in paths : u[p] = kids[Last(p)]
  BY <1>1
<1>7. \A p \in below \ paths : u[p] = <<>>
  BY <1>1
<1>8. \A p \in paths : \A c \in ToSet(kids[Last(p)]) : Append(p, c) \in below
  OBVIOUS
<1>9. \A p \in below : \E q \in paths : \E c \in ToSet(kids[Last(q)]) : p = Append(q, c)
  OBVIOUS
<1>. HIDE DEF below
<1>10. \A p \in DOMAIN u : IsPath(r, h, p) /\ Under(r, h, Last(p), u[p])
  BY <1>1, <1>3, <1>5, <1>6, <1>7, NoChildren
<1>11. \A p \in DOMAIN u : \A c \in ToSet(u[p]) : Append(p, c) \in DOMAIN u
  BY <1>1, <1>6, <1>7, <1>8, NoChildren
<1>12. \A q \in DOMAIN u : q = <<Account>> \/ \E p \in DOMAIN u : \E c \in ToSet(u[p]) : q = Append(p, c)
  <2> SUFFICES ASSUME NEW q \in DOMAIN u, q # <<Account>>
               PROVE  \E p \in DOMAIN u : \E c \in ToSet(u[p]) : q = Append(p, c)
    OBVIOUS
  <2>1. \E p \in paths : \E c \in ToSet(kids[Last(p)]) : q = Append(p, c)
    BY <1>1, <1>3, <1>9
  <2>. QED BY <1>1, <1>6, <2>1
<1>13. IsTree(r, h, u)
  BY <1>1, <1>4, <1>10, <1>11, <1>12 DEF IsTree
<1>14. LinkedHomes(h, chain, kids) => RightTree(u, h)
  BY <1>1, <1>3, <1>6, <1>7, NoChildren DEF RightTree, LinkedHomes
<1>. QED BY <1>13, <1>14 DEF u

(* What a tree is amounts to the first clauses of SidebarTypeOK, and to      *)
(* SiblingsAreUnique and ShownWhereItIs.                                     *)
LEMMA TreeIsWellMade ==
  ASSUME NEW r \in [Folders -> Nat], NEW h, NEW t, IsTree(r, h, t)
  PROVE  /\ \A p \in DOMAIN t : Len(p) > 0 /\ p[1] = Account /\ ToSet(t[p]) \subseteq Folders
         /\ DOMAIN t = {<<Account>>} \cup UNION {{Append(p, c) : c \in ToSet(t[p])} : p \in DOMAIN t}
         /\ \A p \in DOMAIN t : IsInjective(t[p])
<1>1. \A p \in DOMAIN t : Len(p) > 0 /\ p[1] = Account /\ ToSet(t[p]) \subseteq Folders
  BY ListedFolders DEF IsTree, IsPath, Under
<1>2. \A p \in DOMAIN t : IsInjective(t[p])
  BY DEF IsTree, Under
<1>3. DOMAIN t = {<<Account>>} \cup UNION {{Append(p, c) : c \in ToSet(t[p])} : p \in DOMAIN t}
  <2>1. ASSUME NEW q \in DOMAIN t, q # <<Account>>
        PROVE  q \in UNION {{Append(p, c) : c \in ToSet(t[p])} : p \in DOMAIN t}
    <3>1. PICK p \in DOMAIN t : \E c \in ToSet(t[p]) : q = Append(p, c)
      BY <2>1 DEF IsTree
    <3>2. q \in {Append(p, c) : c \in ToSet(t[p])}
      BY <3>1
    <3>. QED BY <3>2
  <2>2. ASSUME NEW q \in UNION {{Append(p, c) : c \in ToSet(t[p])} : p \in DOMAIN t}
        PROVE  q \in DOMAIN t
    <3>1. PICK p \in DOMAIN t : q \in {Append(p, c) : c \in ToSet(t[p])}
      OBVIOUS
    <3>2. PICK c \in ToSet(t[p]) : q = Append(p, c)
      BY <3>1
    <3>. QED BY <3>2 DEF IsTree
  <2>3. <<Account>> \in DOMAIN t
    BY DEF IsTree
  <2>. QED BY <2>1, <2>2, <2>3
<1>. QED BY <1>1, <1>2, <1>3

(* What may change between two states of the server: no folder goes, and none *)
(* that is there changes its rank.                                           *)
Carries(r, h, r2, h2) == \A f \in Folders : Stands(f, h) => Stands(f, h2) /\ r2[f] = r[f]

(* The folders of a way down are folders of the server.                      *)
LEMMA PathOnServer ==
  ASSUME NEW r, NEW h, NEW p, IsPath(r, h, p)
  PROVE  \A f \in ToSet(p) : f \in Folders /\ Stands(f, h)
<1>1. p \in Seq(Folders) /\ \A i \in 1..Len(p) : Stands(p[i], h)
  BY DEF IsPath
<1>2. DOMAIN p = 1..Len(p) /\ \A i \in 1..Len(p) : p[i] \in Folders
  BY <1>1
<1>. QED BY <1>1, <1>2 DEF ToSet

(* A way down is one on a later state of the server.                         *)
LEMMA PathCarried ==
  ASSUME NEW r \in [Folders -> Nat], NEW h, NEW r2 \in [Folders -> Nat], NEW h2, Carries(r, h, r2, h2),
         NEW p, IsPath(r, h, p)
  PROVE  IsPath(r2, h2, p)
<1>1. p \in Seq(Folders) /\ \A i \in 1..Len(p) : p[i] \in Folders /\ Stands(p[i], h)
  BY DEF IsPath
<1>2. \A i \in 1..Len(p) : Stands(p[i], h2) /\ r2[p[i]] = r[p[i]]
  BY <1>1 DEF Carries
<1>. QED BY <1>2 DEF IsPath

(* So is a listing of children.                                              *)
LEMMA UnderCarried ==
  ASSUME NEW r \in [Folders -> Nat], NEW h, NEW r2 \in [Folders -> Nat], NEW h2, Carries(r, h, r2, h2),
         NEW f \in Folders, Stands(f, h), NEW kids, Under(r, h, f, kids)
  PROVE  Under(r2, h2, f, kids)
<1>1. ToSet(kids) \subseteq Folders
  BY ListedFolders DEF Under
<1>2. \A c \in ToSet(kids) : r2[f] < r2[c] /\ Stands(c, h2)
  BY <1>1 DEF Carries, Under
<1>. QED BY <1>2 DEF Under

(* And so is the tree.                                                       *)
LEMMA TreeCarried ==
  ASSUME NEW r \in [Folders -> Nat], NEW h, NEW r2 \in [Folders -> Nat], NEW h2, Carries(r, h, r2, h2),
         NEW t, IsTree(r, h, t)
  PROVE  IsTree(r2, h2, t)
<1>1. ASSUME NEW p \in DOMAIN t PROVE IsPath(r2, h2, p) /\ Under(r2, h2, Last(p), t[p])
  <2>1. IsPath(r, h, p) /\ Under(r, h, Last(p), t[p])
    BY DEF IsTree
  <2>2. Last(p) \in Folders /\ Stands(Last(p), h)
    BY <2>1, PathFacts
  <2>. QED BY <2>1, <2>2, PathCarried, UnderCarried
<1>. QED BY <1>1 DEF IsTree

-----------------------------------------------------------------------------
(* What the server lists of a folder, and a page of it.                      *)
LEMMA ChildrenAreUnder ==
  ASSUME SidebarAssumption, NEW r, NEW h, Graded(r, h), NEW f \in Folders
  PROVE  Under(r, h, f, Children(f, h)) /\ Homes(h, f, Children(f, h))
<1>1. Listed \in Seq(Folders) /\ IsInjective(Listed) /\ Nowhere \notin Folders
  BY DEF SidebarAssumption
<1>2. /\ Children(f, h) \in Seq(Folders) /\ IsInjective(Children(f, h))
      /\ ToSet(Children(f, h)) = ToSet(Listed) \cap {c \in Folders : h[c] = f}
  BY <1>1, FilterIsPart DEF Children
<1>3. \A c \in Folders : h[c] = f => r[f] < r[c] /\ Stands(c, h)
  BY <1>1 DEF Graded, Stands
<1>. QED BY <1>2, <1>3 DEF Under, Homes

PageMark == [page : Nat, more : BOOLEAN]

(* A page of a listing is a listing.                                         *)
LEMMA PageIsUnder ==
  ASSUME SidebarAssumption, NEW r, NEW h, Graded(r, h), NEW f \in Folders, NEW n \in Nat \ {0}
  PROVE  /\ Under(r, h, f, PageOf(f, n, h).kids) /\ Homes(h, f, PageOf(f, n, h).kids)
         /\ PageOf(f, n, h).at \in PageMark
<1> DEFINE all == Children(f, h)
           a == (n - 1) * PerPage + 1
           b == IF n * PerPage < Len(all) THEN n * PerPage ELSE Len(all)
           page == SubSeq(all, a, b)
<1>1. Under(r, h, f, all) /\ Homes(h, f, all)
  BY ChildrenAreUnder
<1>2. PerPage \in Nat \ {0}
  BY DEF SidebarAssumption
<1>3. all \in Seq(Folders) /\ Len(all) \in Nat
  BY <1>1 DEF Under
<1>4. n - 1 \in Nat /\ (n - 1) * PerPage \in Nat /\ n * PerPage \in Nat
  BY <1>2
<1>5. a \in Nat /\ a > 0 /\ b \in Nat /\ b <= Len(all)
  <2> DEFINE x == (n - 1) * PerPage
             y == n * PerPage
  <2>1. x \in Nat /\ y \in Nat
    BY <1>4
  <2>2. a = x + 1 /\ b = IF y < Len(all) THEN y ELSE Len(all)
    OBVIOUS
  <2>. HIDE DEF x, y, a, b, all
  <2>. QED BY <1>3, <2>1, <2>2
<1>6. PageOf(f, n, h) = [kids |-> page, at |-> [page |-> n, more |-> Len(all) > n * PerPage]]
  BY DEF PageOf
<1>. HIDE DEF all, a, b
<1>7. page \in Seq(Folders) /\ ToSet(page) \subseteq ToSet(all) /\ IsInjective(page)
  BY <1>1, <1>3, <1>5, PieceOf DEF Under
<1>8. Under(r, h, f, page) /\ Homes(h, f, page)
  BY <1>1, <1>7 DEF Under, Homes
<1>9. [page |-> n, more |-> Len(all) > n * PerPage] \in PageMark
  BY DEF PageMark
<1>. HIDE DEF page
<1>. QED BY <1>6, <1>8, <1>9

-----------------------------------------------------------------------------
(* Requests of listings, of folders on the server.                           *)
Query(h) == [do : {"load", "more", "root"}, of : {f \in Folders : Stands(f, h)}, page : Nat \ {0}]

AnswerFits(r, h, q, g) ==
  IF q.do = "root" THEN Under(r, h, Account, g)
  ELSE Under(r, h, q.of, g.kids) /\ g.at \in PageMark

(* A handler that lists folders, one after another.                          *)
Listing(r, h, w) ==
  /\ w.todo \in Seq(Query(h)) /\ w.todo # <<>>
  /\ \/ w.at = "sent" /\ w.got = <<>>
     \/ w.at = "read" /\ w.got = <<w.got[1]>> /\ AnswerFits(r, h, Head(w.todo), w.got[1])

(* A deep link that asks for the chain of a folder ...                       *)
Chaining(r, h, w) ==
  /\ \E f \in Folders : /\ Stands(f, h)
                        /\ w.todo = <<Request("chain", f, 1), Request("link", f, 1)>>
  /\ \/ w.at = "sent" /\ w.got = <<>>
     \/ w.at = "read" /\ w.got = <<w.got[1]>> /\ IsPath(r, h, w.got[1])

(* ... and then for the children of all folders on it.                       *)
Linking(r, h, w) ==
  /\ \E f \in Folders : w.todo = <<Request("link", f, 1)>>
  /\ IsPath(r, h, w.got[1])
  /\ \/ w.at = "sent" /\ w.got = <<w.got[1]>>
     \/ w.at = "read" /\ w.got = <<w.got[1], w.got[2]>> /\ LinkedUnder(r, h, w.got[1], w.got[2])

Going(r, h, w) ==
  \/ w = Quiet
  \/ /\ w = [todo |-> w.todo, at |-> w.at, got |-> w.got]
     /\ Listing(r, h, w) \/ Chaining(r, h, w) \/ Linking(r, h, w)

(* The answer a handler has is what the server would answer now.             *)
UpToDate(h, w) ==
  w.at = "read" =>
    /\ Head(w.todo).do = "root" => Homes(h, Account, Last(w.got))
    /\ Head(w.todo).do \in {"load", "more"} => Homes(h, Head(w.todo).of, Last(w.got).kids)
    /\ Head(w.todo).do = "link" => LinkedHomes(h, w.got[1], Last(w.got))

(* A handler between requests has none left.                                 *)
LEMMA GoingTyped ==
  ASSUME NEW r, NEW h, NEW w, Going(r, h, w)
  PROVE  /\ w.at \in {"none", "sent", "read"}
         /\ w.todo = <<>> <=> w.at = "none"
         /\ w.todo = <<>> => w = Quiet
         /\ w.todo # <<>> => \/ Listing(r, h, w) /\ Head(w.todo) \in Query(h)
                             \/ Chaining(r, h, w) /\ Head(w.todo).do = "chain"
                             \/ Linking(r, h, w) /\ Head(w.todo).do = "link"
<1>1. CASE w = Quiet
  BY <1>1 DEF Quiet
<1>2. CASE Listing(r, h, w)
  <2>1. Head(w.todo) \in Query(h)
    BY <1>2 DEF Listing
  <2>. QED BY <1>2, <2>1 DEF Listing
<1>3. CASE Chaining(r, h, w)
  <2>1. PICK f \in Folders : w.todo = <<Request("chain", f, 1), Request("link", f, 1)>>
    BY <1>3 DEF Chaining
  <2>2. w.todo # <<>> /\ Head(w.todo).do = "chain"
    BY <2>1 DEF Request
  <2>. QED BY <1>3, <2>2 DEF Chaining
<1>4. CASE Linking(r, h, w)
  <2>1. PICK f \in Folders : w.todo = <<Request("link", f, 1)>>
    BY <1>4 DEF Linking
  <2>2. w.todo # <<>> /\ Head(w.todo).do = "link"
    BY <2>1 DEF Request
  <2>. QED BY <1>4, <2>2 DEF Linking
<1>. QED BY <1>1, <1>2, <1>3, <1>4 DEF Going

(* The handlers of a state are those of a later state of the server.         *)
LEMMA GoingCarried ==
  ASSUME NEW r \in [Folders -> Nat], NEW h, NEW r2 \in [Folders -> Nat], NEW h2, Carries(r, h, r2, h2),
         NEW w, Going(r, h, w), Account \in Folders
  PROVE  Going(r2, h2, w)
<1>1. Query(h) \subseteq Query(h2)
  BY DEF Query, Carries
<1>2. Seq(Query(h)) \subseteq Seq(Query(h2))
  BY <1>1
<1>3. CASE Listing(r, h, w)
  <2>1. w.todo \in Seq(Query(h2))
    BY <1>2, <1>3 DEF Listing
  <2>2. Head(w.todo) \in Query(h)
    BY <1>3 DEF Listing
  <2>3. Head(w.todo).of \in Folders /\ Stands(Head(w.todo).of, h) /\ Stands(Account, h)
    BY <2>2 DEF Query, Stands
  <2>4. ASSUME NEW g, AnswerFits(r, h, Head(w.todo), g) PROVE AnswerFits(r2, h2, Head(w.todo), g)
    BY <2>3, <2>4, UnderCarried DEF AnswerFits
  <2>. QED BY <1>3, <2>1, <2>4 DEF Listing, Going, Quiet
<1>4. CASE Chaining(r, h, w)
  <2>1. \E f \in Folders : /\ Stands(f, h2)
                           /\ w.todo = <<Request("chain", f, 1), Request("link", f, 1)>>
    BY <1>4 DEF Chaining, Carries
  <2>2. IsPath(r, h, w.got[1]) => IsPath(r2, h2, w.got[1])
    BY PathCarried
  <2>3. Chaining(r2, h2, w)
    BY <1>4, <2>1, <2>2 DEF Chaining
  <2>. QED BY <2>3, <1>4 DEF Going, Chaining, Quiet
<1>5. CASE Linking(r, h, w)
  <2>1. IsPath(r, h, w.got[1]) /\ IsPath(r2, h2, w.got[1])
    BY <1>5, PathCarried DEF Linking
  <2>2. \A f \in ToSet(w.got[1]) : f \in Folders /\ Stands(f, h)
    BY <2>1, PathOnServer
  <2>3. ASSUME NEW g, LinkedUnder(r, h, w.got[1], g) PROVE LinkedUnder(r2, h2, w.got[1], g)
    BY <2>2, <2>3, UnderCarried DEF LinkedUnder
  <2>4. Linking(r2, h2, w)
    BY <1>5, <2>1, <2>3 DEF Linking
  <2>. QED BY <2>4, <1>5 DEF Going, Linking, Quiet
<1>6. CASE w = Quiet
  BY <1>6 DEF Going
<1>. QED BY <1>3, <1>4, <1>5, <1>6 DEF Going

(* Requests for the children of folders that are on the server.              *)
LEMMA LoadsAsk ==
  ASSUME NEW h, NEW fs \in Seq(Folders), \A f \in ToSet(fs) : Stands(f, h)
  PROVE  Loads(fs) \in Seq(Query(h))
<1>1. Len(fs) \in Nat /\ DOMAIN fs = 1..Len(fs) /\ \A i \in 1..Len(fs) : fs[i] \in Folders
  OBVIOUS
<1>2. \A i \in 1..Len(fs) : Request("load", fs[i], 1) \in Query(h)
  BY <1>1 DEF Request, Query, ToSet
<1>. QED BY <1>1, <1>2 DEF Loads

(* A handler that starts with requests of listings.                          *)
LEMMA SentGoes ==
  ASSUME NEW r, NEW h, NEW todo \in Seq(Query(h))
  PROVE  /\ Going(r, h, Sent(todo)) /\ UpToDate(h, Sent(todo)) /\ Sent(todo).todo = todo
         /\ Spins(todo) \subseteq Folders
<1>1. CASE todo = <<>>
  BY <1>1 DEF Sent, Quiet, Going, UpToDate, Spins
<1>2. CASE todo # <<>>
  <2>1. Sent(todo) = [todo |-> todo, at |-> "sent", got |-> <<>>]
    BY <1>2 DEF Sent, Quiet
  <2>2. Listing(r, h, Sent(todo))
    BY <1>2, <2>1 DEF Listing
  <2>3. Head(todo) \in Query(h)
    BY <1>2
  <2>4. Spins(todo) \subseteq Folders
    BY <1>2, <2>3 DEF Spins, Query
  <2>. QED BY <2>1, <2>2, <2>4 DEF Going, UpToDate
<1>. QED BY <1>1, <1>2

(* Nothing is left of a listing handler but requests of listings.            *)
LEMMA LeftGoes ==
  ASSUME NEW r, NEW h, NEW w, Listing(r, h, w)
  PROVE  Tail(w.todo) \in Seq(Query(h)) /\ <<>> \in Seq(Query(h))
  BY DEF Listing

(* A deep link that starts.                                                  *)
LEMMA LinkGoes ==
  ASSUME NEW r, NEW h, NEW f \in Folders, Stands(f, h)
  PROVE  LET todo == <<Request("chain", f, 1), Request("link", f, 1)>>
         IN /\ Going(r, h, Sent(todo)) /\ UpToDate(h, Sent(todo)) /\ Sent(todo).todo = todo
            /\ Spins(todo) = {}
<1> DEFINE todo == <<Request("chain", f, 1), Request("link", f, 1)>>
<1>1. todo # <<>> /\ Head(todo).do = "chain"
  BY DEF Request
<1>2. Spins(todo) = {}
  BY <1>1 DEF Spins
<1>3. Sent(todo) = [todo |-> todo, at |-> "sent", got |-> <<>>]
  BY <1>1 DEF Sent, Quiet
<1>4. Chaining(r, h, Sent(todo))
  BY <1>3 DEF Chaining
<1>. QED BY <1>2, <1>3, <1>4 DEF Going, UpToDate

(* A second element makes a pair.                                            *)
LEMMA TwoAppended ==
  ASSUME NEW a, NEW b
  PROVE  Append(<<a>>, b) = <<a, b>>
<1>1. <<a>> \in Seq({a, b}) /\ b \in {a, b} /\ <<a, b>> \in Seq({a, b})
  OBVIOUS
<1>2. /\ Append(<<a>>, b) \in Seq({a, b}) /\ Len(Append(<<a>>, b)) = 2 /\ Len(<<a, b>>) = 2
      /\ Append(<<a>>, b)[1] = a /\ Append(<<a>>, b)[2] = b /\ <<a, b>>[1] = a /\ <<a, b>>[2] = b
  BY <1>1
<1>3. \A i \in 1..2 : i = 1 \/ i = 2
  OBVIOUS
<1>. QED BY <1>1, <1>2, <1>3, SeqEqual

(* A handler is a record of its requests, where it is with the first of them, *)
(* and what it was answered.                                                 *)
LEMMA HandlerRecord ==
  ASSUME NEW a, NEW b, NEW c, NEW w \in [todo : {a}, at : {b}, got : {c}]
  PROVE  w = [todo |-> a, at |-> b, got |-> c]
  OBVIOUS

(* A deep link whose chain is known.                                         *)
LEMMA ChainGoes ==
  ASSUME NEW r, NEW h, NEW w, w = [todo |-> w.todo, at |-> w.at, got |-> w.got],
         Chaining(r, h, w), w.at = "read"
  PROVE  LET v == [w EXCEPT !.todo = Tail(@), !.at = "sent"]
         IN Going(r, h, v) /\ UpToDate(h, v)
<1> DEFINE v == [w EXCEPT !.todo = Tail(@), !.at = "sent"]
<1>1. PICK f \in Folders : w.todo = <<Request("chain", f, 1), Request("link", f, 1)>>
  BY DEF Chaining
<1>2. Tail(w.todo) = <<Request("link", f, 1)>>
  BY <1>1
<1>3. v = [todo |-> <<Request("link", f, 1)>>, at |-> "sent", got |-> w.got]
  <2>1. w \in [todo : {w.todo}, at : {w.at}, got : {w.got}]
    OBVIOUS
  <2>2. v \in [todo : {Tail(w.todo)}, at : {"sent"}, got : {w.got}]
    BY <2>1
  <2>. HIDE DEF v
  <2>. QED BY <1>2, <2>2, HandlerRecord
<1>4. w.got = <<w.got[1]>> /\ IsPath(r, h, w.got[1])
  BY DEF Chaining
<1>. HIDE DEF v
<1>5. Linking(r, h, v)
  BY <1>3, <1>4 DEF Linking
<1>6. Going(r, h, v) /\ UpToDate(h, v)
  BY <1>3, <1>5 DEF Going, UpToDate
<1>. QED BY <1>6 DEF v

(* The answer of the server to the first request of a handler.               *)
ReplyTo(w, h) ==
  LET r == Head(w.todo)
  IN CASE r.do = "root" -> Children(Account, h)
       [] r.do = "chain" -> Ancestry(r.of, h)
       [] r.do = "link" -> [f \in ToSet(Head(w.got)) |-> PageOf(f, 1, h).kids]
       [] OTHER -> PageOf(r.of, r.page, h)

(* A request that the server reads now has the answer it would give now.     *)
LEMMA ReadGoes ==
  ASSUME SidebarAssumption, NEW r, NEW h, Graded(r, h), NEW w, Going(r, h, w), w.at = "sent",
         NEW g, g = ReplyTo(w, h),
         NEW v, v = [todo |-> w.todo, at |-> "read", got |-> Append(w.got, g)]
  PROVE  Going(r, h, v) /\ UpToDate(h, v) /\ v.todo = w.todo
<1> DEFINE q == Head(w.todo)
<1>0. Account \in Folders
  BY DEF SidebarAssumption
<1>1. w.todo # <<>>
  BY GoingTyped DEF Going, Quiet
<1>2. v = [todo |-> w.todo, at |-> "read", got |-> Append(w.got, g)]
  OBVIOUS
<1>3. CASE Listing(r, h, w)
  <2>1. w.got = <<>> /\ q \in Query(h)
    BY <1>3 DEF Listing
  <2>2. Append(w.got, g) = <<g>> /\ <<g>>[1] = g /\ Last(<<g>>) = g
    BY <2>1 DEF Last
  <2>3. q.do \in {"load", "more", "root"} /\ q.of \in Folders /\ q.page \in Nat \ {0}
    BY <2>1 DEF Query
  <2>4. CASE q.do = "root"
    <3>1. g = Children(Account, h)
      BY <2>4 DEF ReplyTo
    <3>2. Under(r, h, Account, g) /\ Homes(h, Account, g)
      <4>1. Under(r, h, Account, Children(Account, h)) /\ Homes(h, Account, Children(Account, h))
        BY <1>0, ChildrenAreUnder
      <4>. QED BY <3>1, <4>1
    <3>3. AnswerFits(r, h, q, g)
      BY <2>4, <3>2 DEF AnswerFits
    <3>4. Listing(r, h, v)
      BY <1>2, <1>3, <2>2, <3>3 DEF Listing
    <3>. QED BY <1>2, <2>2, <2>4, <3>2, <3>4 DEF Going, UpToDate
  <2>5. CASE q.do # "root"
    <3>1. g = PageOf(q.of, q.page, h)
      BY <2>3, <2>5 DEF ReplyTo
    <3>2. Under(r, h, q.of, g.kids) /\ Homes(h, q.of, g.kids) /\ g.at \in PageMark
      BY <2>3, <3>1, PageIsUnder
    <3>3. AnswerFits(r, h, q, g)
      BY <2>5, <3>2 DEF AnswerFits
    <3>4. Listing(r, h, v)
      BY <1>2, <1>3, <2>2, <3>3 DEF Listing
    <3>. QED BY <1>2, <2>2, <2>3, <2>5, <3>2, <3>4 DEF Going, UpToDate
  <2>. QED BY <2>4, <2>5
<1>4. CASE Chaining(r, h, w)
  <2>1. PICK f \in Folders : Stands(f, h) /\ w.todo = <<Request("chain", f, 1), Request("link", f, 1)>>
    BY <1>4 DEF Chaining
  <2>2. q.do = "chain" /\ q.of = f /\ w.got = <<>>
    BY <1>4, <2>1 DEF Request, Chaining
  <2>3. g = Ancestry(f, h)
    BY <2>2 DEF ReplyTo
  <2>4. IsPath(r, h, g)
    BY <1>0, <2>1, <2>3, AncestryIsPath
  <2>5. Append(w.got, g) = <<g>> /\ <<g>>[1] = g
    BY <2>2
  <2>6. Chaining(r, h, v)
    BY <1>2, <1>4, <2>4, <2>5 DEF Chaining
  <2>. QED BY <1>2, <2>2, <2>6 DEF Going, UpToDate
<1>5. CASE Linking(r, h, w)
  <2>1. PICK f \in Folders : w.todo = <<Request("link", f, 1)>>
    BY <1>5 DEF Linking
  <2> DEFINE chain == w.got[1]
  <2>2. q.do = "link" /\ w.got = <<chain>> /\ IsPath(r, h, chain) /\ Head(w.got) = chain
    BY <1>5, <2>1 DEF Request, Linking
  <2>3. g = [x \in ToSet(chain) |-> PageOf(x, 1, h).kids]
    BY <2>2 DEF ReplyTo
  <2>4. \A x \in ToSet(chain) : x \in Folders
    BY <2>2, PathOnServer
  <2>5. LinkedUnder(r, h, chain, g) /\ LinkedHomes(h, chain, g)
    <3>1. 1 \in Nat \ {0}
      OBVIOUS
    <3>2. ASSUME NEW x \in ToSet(chain) PROVE Under(r, h, x, g[x]) /\ Homes(h, x, g[x])
      BY <2>3, <2>4, <3>1, PageIsUnder
    <3>. QED BY <3>2 DEF LinkedUnder, LinkedHomes
  <2>. HIDE DEF chain
  <2>6. Append(w.got, g) = <<chain, g>>
    BY <2>2, TwoAppended
  <2>7. <<chain, g>>[1] = chain /\ <<chain, g>>[2] = g /\ Last(<<chain, g>>) = g
    BY DEF Last
  <2>8. Linking(r, h, v)
    BY <1>2, <2>1, <2>2, <2>5, <2>6, <2>7 DEF Linking
  <2>9. v.todo = w.todo /\ v.got = <<chain, g>> /\ v.got[1] = chain /\ Last(v.got) = g
    BY <1>2, <2>6, <2>7
  <2>10. UpToDate(h, v)
    BY <2>2, <2>5, <2>9 DEF UpToDate
  <2>11. Going(r, h, v)
    BY <1>2, <2>8 DEF Going
  <2>. QED BY <2>9, <2>10, <2>11
<1>. QED BY <1>1, <1>3, <1>4, <1>5, GoingTyped

(* The server: the trash is below every folder it may receive, and each folder *)
(* may go back to where it was at first.                                     *)
Served(r, h) ==
  /\ Graded(r, h) /\ Stands(Bin, h)
  /\ \A f \in Folders \ {Account, Bin} : r[Bin] < r[f]
  /\ \A f \in Folders : FirstHome[f] # Nowhere =>
       h[f] # Nowhere /\ r[FirstHome[f]] < r[f] /\ Stands(FirstHome[f], h)

(* What the browser keeps beside the tree.                                   *)
Marks ==
  /\ expanded \in Seq(Folders) /\ IsInjective(expanded)
  /\ loaded \subseteq Folders /\ loading \subseteq Folders
  /\ selected \in Folders /\ Stands(selected, home)
  /\ paging \in [Folders -> PageMark]
  /\ handler = [o \in Handlers |-> handler[o]]
  /\ patient \in BOOLEAN /\ failures \in Nat

(* The tree is about to be replaced by that of the server.                   *)
RootAsked == \E o \in Handlers : handler[o].todo # <<>> /\ Head(handler[o].todo).do = "root"

(* While nothing fails, a user who waits has answers and a tree of the server *)
(* as it is, or a refresh of the tree under way.                             *)
Timely ==
  patient /\ failures = 0 =>
    /\ \A o \in Handlers : UpToDate(home, handler[o])
    /\ RightTree(tree, home) \/ RootAsked

Held(r) ==
  /\ Served(r, home) /\ IsTree(r, home, tree)
  /\ \A o \in Handlers : Going(r, home, handler[o])
  /\ Marks /\ Timely

(* What SidebarIsRight needs to be inductive: some rank of the folders grows *)
(* along every parent link, way down the tree and pending answer.            *)
SidebarInv == \E r : Held(r)

(* A rank is a number for each folder.                                       *)
LEMMA GradedRank ==
  ASSUME NEW r, NEW h, Graded(r, h)
  PROVE  r \in [Folders -> Nat]
<1>1. PICK B \in Nat : r \in [Folders -> 0..B]
  BY DEF Graded
<1>. QED BY <1>1

(* What is held implies what is to be shown.                                 *)
LEMMA SidebarInvImplies ==
  ASSUME SidebarInv
  PROVE  SidebarIsRight
<1>1. PICK r : Held(r)
  BY DEF SidebarInv
<1>2. r \in [Folders -> Nat] /\ IsTree(r, home, tree) /\ home \in [Folders -> Folders \cup {Nowhere}]
  BY <1>1, GradedRank DEF Held, Served, Graded
<1>3. \A o \in Handlers : Going(r, home, handler[o])
  BY <1>1 DEF Held
<1>4. \A o \in Handlers : handler[o].at \in {"none", "sent", "read"}
  BY <1>3, GoingTyped
<1>5. SidebarTypeOK
  <2>1. Marks
    BY <1>1 DEF Held
  <2>2. ToSet(expanded) \subseteq Folders
    BY <2>1, ListedFolders DEF Marks
  <2>. QED BY <1>2, <1>4, <2>1, <2>2, TreeIsWellMade DEF SidebarTypeOK, Marks
<1>6. SiblingsAreUnique
  BY <1>2, TreeIsWellMade DEF SiblingsAreUnique
<1>7. ShownWhereItIs
  <2> SUFFICES ASSUME patient, AtRest, failures = 0
               PROVE  \A p \in DOMAIN tree : \A c \in ToSet(tree[p]) : home[c] = Last(p)
    BY DEF ShownWhereItIs
  <2>1. \A o \in Handlers : handler[o].todo = <<>>
    BY DEF AtRest, Idle
  <2>2. ~RootAsked
    BY <2>1 DEF RootAsked
  <2>3. RightTree(tree, home)
    BY <1>1, <2>2 DEF Held, Timely
  <2>. QED BY <2>3 DEF RightTree, Homes
<1>. QED BY <1>5, <1>6, <1>7 DEF SidebarIsRight

-----------------------------------------------------------------------------
(* The tree that is shown first is that of the server.                       *)
LEMMA SidebarInitHolds ==
  ASSUME SidebarAssumption, SidebarInit
  PROVE  SidebarInv
<1> DEFINE C == Cardinality(Folders)
           h == FirstHome
<1>0. /\ Account \in Folders /\ Bin \in Folders /\ Account # Bin /\ Nowhere \notin Folders
      /\ h \in [Folders -> Folders \cup {Nowhere}] /\ h[Account] = Nowhere /\ h[Bin] = Account
  BY DEF SidebarAssumption
<1>1. C \in Nat
  BY FS_CardinalityType DEF SidebarAssumption
<1>. HIDE DEF C
<1>2. PICK depth \in [Folders -> 0..C] :
        \A f \in Folders : h[f] # Nowhere =>
          /\ depth[h[f]] < depth[f]
          /\ h[f] = Account \/ h[h[f]] # Nowhere
  BY DEF SidebarAssumption, C
<1> DEFINE r == [f \in Folders |-> IF f = Account THEN 0 ELSE IF f = Bin THEN 1 ELSE depth[f] + 2]
<1>3. r \in [Folders -> 0..C + 2]
  BY <1>1, <1>2
<1>4. ASSUME NEW f \in Folders, h[f] # Nowhere
      PROVE  r[h[f]] < r[f] /\ Stands(h[f], h)
  <2>1. h[f] \in Folders /\ f # Account /\ depth[h[f]] < depth[f] /\ depth[h[f]] \in 0..C /\ depth[f] \in 0..C
    BY <1>0, <1>2, <1>4
  <2>2. Stands(h[f], h)
    BY <1>2, <1>4 DEF Stands
  <2>3. CASE f = Bin
    BY <1>0, <2>2, <2>3
  <2>4. CASE f # Bin
    <3>1. r[f] = depth[f] + 2
      BY <2>1, <2>4
    <3>2. r[h[f]] <= depth[h[f]] + 2
      BY <1>0, <1>1, <2>1
    <3>3. r[h[f]] \in Nat
      BY <1>1, <1>3, <2>1
    <3>. HIDE DEF r
    <3>. QED BY <1>1, <2>1, <2>2, <3>1, <3>2, <3>3
  <2>. QED BY <2>3, <2>4
<1>5. \A f \in Folders \ {Account, Bin} : r[Bin] < r[f]
  BY <1>0, <1>1, <1>2
<1>. HIDE DEF r
<1>6. Graded(r, h)
  <2>1. C + 2 \in Nat
    BY <1>1
  <2>. QED BY <1>0, <1>3, <1>4, <2>1 DEF Graded
<1>7. Served(r, h)
  BY <1>0, <1>4, <1>5, <1>6 DEF Served, Stands
<1>8. Under(r, h, Account, Children(Account, h)) /\ Homes(h, Account, Children(Account, h))
  BY <1>0, <1>6, ChildrenAreUnder
<1>9. home = h /\ tree = RootTree(Children(Account, h))
  BY DEF SidebarInit
<1>10. IsTree(r, home, tree) /\ RightTree(tree, home)
  BY <1>0, <1>6, <1>8, <1>9, GradedRank, RootTreeIsTree
<1>11. \A o \in Handlers : handler[o] = Quiet
  BY DEF SidebarInit
<1>12. \A o \in Handlers : Going(r, home, handler[o]) /\ UpToDate(home, handler[o])
  BY <1>11 DEF Going, UpToDate, Quiet
<1>13. Marks
  <2>1. <<>> \in Seq(Folders) /\ IsInjective(<<>>)
    BY DEF IsInjective
  <2>2. paging \in [Folders -> PageMark]
    BY DEF SidebarInit, PageMark
  <2>3. handler = [o \in Handlers |-> handler[o]]
    BY DEF SidebarInit
  <2>. QED BY <1>0, <2>1, <2>2, <2>3 DEF SidebarInit, Marks, Stands
<1>. QED BY <1>7, <1>9, <1>10, <1>12, <1>13 DEF SidebarInv, Held, Timely

(* What each step uses of what is held.                                      *)
LEMMA HeldFacts ==
  ASSUME NEW r, Held(r)
  PROVE  /\ r \in [Folders -> Nat] /\ Graded(r, home) /\ Marks /\ IsTree(r, home, tree)
         /\ \A o \in Handlers : Going(r, home, handler[o])
  BY GradedRank DEF Held, Served

(* A node that is shown is at a path down to a folder of the server.         *)
LEMMA VisibleFacts ==
  ASSUME NEW r, Held(r), NEW p \in Visible
  PROVE  /\ p \in DOMAIN tree /\ IsPath(r, home, p)
         /\ Last(p) \in Folders /\ Stands(Last(p), home)
<1>1. p \in DOMAIN tree
  BY DEF Visible
<1>2. IsPath(r, home, p)
  BY <1>1, HeldFacts DEF IsTree
<1>. QED BY <1>1, <1>2, HeldFacts, PathFacts

(* A handler that had nothing left starts.                                   *)
LEMMA HandlerStarts ==
  ASSUME NEW r, NEW h, Marks, \A x \in Handlers : Going(r, h, handler[x]),
         NEW o \in Handlers, NEW w, Going(r, h, w), UpToDate(h, w),
         handler' = [handler EXCEPT ![o] = w]
  PROVE  /\ handler' = [x \in Handlers |-> handler'[x]] /\ handler'[o] = w
         /\ \A x \in Handlers : Going(r, h, handler'[x])
         /\ \A x \in Handlers : handler'[x] = handler[x] \/ (x = o /\ UpToDate(h, handler'[x]))
<1>1. /\ DOMAIN handler = Handlers
      /\ handler' = [x \in Handlers |-> IF x = o THEN w ELSE handler[x]]
  BY DEF Marks
<1>2. handler' = [x \in Handlers |-> handler'[x]]
  BY <1>1
<1>. QED BY <1>1, <1>2

(* A step of the user that changes neither the tree nor the server.          *)
LEMMA ActHolds ==
  ASSUME NEW r, Held(r), home' = home, tree' = tree, patient' = patient, failures' = failures, Marks',
         \A x \in Handlers : Going(r, home, handler'[x]),
         \A x \in Handlers : \/ handler'[x] = handler[x]
                             \/ handler[x].todo = <<>> /\ UpToDate(home, handler'[x])
  PROVE  SidebarInv'
<1>1. Served(r, home)' /\ IsTree(r, home, tree)'
  BY DEF Held
<1>2. Timely'
  <2> SUFFICES ASSUME patient, failures = 0
               PROVE  /\ \A x \in Handlers : UpToDate(home, handler'[x])
                      /\ RightTree(tree, home) \/ RootAsked'
    BY DEF Timely
  <2>1. /\ \A x \in Handlers : UpToDate(home, handler[x])
        /\ RightTree(tree, home) \/ RootAsked
    BY DEF Held, Timely
  <2>2. RootAsked => RootAsked'
    BY DEF RootAsked
  <2>. QED BY <2>1, <2>2
<1>3. Held(r)'
  BY <1>1, <1>2 DEF Held
<1>. QED BY <1>3 DEF SidebarInv

(* The folders of a path that are to be loaded.                              *)
LEMMA SelectLoadsAsk ==
  ASSUME NEW r, Held(r), NEW p \in Visible
  PROVE  SelectLoads(p) \in Seq(Query(home))
<1> DEFINE fs == Filter(Front(p), Folders \ loaded)
<1>1. IsPath(r, home, p)
  BY VisibleFacts
<1>2. p \in Seq(Folders) /\ Len(p) \in Nat \ {0} /\ DOMAIN p = 1..Len(p)
  BY <1>1, HeldFacts, PathFacts
<1>3. Front(p) \in Seq(Folders) /\ ToSet(Front(p)) \subseteq ToSet(p)
  <2>1. Front(p) = SubSeq(p, 1, Len(p) - 1)
    BY DEF Front
  <2>2. 1 \in Nat /\ 1 > 0 /\ Len(p) - 1 \in Nat /\ Len(p) - 1 <= Len(p)
    BY <1>2
  <2>. QED BY <1>2, <2>1, <2>2, PieceOf
<1>4. fs \in Seq(Folders) /\ ToSet(fs) \subseteq ToSet(p)
  BY <1>3, FilterIsPart
<1>5. \A f \in ToSet(fs) : Stands(f, home)
  BY <1>1, <1>4, PathOnServer
<1>6. Loads(fs) \in Seq(Query(home))
  <2>. HIDE DEF fs
  <2>. QED BY <1>4, <1>5, LoadsAsk
<1>. QED BY <1>6 DEF SelectLoads

(* So does the load of one folder.                                           *)
LEMMA OneLoadAsks ==
  ASSUME NEW h, NEW f \in Folders, Stands(f, h)
  PROVE  Loads(<<f>>) \in Seq(Query(h))
<1>1. <<f>> \in Seq(Folders) /\ ToSet(<<f>>) = {f}
  BY DEF ToSet
<1>. QED BY <1>1, LoadsAsk

(* A click on a node.                                                        *)
LEMMA ClickNodeHolds ==
  ASSUME NEW r, Held(r), NEW p \in Visible, NEW s \in Handlers, NEW o \in Handlers, ClickNode(p, s, o)
  PROVE  SidebarInv'
<1> DEFINE f == Last(p)
           opens == f \notin ToSet(expanded)
           toggled == IF opens THEN Append(expanded, f) ELSE Filter(expanded, Folders \ {f})
           first == SelectLoads(p)
           second == IF CanExpand(p) /\ opens /\ f \notin loaded THEN Loads(<<f>>) ELSE <<>>
<1>1. f \in Folders /\ Stands(f, home)
  BY VisibleFacts
<1>2. first \in Seq(Query(home)) /\ second \in Seq(Query(home))
  BY <1>1, SelectLoadsAsk, OneLoadAsks
<1>3. /\ Going(r, home, Sent(first)) /\ UpToDate(home, Sent(first)) /\ Spins(first) \subseteq Folders
      /\ Going(r, home, Sent(second)) /\ UpToDate(home, Sent(second)) /\ Spins(second) \subseteq Folders
  BY <1>2, SentGoes
<1>4. /\ s \in Idle /\ o \in Idle /\ s # o
      /\ handler' = [handler EXCEPT ![s] = Sent(first), ![o] = Sent(second)]
      /\ loading' = loading \cup Spins(first) \cup Spins(second)
      /\ expanded' = IF CanExpand(p) THEN toggled ELSE expanded
      /\ selected' = f
      /\ UNCHANGED <<tree, loaded, paging, home>>
      /\ UNCHANGED <<patient, failures>>
  BY DEF ClickNode, UserActs
<1>. HIDE DEF first, second
<1>5. Marks /\ \A x \in Handlers : Going(r, home, handler[x])
  BY HeldFacts
<1>6. handler' = [x \in Handlers |-> IF x = o THEN Sent(second) ELSE IF x = s THEN Sent(first) ELSE handler[x]]
  BY <1>4, <1>5 DEF Marks
<1>7. \A x \in Handlers : Going(r, home, handler'[x])
  BY <1>3, <1>5, <1>6
<1>8. \A x \in Handlers : \/ handler'[x] = handler[x]
                          \/ handler[x].todo = <<>> /\ UpToDate(home, handler'[x])
  BY <1>3, <1>4, <1>6 DEF Idle
<1>9. toggled \in Seq(Folders) /\ IsInjective(toggled)
  <2>1. expanded \in Seq(Folders) /\ IsInjective(expanded)
    BY <1>5 DEF Marks
  <2>. QED BY <1>1, <2>1, AppendedSet, FilterIsPart
<1>. HIDE DEF toggled, f
<1>10. handler' = [x \in Handlers |-> handler'[x]]
  BY <1>6
<1>11. Marks'
  BY <1>1, <1>3, <1>4, <1>5, <1>9, <1>10 DEF Marks
<1>. QED BY <1>4, <1>7, <1>8, <1>11, ActHolds

(* "Load more..."                                                            *)
LEMMA LoadMoreHolds ==
  ASSUME NEW r, Held(r), NEW p \in Visible, NEW o \in Handlers, LoadMore(p, o)
  PROVE  SidebarInv'
<1> DEFINE f == Last(p)
           todo == <<Request("more", f, paging[f].page + 1)>>
<1>1. f \in Folders /\ Stands(f, home)
  BY VisibleFacts
<1>2. Marks /\ \A x \in Handlers : Going(r, home, handler[x])
  BY HeldFacts
<1>3. paging[f] \in PageMark
  BY <1>1, <1>2 DEF Marks
<1>4. todo \in Seq(Query(home))
  <2>1. paging[f].page + 1 \in Nat \ {0}
    BY <1>3 DEF PageMark
  <2>2. Request("more", f, paging[f].page + 1) \in Query(home)
    BY <1>1, <2>1 DEF Request, Query
  <2>. QED BY <2>2
<1>5. /\ o \in Idle /\ handler' = [handler EXCEPT ![o] = Sent(todo)]
      /\ loading' = loading \cup Spins(todo)
      /\ UNCHANGED <<tree, expanded, loaded, paging, selected, home>>
      /\ UNCHANGED <<patient, failures>>
  BY DEF LoadMore, UserActs, Starts
<1>. HIDE DEF todo, f
<1>6. /\ Going(r, home, Sent(todo)) /\ UpToDate(home, Sent(todo)) /\ Spins(todo) \subseteq Folders
  BY <1>4, SentGoes
<1>7. /\ handler' = [x \in Handlers |-> handler'[x]]
      /\ \A x \in Handlers : Going(r, home, handler'[x])
      /\ \A x \in Handlers : handler'[x] = handler[x] \/ (x = o /\ UpToDate(home, handler'[x]))
  BY <1>2, <1>5, <1>6, HandlerStarts
<1>8. Marks'
  BY <1>2, <1>5, <1>6, <1>7 DEF Marks
<1>9. handler[o].todo = <<>>
  BY <1>5 DEF Idle
<1>. QED BY <1>5, <1>7, <1>8, <1>9, ActHolds

(* "Refresh" of a folder.                                                    *)
LEMMA RefreshItemHolds ==
  ASSUME NEW r, Held(r), NEW p \in Visible, NEW o \in Handlers, RefreshItem(p, o)
  PROVE  SidebarInv'
<1> DEFINE f == Last(p)
           todo == Loads(<<f>>)
<1>1. f \in Folders /\ Stands(f, home)
  BY VisibleFacts
<1>2. Marks /\ \A x \in Handlers : Going(r, home, handler[x])
  BY HeldFacts
<1>3. todo \in Seq(Query(home))
  BY <1>1, OneLoadAsks
<1>4. /\ o \in Idle /\ handler' = [handler EXCEPT ![o] = Sent(todo)]
      /\ loading' = (loading \ {f}) \cup Spins(todo)
      /\ loaded' = loaded \ {f}
      /\ UNCHANGED <<tree, expanded, paging, selected>>
      /\ UNCHANGED <<home, patient, failures>>
  BY DEF RefreshItem, Reload, UserActs, Starts
<1>. HIDE DEF todo, f
<1>5. /\ Going(r, home, Sent(todo)) /\ UpToDate(home, Sent(todo)) /\ Spins(todo) \subseteq Folders
  BY <1>3, SentGoes
<1>6. /\ handler' = [x \in Handlers |-> handler'[x]]
      /\ \A x \in Handlers : Going(r, home, handler'[x])
      /\ \A x \in Handlers : handler'[x] = handler[x] \/ (x = o /\ UpToDate(home, handler'[x]))
  BY <1>2, <1>4, <1>5, HandlerStarts
<1>7. Marks'
  BY <1>2, <1>4, <1>5, <1>6 DEF Marks
<1>8. handler[o].todo = <<>>
  BY <1>4 DEF Idle
<1>. QED BY <1>4, <1>6, <1>7, <1>8, ActHolds

(* A deep link is opened.                                                    *)
LEMMA OpenLinkHolds ==
  ASSUME NEW r, Held(r), NEW f \in Folders, NEW o \in Handlers, OpenLink(f, o)
  PROVE  SidebarInv'
<1> DEFINE todo == <<Request("chain", f, 1), Request("link", f, 1)>>
<1>1. /\ home[f] # Nowhere /\ o \in Idle /\ handler' = [handler EXCEPT ![o] = Sent(todo)]
      /\ loading' = loading \cup Spins(todo)
      /\ UNCHANGED <<tree, expanded, loaded, paging, selected, home>>
      /\ UNCHANGED <<patient, failures>>
  BY DEF OpenLink, UserActs, Starts
<1>2. Marks /\ \A x \in Handlers : Going(r, home, handler[x])
  BY HeldFacts
<1>3. Stands(f, home)
  BY <1>1 DEF Stands
<1>4. /\ Going(r, home, Sent(todo)) /\ UpToDate(home, Sent(todo)) /\ Spins(todo) \subseteq Folders
  BY <1>3, LinkGoes
<1>. HIDE DEF todo
<1>5. /\ handler' = [x \in Handlers |-> handler'[x]]
      /\ \A x \in Handlers : Going(r, home, handler'[x])
      /\ \A x \in Handlers : handler'[x] = handler[x] \/ (x = o /\ UpToDate(home, handler'[x]))
  BY <1>1, <1>2, <1>4, HandlerStarts
<1>6. Marks'
  BY <1>1, <1>2, <1>4, <1>5 DEF Marks
<1>7. handler[o].todo = <<>>
  BY <1>1 DEF Idle
<1>. QED BY <1>1, <1>5, <1>6, <1>7, ActHolds

(* A step of the user that changes the server: the tree stays that of the    *)
(* server, or is asked for.                                                  *)
LEMMA ServerActHolds ==
  ASSUME SidebarAssumption, NEW r, Held(r), UserActs, NEW r2, Served(r2, home'),
         Carries(r, home, r2, home'), NEW o \in Idle, NEW todo \in Seq(Query(home')),
         handler' = [handler EXCEPT ![o] = Sent(todo)],
         NEW base \in SUBSET Folders, loading' = base \cup Spins(todo),
         loaded' \subseteq Folders, UNCHANGED <<tree, expanded, paging, selected>>,
         \/ RightTree(tree, home) => RightTree(tree, home')
         \/ todo # <<>> /\ Head(todo).do = "root"
  PROVE  SidebarInv'
<1>0. Account \in Folders
  BY DEF SidebarAssumption
<1>1. r \in [Folders -> Nat] /\ r2 \in [Folders -> Nat]
  BY HeldFacts, GradedRank DEF Served
<1>2. IsTree(r2, home', tree')
  BY <1>1, HeldFacts, TreeCarried
<1>3. o \in Handlers /\ handler[o].todo = <<>>
  BY DEF Idle
<1>4. Marks /\ \A x \in Handlers : Going(r, home, handler[x])
  BY HeldFacts
<1>5. \A x \in Handlers : Going(r2, home', handler[x])
  BY <1>0, <1>1, <1>4, GoingCarried
<1>6. /\ Going(r2, home', Sent(todo)) /\ UpToDate(home', Sent(todo)) /\ Sent(todo).todo = todo
      /\ Spins(todo) \subseteq Folders
  BY SentGoes
<1>7. /\ handler' = [x \in Handlers |-> handler'[x]] /\ handler'[o] = Sent(todo)
      /\ \A x \in Handlers : Going(r2, home', handler'[x])
      /\ \A x \in Handlers : handler'[x] = handler[x] \/ (x = o /\ UpToDate(home', handler'[x]))
  BY <1>3, <1>4, <1>5, <1>6, HandlerStarts
<1>8. Stands(selected', home')
  BY <1>4 DEF Marks, Carries
<1>9. patient' = patient /\ failures' = failures
  BY DEF UserActs
<1>10. Marks'
  BY <1>4, <1>6, <1>7, <1>8, <1>9 DEF Marks
<1>11. Timely'
  <2> SUFFICES ASSUME patient, failures = 0
               PROVE  /\ \A x \in Handlers : UpToDate(home', handler'[x])
                      /\ RightTree(tree', home') \/ RootAsked'
    BY <1>9 DEF Timely
  <2>1. \A x \in Handlers : handler[x].todo = <<>>
    BY DEF UserActs, AtRest, Idle
  <2>2. \A x \in Handlers : handler[x] = Quiet
    BY <1>4, <2>1, GoingTyped
  <2>3. UpToDate(home', Quiet)
    BY DEF UpToDate, Quiet
  <2>4. \A x \in Handlers : UpToDate(home', handler'[x])
    BY <1>7, <2>2, <2>3
  <2>5. RightTree(tree, home)
    BY <2>1 DEF Held, Timely, RootAsked
  <2>6. CASE RightTree(tree, home) => RightTree(tree, home')
    BY <2>4, <2>5, <2>6
  <2>7. CASE todo # <<>> /\ Head(todo).do = "root"
    <3>1. handler'[o].todo = todo
      BY <1>6, <1>7
    <3>2. RootAsked'
      BY <1>3, <2>7, <3>1 DEF RootAsked
    <3>. QED BY <2>4, <3>2
  <2>. QED BY <2>6, <2>7
<1>12. Held(r2)'
  BY <1>2, <1>7, <1>10, <1>11 DEF Held
<1>. QED BY <1>12 DEF SidebarInv

(* A new folder in the selected one: it is given a rank above it.            *)
LEMMA CreateFolderHolds ==
  ASSUME SidebarAssumption, NEW r, Held(r), NEW f \in Folders, NEW o \in Handlers, CreateFolder(f, o)
  PROVE  SidebarInv'
<1> DEFINE rank == r[selected] + r[Bin] + 1
           r2 == [r EXCEPT ![f] = rank]
           todo == Loads(<<selected>>)
<1>0. /\ Account \in Folders /\ Bin \in Folders /\ Account # Bin /\ Nowhere \notin Folders
      /\ FirstHome \in [Folders -> Folders \cup {Nowhere}]
  BY DEF SidebarAssumption
<1>1. /\ UserActs /\ f # Account /\ home[f] = Nowhere
      /\ home' = [home EXCEPT ![f] = selected]
      /\ loaded' = loaded \ {selected}
      /\ o \in Idle /\ handler' = [handler EXCEPT ![o] = Sent(todo)]
      /\ loading' = (loading \ {selected}) \cup Spins(todo)
      /\ UNCHANGED <<tree, expanded, paging, selected>>
  BY DEF CreateFolder, Reload, Starts
<1>2. r \in [Folders -> Nat] /\ Graded(r, home) /\ Marks /\ IsTree(r, home, tree) /\ Served(r, home)
  BY HeldFacts DEF Held
<1>3. /\ selected \in Folders /\ Stands(selected, home) /\ Stands(Bin, home)
      /\ home \in [Folders -> Folders \cup {Nowhere}]
  BY <1>2 DEF Marks, Served, Graded
<1>4. ~Stands(f, home) /\ f # selected /\ f # Bin
  BY <1>1, <1>3 DEF Stands
<1>5. \A g \in Folders : home'[g] = IF g = f THEN selected ELSE home[g]
  BY <1>1, <1>3
<1>6. rank \in Nat /\ r[selected] < rank /\ r[Bin] < rank
  BY <1>0, <1>2, <1>3
<1>7. \A g \in Folders : r2[g] = IF g = f THEN rank ELSE r[g]
  BY <1>2
<1>8. ASSUME NEW g \in Folders, Stands(g, home)
      PROVE  g # f /\ Stands(g, home') /\ r2[g] = r[g] /\ home'[g] = home[g]
  <2>1. g # f
    BY <1>4, <1>8
  <2>. QED BY <1>5, <1>7, <1>8, <2>1 DEF Stands
<1>9. PICK B \in Nat : r \in [Folders -> 0..B]
  BY <1>2 DEF Graded
<1>10. r2 \in [Folders -> 0..B + rank]
  <2>1. B + rank \in Nat /\ rank <= B + rank /\ B <= B + rank
    BY <1>6, <1>9
  <2>. HIDE DEF rank
  <2>2. \A g \in Folders : r2[g] \in 0..B + rank
    BY <1>6, <1>7, <1>9, <2>1
  <2>3. r2 = [g \in Folders |-> r2[g]]
    BY <1>9
  <2>. HIDE DEF r2
  <2>. QED BY <2>2, <2>3
<1>. HIDE DEF rank, r2, todo
<1>11. Carries(r, home, r2, home')
  BY <1>8 DEF Carries
<1>12. ASSUME NEW g \in Folders, home'[g] # Nowhere
       PROVE  r2[home'[g]] < r2[g] /\ Stands(home'[g], home')
  <2>1. CASE g = f
    BY <1>3, <1>5, <1>6, <1>7, <1>8, <2>1
  <2>2. CASE g # f
    <3>1. home[g] # Nowhere /\ home'[g] = home[g] /\ home[g] \in Folders
      BY <1>3, <1>5, <1>12, <2>2
    <3>2. r[home[g]] < r[g] /\ Stands(home[g], home) /\ Stands(g, home)
      BY <1>2, <3>1 DEF Graded, Stands
    <3>. QED BY <1>8, <3>1, <3>2
  <2>. QED BY <2>1, <2>2
<1>13. Graded(r2, home')
  <2>1. home' \in [Folders -> Folders \cup {Nowhere}] /\ home'[Account] = Nowhere
    BY <1>0, <1>1, <1>2, <1>3 DEF Graded
  <2>2. B + rank \in Nat
    BY <1>6, <1>9
  <2>. QED BY <1>10, <1>12, <2>1, <2>2 DEF Graded
<1>14. Served(r2, home')
  <2>1. Stands(Bin, home') /\ r2[Bin] = r[Bin]
    BY <1>0, <1>3, <1>8
  <2>2. \A g \in Folders \ {Account, Bin} : r2[Bin] < r2[g]
    <3> SUFFICES ASSUME NEW g \in Folders \ {Account, Bin} PROVE r2[Bin] < r2[g]
      OBVIOUS
    <3>1. r[Bin] < r[g]
      BY <1>2 DEF Served
    <3>. QED BY <1>6, <1>7, <2>1, <3>1
  <2>3. ASSUME NEW g \in Folders, FirstHome[g] # Nowhere
        PROVE  home'[g] # Nowhere /\ r2[FirstHome[g]] < r2[g] /\ Stands(FirstHome[g], home')
    <3>1. home[g] # Nowhere /\ r[FirstHome[g]] < r[g] /\ Stands(FirstHome[g], home) /\ FirstHome[g] \in Folders
      BY <1>0, <1>2, <2>3 DEF Served
    <3>2. Stands(g, home)
      BY <3>1 DEF Stands
    <3>. QED BY <1>8, <3>1, <3>2
  <2>. QED BY <1>13, <2>1, <2>2, <2>3 DEF Served
<1>15. RightTree(tree, home) => RightTree(tree, home')
  <2> SUFFICES ASSUME RightTree(tree, home), NEW p \in DOMAIN tree, NEW c \in ToSet(tree[p])
               PROVE  home'[c] = Last(p)
    BY DEF RightTree, Homes
  <2>1. c \in Folders /\ Stands(c, home) /\ home[c] = Last(p)
    BY <1>2, ListedFolders DEF IsTree, Under, RightTree, Homes
  <2>. QED BY <1>8, <2>1
<1>16. todo \in Seq(Query(home'))
  BY <1>3, <1>8, OneLoadAsks DEF todo
<1>17. (loading \ {selected}) \in SUBSET Folders /\ loaded' \subseteq Folders
  BY <1>1, <1>2 DEF Marks
<1>. QED BY <1>1, <1>11, <1>14, <1>15, <1>16, <1>17, ServerActHolds

(* The requests of a refresh of the tree start with the root.                *)
LEMMA TreeRequestsAsk ==
  ASSUME SidebarAssumption, NEW r, Held(r), NEW h, \A f \in Folders : Stands(f, home) => Stands(f, h)
  PROVE  TreeRequests \in Seq(Query(h)) /\ TreeRequests # <<>> /\ Head(TreeRequests).do = "root"
<1> DEFINE X == {f \in Folders \ {Account} : NodesOf(f, tree) # {}}
           fs == Filter(expanded, X)
           first == <<Request("root", Account, 1)>>
           rest == Loads(fs)
<1>0. Account \in Folders
  BY DEF SidebarAssumption
<1>1. expanded \in Seq(Folders)
  BY HeldFacts DEF Marks
<1>2. fs \in Seq(Folders) /\ ToSet(fs) \subseteq X
  <2>. HIDE DEF X
  <2>. QED BY <1>1, FilterIsPart
<1>3. ASSUME NEW f \in X PROVE Stands(f, h)
  <2>1. PICK p \in DOMAIN tree : Last(p) = f
    BY <1>3 DEF NodesOf
  <2>2. IsPath(r, home, p)
    BY <2>1, HeldFacts DEF IsTree
  <2>. QED BY <2>1, <2>2, HeldFacts, PathFacts
<1>. HIDE DEF X
<1>4. \A f \in ToSet(fs) : Stands(f, h)
  BY <1>2, <1>3
<1>. HIDE DEF fs
<1>5. rest \in Seq(Query(h))
  BY <1>2, <1>4, LoadsAsk
<1>6. Request("root", Account, 1) \in Query(h) /\ Request("root", Account, 1).do = "root"
  BY <1>0 DEF Request, Query, Stands
<1>7. first \in Seq(Query(h)) /\ Len(first) = 1 /\ first[1] = Request("root", Account, 1)
  BY <1>6
<1>8. TreeRequests = first \o rest
  BY DEF TreeRequests, fs, X
<1>. HIDE DEF first, rest
<1>9. /\ first \o rest \in Seq(Query(h)) /\ Len(first \o rest) > 0
      /\ (first \o rest)[1] = first[1]
  <2>1. first \o rest \in Seq(Query(h))
    BY <1>5, <1>7
  <2>2. Len(rest) \in Nat /\ Len(first \o rest) = 1 + Len(rest)
    <3>1. Len(rest) \in Nat
      BY <1>5
    <3>2. Len(first \o rest) = Len(first) + Len(rest)
      <4> DEFINE Q == Query(h)
      <4>1. first \in Seq(Q) /\ rest \in Seq(Q)
        BY <1>5, <1>7
      <4>. HIDE DEF Q
      <4>. QED BY <4>1
    <3>. QED BY <1>7, <3>1, <3>2
  <2>3. (first \o rest)[1] = first[1]
    BY <1>5, <1>7, <2>2, ConcatProperties
  <2>. QED BY <2>1, <2>2, <2>3
<1>10. first \o rest # <<>> /\ Head(first \o rest) = first[1]
  BY <1>9
<1>. QED BY <1>6, <1>7, <1>8, <1>9, <1>10

(* A folder is moved on the server and the tree asked for.                   *)
LEMMA MoveHolds ==
  ASSUME SidebarAssumption, NEW r, Held(r), UserActs, NEW f \in Folders, NEW a \in Folders,
         home[f] # Nowhere, f # Account, r[a] < r[f], Stands(a, home),
         home' = [home EXCEPT ![f] = a], NEW o \in Handlers, RefreshTree(o)
  PROVE  SidebarInv'
<1>0. /\ Account \in Folders /\ Bin \in Folders /\ Nowhere \notin Folders
      /\ FirstHome \in [Folders -> Folders \cup {Nowhere}]
  BY DEF SidebarAssumption
<1>1. Graded(r, home) /\ Marks /\ Served(r, home) /\ home \in [Folders -> Folders \cup {Nowhere}]
  BY HeldFacts DEF Held, Graded
<1>2. \A g \in Folders : home'[g] = IF g = f THEN a ELSE home[g]
  BY <1>1
<1>3. \A g \in Folders : (home'[g] # Nowhere <=> home[g] # Nowhere) /\ (Stands(g, home) => Stands(g, home'))
  BY <1>0, <1>2 DEF Stands
<1>4. Carries(r, home, r, home')
  BY <1>3 DEF Carries
<1>5. Graded(r, home')
  <2>1. home' \in [Folders -> Folders \cup {Nowhere}] /\ home'[Account] = Nowhere
    BY <1>0, <1>1 DEF Graded
  <2>2. ASSUME NEW g \in Folders, home'[g] # Nowhere
        PROVE  r[home'[g]] < r[g] /\ Stands(home'[g], home')
    <3>1. CASE g = f
      BY <1>2, <1>3, <3>1
    <3>2. CASE g # f
      <4>1. home'[g] = home[g] /\ home[g] # Nowhere /\ home[g] \in Folders
        BY <1>1, <1>2, <2>2, <3>2
      <4>. QED BY <1>1, <1>3, <4>1 DEF Graded
    <3>. QED BY <3>1, <3>2
  <2>. QED BY <1>1, <2>1, <2>2 DEF Graded
<1>6. Served(r, home')
  <2>1. \A g \in Folders : FirstHome[g] # Nowhere =>
          home'[g] # Nowhere /\ r[FirstHome[g]] < r[g] /\ Stands(FirstHome[g], home')
    BY <1>0, <1>1, <1>3 DEF Served
  <2>2. Stands(Bin, home')
    BY <1>0, <1>1, <1>3 DEF Served
  <2>. QED BY <1>1, <1>5, <2>1, <2>2 DEF Served
<1>7. TreeRequests \in Seq(Query(home')) /\ TreeRequests # <<>> /\ Head(TreeRequests).do = "root"
  <2> DEFINE h == home'
  <2>1. \A g \in Folders : Stands(g, home) => Stands(g, h)
    BY <1>3
  <2>. HIDE DEF h
  <2>2. TreeRequests \in Seq(Query(h)) /\ TreeRequests # <<>> /\ Head(TreeRequests).do = "root"
    BY <2>1, TreeRequestsAsk
  <2>. QED BY <2>2 DEF h
<1>8. /\ o \in Idle /\ handler' = [handler EXCEPT ![o] = Sent(TreeRequests)]
      /\ loading' = loading \cup Spins(TreeRequests)
      /\ UNCHANGED <<tree, expanded, loaded, paging, selected>>
  BY DEF RefreshTree, Starts
<1>9. loading \in SUBSET Folders /\ loaded' \subseteq Folders
  BY <1>1, <1>8 DEF Marks
<1>. QED BY <1>4, <1>6, <1>7, <1>8, <1>9, ServerActHolds

(* A folder goes to the trash.                                               *)
LEMMA DeleteFolderHolds ==
  ASSUME SidebarAssumption, NEW r, Held(r), NEW p \in Visible, NEW o \in Handlers, DeleteFolder(p, o)
  PROVE  SidebarInv'
<1> DEFINE f == Last(p)
<1>1. f \in Folders /\ Stands(f, home)
  BY VisibleFacts
<1>2. /\ UserActs /\ f \notin {Account, Bin} /\ home' = [home EXCEPT ![f] = Bin] /\ RefreshTree(o)
  BY DEF DeleteFolder
<1>3. Bin \in Folders /\ Stands(Bin, home) /\ r[Bin] < r[f]
  BY <1>1, <1>2 DEF Held, Served, SidebarAssumption
<1>4. home[f] # Nowhere
  BY <1>1, <1>2 DEF Stands
<1>. HIDE DEF f
<1>. QED BY <1>1, <1>2, <1>3, <1>4, MoveHolds

(* A folder goes back from the trash to its first parent.                    *)
LEMMA RestoreFolderHolds ==
  ASSUME SidebarAssumption, NEW r, Held(r), NEW p \in Visible, NEW o \in Handlers, RestoreFolder(p, o)
  PROVE  SidebarInv'
<1> DEFINE f == Last(p)
           a == FirstHome[f]
<1>0. /\ Account \in Folders /\ Bin \in Folders /\ Nowhere \notin Folders
      /\ FirstHome \in [Folders -> Folders \cup {Nowhere}]
  BY DEF SidebarAssumption
<1>1. f \in Folders
  BY VisibleFacts
<1>2. UserActs /\ home[f] = Bin /\ home' = [home EXCEPT ![f] = a] /\ a # Nowhere /\ RefreshTree(o)
  BY DEF RestoreFolder
<1>3. home[f] # Nowhere /\ f # Account
  BY <1>0, <1>2, HeldFacts DEF Graded
<1>4. a \in Folders /\ r[a] < r[f] /\ Stands(a, home)
  BY <1>0, <1>1, <1>2 DEF Held, Served
<1>. HIDE DEF f, a
<1>. QED BY <1>1, <1>2, <1>3, <1>4, MoveHolds

(* A handler goes on while nobody touches the server: what it had to answer is *)
(* in the tree, or it still has it to answer, or something failed.           *)
LEMMA HandlerGoes ==
  ASSUME NEW r, Held(r), NEW o \in Handlers, NEW w, Going(r, home, w),
         handler' = [handler EXCEPT ![o] = w], home' = home, patient' = patient,
         IsTree(r, home, tree'),
         expanded' \in Seq(Folders), IsInjective(expanded'), loaded' \subseteq Folders,
         loading' \subseteq Folders, selected' \in Folders, Stands(selected', home),
         paging' \in [Folders -> PageMark], failures' \in Nat,
         patient /\ failures' = 0 /\ UpToDate(home, handler[o]) =>
           /\ failures = 0 /\ UpToDate(home, w)
           /\ RightTree(tree, home) => RightTree(tree', home)
           /\ Head(handler[o].todo).do = "root" => RightTree(tree', home) \/ w.todo = handler[o].todo,
         patient /\ failures' = 0 => failures = 0
  PROVE  SidebarInv'
<1>1. Marks /\ \A x \in Handlers : Going(r, home, handler[x])
  BY HeldFacts
<1>2. handler' = [x \in Handlers |-> IF x = o THEN w ELSE handler[x]]
  BY <1>1 DEF Marks
<1>3. \A x \in Handlers : Going(r, home, handler'[x])
  BY <1>1, <1>2
<1>4. handler' = [x \in Handlers |-> handler'[x]]
  BY <1>2
<1>5. Marks'
  BY <1>1, <1>4 DEF Marks, Stands
<1>6. Timely'
  <2> SUFFICES ASSUME patient, failures' = 0
               PROVE  /\ \A x \in Handlers : UpToDate(home, handler'[x])
                      /\ RightTree(tree', home) \/ RootAsked'
    BY DEF Timely
  <2>1. /\ \A x \in Handlers : UpToDate(home, handler[x])
        /\ RightTree(tree, home) \/ RootAsked
    BY DEF Held, Timely
  <2>2. /\ UpToDate(home, w)
        /\ RightTree(tree, home) => RightTree(tree', home)
        /\ Head(handler[o].todo).do = "root" => RightTree(tree', home) \/ w.todo = handler[o].todo
    BY <2>1
  <2>3. \A x \in Handlers : UpToDate(home, handler'[x])
    BY <1>2, <2>1, <2>2
  <2>4. CASE RootAsked
    <3>1. PICK x \in Handlers : handler[x].todo # <<>> /\ Head(handler[x].todo).do = "root"
      BY <2>4 DEF RootAsked
    <3>2. CASE x # o
      BY <1>2, <2>3, <3>1, <3>2 DEF RootAsked
    <3>3. CASE x = o
      <4>1. RightTree(tree', home) \/ w.todo = handler[o].todo
        BY <2>2, <3>1, <3>3
      <4>2. w.todo = handler[o].todo => RootAsked'
        BY <1>2, <3>1, <3>3 DEF RootAsked
      <4>. QED BY <2>3, <4>1, <4>2
    <3>. QED BY <3>2, <3>3
  <2>. QED BY <2>1, <2>2, <2>3, <2>4
<1>7. Served(r, home)' /\ IsTree(r, home, tree)'
  BY DEF Held
<1>8. Held(r)'
  BY <1>3, <1>5, <1>6, <1>7 DEF Held
<1>. QED BY <1>8 DEF SidebarInv

(* The server reads a request.                                               *)
LEMMA ServerReadsHolds ==
  ASSUME SidebarAssumption, NEW r, Held(r), NEW o \in Handlers, ServerReads(o)
  PROVE  SidebarInv'
<1> DEFINE w == [handler[o] EXCEPT !.at = "read", !.got = Append(@, ReplyTo(handler[o], home))]
<1>1. Marks /\ Graded(r, home) /\ Going(r, home, handler[o]) /\ IsTree(r, home, tree)
  BY HeldFacts
<1>2. handler[o].at = "sent" /\ UNCHANGED <<tree, expanded, loaded, loading, paging, selected, home>>
      /\ UNCHANGED <<patient, failures>>
  BY DEF ServerReads
<1>3. Reply(o) = ReplyTo(handler[o], home)
  BY DEF Reply, ReplyTo
<1>4. handler' = [handler EXCEPT ![o] = w]
  BY <1>3 DEF ServerReads
<1>5. Going(r, home, w) /\ UpToDate(home, w) /\ w.todo = handler[o].todo
  <2> DEFINE u == handler[o]
             g == ReplyTo(u, home)
  <2>1. u = [todo |-> u.todo, at |-> u.at, got |-> u.got]
    BY <1>1, <1>2 DEF Going, Quiet
  <2>2. u \in [todo : {u.todo}, at : {u.at}, got : {u.got}]
    BY <2>1
  <2>. HIDE DEF g
  <2>3. w \in [todo : {u.todo}, at : {"read"}, got : {Append(u.got, g)}]
    BY <2>2 DEF g
  <2>. HIDE DEF u, w
  <2>4. w = [todo |-> u.todo, at |-> "read", got |-> Append(u.got, g)]
    BY <2>3, HandlerRecord
  <2>5. Going(r, home, u) /\ u.at = "sent" /\ g = ReplyTo(u, home) /\ Graded(r, home)
    BY <1>1, <1>2 DEF u, g
  <2>6. Going(r, home, w) /\ UpToDate(home, w) /\ w.todo = u.todo
    BY <2>4, <2>5, ReadGoes
  <2>. QED BY <2>6 DEF u
<1>. HIDE DEF w
<1>. QED BY <1>1, <1>2, <1>4, <1>5, HandlerGoes DEF Marks

(* What is known of a handler whose answer of a listing has come.            *)
LEMMA ListingAnswered ==
  ASSUME NEW r, Held(r), NEW o \in Handlers, handler[o].at = "read",
         Head(handler[o].todo).do \in {"load", "more", "root"}
  PROVE  /\ Left(o) \in Seq(Query(home)) /\ Got(o) = handler[o].got[1]
         /\ Going(r, home, Sent(Left(o))) /\ UpToDate(home, Sent(Left(o)))
         /\ Spins(Left(o)) \subseteq Folders
         /\ Head(handler[o].todo) \in Query(home)
         /\ AnswerFits(r, home, Head(handler[o].todo), Got(o))
<1> DEFINE w == handler[o]
<1>1. Going(r, home, w)
  BY HeldFacts
<1>2. Listing(r, home, w) /\ Head(w.todo) \in Query(home)
  BY <1>1, GoingTyped
<1>3. w.got = <<w.got[1]>> /\ AnswerFits(r, home, Head(w.todo), w.got[1])
  BY <1>2 DEF Listing
<1>4. Got(o) = w.got[1]
  <2>1. Last(<<w.got[1]>>) = w.got[1]
    BY DEF Last
  <2>. QED BY <1>3, <2>1 DEF Got
<1>5. Left(o) \in Seq(Query(home))
  BY <1>2, LeftGoes DEF Left
<1>. HIDE DEF w
<1>6. Going(r, home, Sent(Left(o))) /\ UpToDate(home, Sent(Left(o))) /\ Spins(Left(o)) \subseteq Folders
  BY <1>5, SentGoes
<1>. QED BY <1>2, <1>3, <1>4, <1>5, <1>6 DEF w

(* The first page of the children of a folder came.                          *)
LEMMA LoadAnsweredHolds ==
  ASSUME NEW r, Held(r), NEW o \in Handlers, LoadAnswered(o)
  PROVE  SidebarInv'
<1> DEFINE f == Head(handler[o].todo).of
           w == Sent(Left(o))
<1>1. Marks /\ r \in [Folders -> Nat] /\ IsTree(r, home, tree)
  BY HeldFacts
<1>2. /\ handler[o].at = "read" /\ Head(handler[o].todo).do = "load"
      /\ tree' = WithChildren(f, Got(o).kids, tree)
      /\ paging' = [paging EXCEPT ![f] = Got(o).at]
      /\ loaded' = loaded \cup {f}
      /\ handler' = [handler EXCEPT ![o] = w]
      /\ loading' = (loading \ {f}) \cup Spins(Left(o))
      /\ UNCHANGED <<expanded, selected, home>> /\ UNCHANGED <<patient, failures>>
  BY DEF LoadAnswered, Answered, Goes
<1>3. /\ Going(r, home, w) /\ UpToDate(home, w) /\ Spins(Left(o)) \subseteq Folders
      /\ Head(handler[o].todo) \in Query(home)
      /\ AnswerFits(r, home, Head(handler[o].todo), Got(o))
  BY <1>2, ListingAnswered
<1>4. f \in Folders
  BY <1>3 DEF Query
<1>5. Under(r, home, f, Got(o).kids) /\ Got(o).at \in PageMark
  BY <1>2, <1>3 DEF AnswerFits
<1>6. UpToDate(home, handler[o]) => Homes(home, f, Got(o).kids)
  BY <1>2 DEF UpToDate, Got
<1>. HIDE DEF w, f
<1>7. /\ IsTree(r, home, tree')
      /\ RightTree(tree, home) /\ Homes(home, f, Got(o).kids) => RightTree(tree', home)
  BY <1>1, <1>2, <1>4, <1>5, WithChildrenIsTree
<1>8. paging' \in [Folders -> PageMark] /\ loaded' \subseteq Folders /\ loading' \subseteq Folders
  BY <1>1, <1>2, <1>3, <1>4, <1>5 DEF Marks
<1>. QED BY <1>1, <1>2, <1>3, <1>6, <1>7, <1>8, HandlerGoes DEF Marks

(* A further page of them came.                                              *)
LEMMA MoreAnsweredHolds ==
  ASSUME NEW r, Held(r), NEW o \in Handlers, MoreAnswered(o)
  PROVE  SidebarInv'
<1> DEFINE f == Head(handler[o].todo).of
           w == Sent(Left(o))
<1>1. Marks /\ r \in [Folders -> Nat] /\ IsTree(r, home, tree)
  BY HeldFacts
<1>2. /\ handler[o].at = "read" /\ Head(handler[o].todo).do = "more"
      /\ tree' = WithMore(f, Got(o).kids, tree)
      /\ paging' = [paging EXCEPT ![f] = Got(o).at]
      /\ handler' = [handler EXCEPT ![o] = w]
      /\ loading' = (loading \ {f}) \cup Spins(Left(o))
      /\ UNCHANGED <<expanded, loaded, selected, home>> /\ UNCHANGED <<patient, failures>>
  BY DEF MoreAnswered, Answered, Goes
<1>3. /\ Going(r, home, w) /\ UpToDate(home, w) /\ Spins(Left(o)) \subseteq Folders
      /\ Head(handler[o].todo) \in Query(home)
      /\ AnswerFits(r, home, Head(handler[o].todo), Got(o))
  BY <1>2, ListingAnswered
<1>4. f \in Folders
  BY <1>3 DEF Query
<1>5. Under(r, home, f, Got(o).kids) /\ Got(o).at \in PageMark
  BY <1>2, <1>3 DEF AnswerFits
<1>6. UpToDate(home, handler[o]) => Homes(home, f, Got(o).kids)
  BY <1>2 DEF UpToDate, Got
<1>. HIDE DEF w, f
<1>7. /\ IsTree(r, home, tree')
      /\ RightTree(tree, home) /\ Homes(home, f, Got(o).kids) => RightTree(tree', home)
  BY <1>1, <1>2, <1>4, <1>5, WithMoreIsTree
<1>8. paging' \in [Folders -> PageMark] /\ loading' \subseteq Folders
  BY <1>1, <1>2, <1>3, <1>4, <1>5 DEF Marks
<1>. QED BY <1>1, <1>2, <1>3, <1>6, <1>7, <1>8, HandlerGoes DEF Marks

(* The children of the account came.                                         *)
LEMMA RootAnsweredHolds ==
  ASSUME SidebarAssumption, NEW r, Held(r), NEW o \in Handlers, RootAnswered(o)
  PROVE  SidebarInv'
<1> DEFINE w == Sent(Left(o))
<1>1. Marks /\ r \in [Folders -> Nat] /\ Account \in Folders
  BY HeldFacts DEF SidebarAssumption
<1>2. /\ handler[o].at = "read" /\ Head(handler[o].todo).do = "root"
      /\ tree' = RootTree(Got(o)) /\ loaded' = {Account}
      /\ handler' = [handler EXCEPT ![o] = w]
      /\ loading' = loading \cup Spins(Left(o))
      /\ UNCHANGED <<expanded, paging, selected, home>> /\ UNCHANGED <<patient, failures>>
  BY DEF RootAnswered, Answered, Goes
<1>3. /\ Going(r, home, w) /\ UpToDate(home, w) /\ Spins(Left(o)) \subseteq Folders
      /\ AnswerFits(r, home, Head(handler[o].todo), Got(o))
  BY <1>2, ListingAnswered
<1>4. Under(r, home, Account, Got(o))
  BY <1>2, <1>3 DEF AnswerFits
<1>5. UpToDate(home, handler[o]) => Homes(home, Account, Got(o))
  BY <1>2 DEF UpToDate, Got
<1>. HIDE DEF w
<1>6. /\ IsTree(r, home, tree')
      /\ Homes(home, Account, Got(o)) => RightTree(tree', home)
  BY <1>1, <1>2, <1>4, RootTreeIsTree
<1>7. loaded' \subseteq Folders /\ loading' \subseteq Folders
  BY <1>1, <1>2, <1>3 DEF Marks
<1>. QED BY <1>1, <1>2, <1>3, <1>5, <1>6, <1>7, HandlerGoes DEF Marks

(* The ancestors of a deep link came.                                        *)
LEMMA ChainAnsweredHolds ==
  ASSUME NEW r, Held(r), NEW o \in Handlers, ChainAnswered(o)
  PROVE  SidebarInv'
<1> DEFINE w == [handler[o] EXCEPT !.todo = Tail(@), !.at = "sent"]
<1>1. Marks /\ IsTree(r, home, tree) /\ Going(r, home, handler[o])
  BY HeldFacts
<1>2. /\ handler[o].at = "read" /\ Head(handler[o].todo).do = "chain"
      /\ handler' = [handler EXCEPT ![o] = w]
      /\ UNCHANGED <<tree, expanded, loaded, loading, paging, selected, home>>
      /\ UNCHANGED <<patient, failures>>
  BY DEF ChainAnswered, Answered
<1>3. /\ Chaining(r, home, handler[o])
      /\ handler[o] = [todo |-> handler[o].todo, at |-> handler[o].at, got |-> handler[o].got]
  <2>1. handler[o] # Quiet /\ handler[o].todo # <<>>
    BY <1>1, <1>2, GoingTyped DEF Quiet
  <2>2. \A q \in Query(home) : q.do # "chain"
    BY DEF Query
  <2>. QED BY <1>1, <1>2, <2>1, <2>2, GoingTyped DEF Going
<1>4. Going(r, home, w) /\ UpToDate(home, w)
  BY <1>2, <1>3, ChainGoes
<1>. HIDE DEF w
<1>. QED BY <1>1, <1>2, <1>4, HandlerGoes DEF Marks

(* Their children came: the deep link replaces the tree.                     *)
LEMMA LinkAnsweredHolds ==
  ASSUME NEW r, Held(r), NEW o \in Handlers, LinkAnswered(o)
  PROVE  SidebarInv'
<1> DEFINE v == handler[o]
           chain == v.got[1]
           kids == v.got[2]
           none == <<>>
<1>1. Marks /\ r \in [Folders -> Nat] /\ Going(r, home, v)
  BY HeldFacts
<1>2. /\ v.at = "read" /\ Head(v.todo).do = "link"
      /\ tree' = LinkTree(Head(v.got), Got(o))
      /\ loaded' = loaded \cup ToSet(Head(v.got))
      /\ expanded' = Head(v.got) /\ selected' = Last(Head(v.got))
      /\ handler' = [handler EXCEPT ![o] = Sent(none)]
      /\ loading' = loading \cup Spins(none)
      /\ UNCHANGED <<paging, home>> /\ UNCHANGED <<patient, failures>>
  BY DEF LinkAnswered, Answered, Goes
<1>3. Linking(r, home, v)
  <2>1. v.todo # <<>>
    BY <1>1, <1>2, GoingTyped
  <2>2. \A q \in Query(home) : q.do # "link"
    BY DEF Query
  <2>. QED BY <1>1, <1>2, <2>1, <2>2, GoingTyped
<1>4. /\ IsPath(r, home, chain) /\ v.got = <<chain, kids>> /\ LinkedUnder(r, home, chain, kids)
  BY <1>2, <1>3 DEF Linking
<1>5. Head(v.got) = chain /\ Got(o) = kids
  <2>. HIDE DEF chain, kids
  <2>1. Head(<<chain, kids>>) = chain /\ Last(<<chain, kids>>) = kids
    BY DEF Last
  <2>. QED BY <1>4, <2>1 DEF Got
<1>6. UpToDate(home, v) => LinkedHomes(home, chain, kids)
  BY <1>2, <1>5 DEF UpToDate, Got
<1>7. Going(r, home, Sent(none)) /\ UpToDate(home, Sent(none)) /\ Spins(none) = {}
  BY DEF Sent, Going, UpToDate, Quiet, Spins
<1>. HIDE DEF chain, kids, v, none
<1>8. /\ IsTree(r, home, tree')
      /\ LinkedHomes(home, chain, kids) => RightTree(tree', home)
  BY <1>1, <1>2, <1>4, <1>5, LinkTreeIsTree
<1>9. /\ chain \in Seq(Folders) /\ IsInjective(chain) /\ ToSet(chain) \subseteq Folders
      /\ Last(chain) \in Folders /\ Stands(Last(chain), home)
  BY <1>1, <1>4, PathFacts, PathOnServer
<1>10. loaded' \subseteq Folders /\ loading' \subseteq Folders
  BY <1>1, <1>2, <1>5, <1>7, <1>9 DEF Marks
<1>. QED BY <1>1, <1>2, <1>5, <1>6, <1>7, <1>8, <1>9, <1>10, HandlerGoes DEF Marks, v

(* A request fails: what is left of its handler goes on, or nothing.         *)
LEMMA RequestFailsHolds ==
  ASSUME NEW r, Held(r), NEW o \in Handlers, RequestFails(o)
  PROVE  SidebarInv'
<1> DEFINE q == Head(handler[o].todo)
           left == IF q.do \in {"load", "more"} THEN Left(o) ELSE <<>>
           base == IF q.do \in {"load", "more"} THEN loading \ {q.of} ELSE loading
<1>1. Marks /\ IsTree(r, home, tree) /\ Going(r, home, handler[o])
  BY HeldFacts
<1>2. /\ handler[o].at \in {"sent", "read"} /\ failures' = failures + 1
      /\ handler' = [handler EXCEPT ![o] = Sent(left)]
      /\ loading' = base \cup Spins(left)
      /\ UNCHANGED <<tree, expanded, loaded, paging, selected, home>> /\ patient' = patient
  BY DEF RequestFails, Goes
<1>3. left \in Seq(Query(home))
  <2>1. CASE q.do \in {"load", "more"}
    <3>1. handler[o].todo # <<>>
      BY <1>1, <1>2, GoingTyped
    <3>2. Listing(r, home, handler[o])
      BY <1>1, <2>1, <3>1, GoingTyped
    <3>. QED BY <2>1, <3>2, LeftGoes DEF Left
  <2>. QED BY <2>1
<1>4. base \subseteq Folders
  BY <1>1 DEF Marks
<1>. HIDE DEF left, base
<1>5. Going(r, home, Sent(left)) /\ Spins(left) \subseteq Folders
  BY <1>3, SentGoes
<1>6. failures' \in Nat /\ failures' # 0
  BY <1>1, <1>2 DEF Marks
<1>. QED BY <1>1, <1>2, <1>4, <1>5, <1>6, HandlerGoes DEF Marks

(* A step that changes nothing.                                              *)
LEMMA SidebarStutterHolds ==
  ASSUME SidebarInv, UNCHANGED sidebarVars
  PROVE  SidebarInv'
<1>1. PICK r : Held(r)
  BY DEF SidebarInv
<1>2. Marks'
  BY <1>1, HeldFacts DEF sidebarVars, Marks, Stands
<1>3. \A x \in Handlers : Going(r, home, handler'[x]) /\ handler'[x] = handler[x]
  BY <1>1, HeldFacts DEF sidebarVars
<1>. QED BY <1>1, <1>2, <1>3, ActHolds DEF sidebarVars

(* Every step keeps what is held.                                            *)
LEMMA SidebarStepHolds ==
  ASSUME SidebarAssumption, SidebarInv, SidebarNext
  PROVE  SidebarInv'
<1>1. PICK r : Held(r)
  BY DEF SidebarInv
<1>2. ASSUME NEW p \in Visible, NEW o \in Handlers, NEW s \in Handlers, ClickNode(p, s, o)
      PROVE  SidebarInv'
  BY <1>1, <1>2, ClickNodeHolds
<1>3. ASSUME NEW p \in Visible, NEW o \in Handlers,
             LoadMore(p, o) \/ RefreshItem(p, o) \/ DeleteFolder(p, o) \/ RestoreFolder(p, o)
      PROVE  SidebarInv'
  BY <1>1, <1>3, LoadMoreHolds, RefreshItemHolds, DeleteFolderHolds, RestoreFolderHolds
<1>4. ASSUME NEW f \in Folders, NEW o \in Handlers, CreateFolder(f, o) \/ OpenLink(f, o)
      PROVE  SidebarInv'
  BY <1>1, <1>4, CreateFolderHolds, OpenLinkHolds
<1>5. ASSUME NEW o \in Handlers, ServerReads(o)
      PROVE  SidebarInv'
  BY <1>1, <1>5, ServerReadsHolds
<1>6. ASSUME NEW o \in Handlers, RequestEnds(o)
      PROVE  SidebarInv'
  BY <1>1, <1>6, LoadAnsweredHolds, MoreAnsweredHolds, RootAnsweredHolds, ChainAnsweredHolds,
     LinkAnsweredHolds DEF RequestEnds
<1>7. ASSUME NEW o \in Handlers, RequestFails(o)
      PROVE  SidebarInv'
  BY <1>1, <1>7, RequestFailsHolds
<1>. QED BY <1>2, <1>3, <1>4, <1>5, <1>6, <1>7 DEF SidebarNext, Proceeds

(* Whatever is clicked, paged, moved and linked to, and in whatever order the *)
(* answers come or fail to come, no folder is shown twice among its siblings, *)
(* every node hangs below the account, and once all has settled for a user who *)
(* waits, with no request lost, each folder is shown under its parent.       *)
THEOREM SidebarStaysRight == SidebarSpec => []SidebarIsRight
<1>1. SidebarInit => SidebarInv
  BY SidebarAssumption, SidebarInitHolds
<1>2. SidebarInv /\ [SidebarNext]_sidebarVars => SidebarInv'
  BY SidebarAssumption, SidebarStepHolds, SidebarStutterHolds
<1>3. SidebarInv => SidebarIsRight
  BY SidebarInvImplies
<1>. QED BY <1>1, <1>2, <1>3, PTL DEF SidebarSpec
=============================================================================
