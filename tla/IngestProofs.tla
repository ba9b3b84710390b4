---------------------------- MODULE IngestProofs ----------------------------
(***************************************************************************)
(* Proofs about Ingest, for every number of streams, runs, rows, ties and  *)
(* faults, and every page size: its type invariant, that no row is left    *)
(* behind the durable cursor without being archived, that the cursors only *)
(* move forward, and that it implements the durable mirror.                *)
(***************************************************************************)
EXTENDS Ingest, FiniteSetTheorems, TLAPS

(***************************************************************************)
(* Rows and cursors.                                                       *)
(***************************************************************************)
\* The number of rows a cursor leaves behind is a natural number of rows.
LEMMA SentType ==
    ASSUME NEW s \in Stream, NEW c \in Nat, history \in [Stream -> Seq(Nat)]
    PROVE  /\ Sent(s, c) \in Nat
           /\ IsFiniteSet({i \in Row(s) : Before(s, i, c)})
<1>1. Len(history[s]) \in Nat
  OBVIOUS
<1>2. IsFiniteSet(Row(s))
  BY <1>1, FS_Interval DEF Row
<1>3. IsFiniteSet({i \in Row(s) : Before(s, i, c)})
  BY <1>2, FS_Subset
<1>. QED
  BY <1>3, FS_CardinalityType DEF Sent

\* A cursor leaves a prefix behind: when it has left more than k rows behind,
\* it has left row k + 1, and every earlier one.
LEMMA SentIsPrefix ==
    ASSUME NEW s \in Stream, NEW c \in Nat, NEW j \in Row(s),
           history \in [Stream -> Seq(Nat)], Ordered
    PROVE  Before(s, j, c) <=> j <= Sent(s, c)
<1>. DEFINE B == {i \in Row(s) : Before(s, i, c)}
<1>0. /\ Len(history[s]) \in Nat
      /\ Row(s) \subseteq Nat
      /\ j \in Nat
      /\ \A i \in Row(s) : history[s][i] \in Nat
  BY DEF Row
<1>1. /\ IsFiniteSet(B)
      /\ Sent(s, c) = Cardinality(B)
      /\ Sent(s, c) \in Nat
  BY SentType DEF Sent
<1>2. \A i, k \in Row(s) : k <= i /\ Before(s, i, c) => Before(s, k, c)
  BY <1>0 DEF Before, Ordered
<1>3. ASSUME Before(s, j, c)
      PROVE  j <= Sent(s, c)
  <2>1. 1 .. j \subseteq B
    BY <1>0, <1>2, <1>3 DEF Row
  <2>2. Cardinality(1 .. j) = j
    BY <1>0, FS_Interval DEF Row
  <2>3. Cardinality(1 .. j) <= Cardinality(B)
    BY <1>1, <2>1, FS_Subset
  <2>. QED
    BY <1>1, <2>2, <2>3
<1>4. ASSUME ~Before(s, j, c)
      PROVE  Sent(s, c) < j
  <2>1. B \subseteq 1 .. j - 1
    BY <1>0, <1>2, <1>4 DEF Row
  <2>2. /\ IsFiniteSet(1 .. j - 1)
        /\ Cardinality(1 .. j - 1) = j - 1
    <3>1. 1 \in Int /\ j - 1 \in Int /\ j >= 1
      BY <1>0 DEF Row
    <3>2. /\ IsFiniteSet(1 .. j - 1)
          /\ Cardinality(1 .. j - 1) = IF 1 > j - 1 THEN 0 ELSE j - 1 - 1 + 1
      BY <3>1, FS_Interval
    <3>. QED
      BY <1>0, <3>1, <3>2
  <2>3. Cardinality(B) <= Cardinality(1 .. j - 1)
    BY <2>1, <2>2, FS_Subset
  <2>. QED
    BY <1>0, <1>1, <2>2, <2>3
<1>. QED
  BY <1>0, <1>1, <1>3, <1>4

\* The page of /sync for a cursor closes the gap from it to the next cursor.
LEMMA PageClosesGap ==
    ASSUME NEW s \in Stream, NEW c \in Nat,
           history \in [Stream -> Seq(Nat)], Ordered
    PROVE  /\ Page(s, c) \in PageType
           /\ ClosesGap(s, Page(s, c), c)
<1>. DEFINE from == Sent(s, c)
            to == IF from + Limit <= Len(history[s]) THEN from + Limit ELSE Len(history[s])
            d == Page(s, c)
<1>1. /\ Len(history[s]) \in Nat
      /\ Row(s) = 1 .. Len(history[s])
      /\ \A i \in Row(s) : history[s][i] \in Nat
  BY DEF Row
<1>2. /\ from \in Nat
      /\ Limit \in Nat \ {0}
      /\ to \in Nat
      /\ to <= Len(history[s])
  <2>1. from \in Nat
    BY SentType
  <2>2. Limit \in Nat \ {0}
    BY IngestAssumption DEF IngestAssumption
  <2>. QED
    BY <1>1, <2>1, <2>2
<1>3. /\ d.rows = from + 1 .. to
      /\ d.full = (to >= from + Limit)
      /\ d.next = IF to > from THEN CursorAt(s, to) ELSE 0
      /\ d = [rows |-> d.rows, full |-> d.full, next |-> d.next]
  BY DEF Page
<1>4. d.rows \subseteq Row(s)
  BY <1>1, <1>2, <1>3
<1>5. ASSUME to > from
      PROVE  /\ to \in Row(s)
             /\ to \in d.rows
             /\ CursorAt(s, to) \in Nat
             /\ ~Before(s, to, c)
             /\ CursorAt(s, to) >= c
  <2>1. to \in Row(s) /\ to \in d.rows
    BY <1>1, <1>2, <1>3, <1>5
  <2>2. ~Before(s, to, c)
    BY <1>2, <1>5, <2>1, SentIsPrefix
  <2>. QED
    BY <1>1, <1>2, <2>1, <2>2 DEF CursorAt, Before
<1>6. d \in PageType
  <2>1. d.rows \in SUBSET Nat
    BY <1>1, <1>4
  <2>2. d.full \in BOOLEAN
    BY <1>3
  <2>3. d.next \in Nat
    BY <1>2, <1>3, <1>5
  <2>. HIDE DEF d
  <2>. QED
    BY <1>3, <2>1, <2>2, <2>3 DEF PageType
<1>7. ASSUME to > from, NEW j \in Row(s), Before(s, j, CursorAt(s, to))
      PROVE  Before(s, j, c) \/ j \in d.rows
  <2>1. j <= to
    BY <1>1, <1>2, <1>5, <1>7 DEF Before, CursorAt, Ordered
  <2>2. CASE j <= from
    BY <2>2, SentIsPrefix
  <2>3. CASE j > from
    BY <1>1, <1>2, <1>3, <2>1, <2>3
  <2>. QED
    BY <1>1, <1>2, <2>2, <2>3
<1>8. d.next # 0 => to > from
  BY <1>2, <1>3
<1>. QED
  BY <1>3, <1>4, <1>5, <1>6, <1>7, <1>8 DEF ClosesGap

-----------------------------------------------------------------------------
(***************************************************************************)
(* What a step leaves of the invariant.                                    *)
(***************************************************************************)
\* A run that has not started is well typed.
LEMMA NoRunType == NoRun \in RunType
<1>1. [s \in Stream |-> 0] \in [Stream -> Nat]
  OBVIOUS
<1>2. NoHeartbeat \in Heartbeat
  BY DEF NoHeartbeat, Heartbeat
<1>3. NoPage \in [Stream -> PageType]
  BY DEF NoPage, PageType
<1>. QED
  BY <1>1, <1>2, <1>3 DEF NoRun, RunType

\* The conjuncts that only speak of the Domia and the archive.
ArchiveInv == Ordered /\ CursorBehindMirror /\ CursorNamesArchivedRow /\ ShownIsArchived

\* They survive every step that touches none of the variables they read.
LEMMA ArchiveKept ==
    ASSUME ArchiveInv, UNCHANGED <<history, mirror, cursor, shown>>
    PROVE  ArchiveInv'
<1>. QED
  BY DEF ArchiveInv, Ordered, CursorBehindMirror, CursorNamesArchivedRow,
         ShownIsArchived, Row, Before, CursorAt

\* A run that ends leaves the invariant behind.
LEMMA FinallyKeeps ==
    ASSUME IngestInv, NEW r \in Run, pc[r] # "idle", Finally(r),
           UNCHANGED <<domia, mirror, cursor, shown, faults>>, sweepDue' \in BOOLEAN
    PROVE  IngestInv'
<1>1. TypeOK'
  BY NoRunType DEF IngestInv, TypeOK, Finally, Goto, domia, Step
<1>2. ArchiveInv'
  BY ArchiveKept DEF IngestInv, ArchiveInv, domia
<1>3. \A q \in Run : pc'[q] = "idle"
  BY DEF IngestInv, TypeOK, OneRun, Finally, Goto
<1>4. OneRun' /\ RunHoldsCursors' /\ ReplyClosesGap' /\ PageArchived'
  BY <1>3 DEF OneRun, RunHoldsCursors, ReplyClosesGap, PageArchived
<1>. QED
  BY <1>1, <1>2, <1>4 DEF IngestInv, ArchiveInv

\* So does the loss of the collector's memory.
LEMMA LoseMemoryKeeps ==
    ASSUME IngestInv, LoseMemory, UNCHANGED history, heartbeat' \in Heartbeat,
           mirror' \in [Stream -> SUBSET Nat], cursor' \in [Stream -> Nat],
           sweepDue' \in BOOLEAN, shown' \in Nat, ArchiveInv'
    PROVE  IngestInv'
<1>1. TypeOK'
  <2>1. pc' \in [Run -> Step] /\ run' \in [Run -> RunType]
    BY NoRunType DEF LoseMemory, Step
  <2>2. inFlight' \in BOOLEAN
    BY DEF LoseMemory
  <2>3. faults' \in Nat
    BY DEF IngestInv, TypeOK, LoseMemory
  <2>. QED
    BY <2>1, <2>2, <2>3 DEF IngestInv, TypeOK
<1>2. \A q \in Run : pc'[q] = "idle"
  BY DEF LoseMemory
<1>3. OneRun' /\ RunHoldsCursors' /\ ReplyClosesGap' /\ PageArchived'
  BY <1>2 DEF OneRun, RunHoldsCursors, ReplyClosesGap, PageArchived
<1>. QED
  BY <1>1, <1>3 DEF IngestInv, ArchiveInv

\* A step of a live run that only moves it on, and changes none of what the
\* archive invariant reads, keeps what it says of the run's page.
LEMMA RunMovesOn ==
    ASSUME IngestInv, NEW r \in Run, pc[r] # "idle",
           UNCHANGED <<domia, mirror, cursor, sweepDue, shown, inFlight, faults>>,
           NEW step \in Step, pc' = [pc EXCEPT ![r] = step],
           NEW v \in RunType, run' = [run EXCEPT ![r] = v],
           v.cursors = run[r].cursors,
           step \in {"reply", "archiveAudio"} =>
               \A s \in Stream : ClosesGap(s, v.data[s], cursor[s]),
           step = "archiveAudio" => \A s \in Stream : v.data[s].rows \subseteq mirror[s]
    PROVE  IngestInv'
<1>1. TypeOK'
  BY DEF IngestInv, TypeOK, domia
<1>2. ArchiveInv'
  BY ArchiveKept DEF IngestInv, ArchiveInv, domia
<1>3. /\ pc'[r] = step
      /\ run'[r] = v
      /\ \A q \in Run : q # r => pc'[q] = pc[q] /\ run'[q] = run[q]
      /\ \A q \in Run : q # r => pc[q] = "idle"
      /\ pc \in [Run -> Step]
      /\ run \in [Run -> RunType]
  BY DEF IngestInv, TypeOK, OneRun
<1>4. OneRun'
  BY <1>3 DEF IngestInv, OneRun
<1>5. RunHoldsCursors'
  BY <1>3 DEF IngestInv, RunHoldsCursors
<1>6. ReplyClosesGap'
  BY <1>3 DEF IngestInv, ReplyClosesGap, ClosesGap, Row, Before, CursorAt, domia
<1>7. PageArchived'
  BY <1>3 DEF IngestInv, PageArchived
<1>. QED
  BY <1>1, <1>2, <1>4, <1>5, <1>6, <1>7 DEF IngestInv, ArchiveInv
-----------------------------------------------------------------------------
(***************************************************************************)
(* The steps, one by one.                                                  *)
(***************************************************************************)
\* A recorded row is behind no cursor that is 0 or names an earlier row.
LEMMA AppendFacts ==
    ASSUME TypeOK, Ordered, NEW u \in Stream, Append1(u)
    PROVE  /\ history' \in [Stream -> Seq(Nat)]
           /\ Ordered'
           /\ \A s \in Stream : Row(s) \subseteq Row(s)'
           /\ \A s \in Stream : \A i \in Row(s) : history'[s][i] = history[s][i]
           /\ \A s \in Stream : \A k \in Row(s)' : \A i \in Row(s) :
                k \notin Row(s) => i < k /\ history'[s][i] <= history'[s][k]
           /\ \A s \in Stream : Row(s)' \subseteq Nat
<1>1. PICK at \in {NewestAt(u), NewestAt(u) + 1} :
         /\ at > 0
         /\ history' = [history EXCEPT ![u] = Append(@, at)]
  BY DEF Append1
<1>2. /\ history \in [Stream -> Seq(Nat)]
      /\ Len(history[u]) \in Nat
      /\ \A i \in Row(u) : history[u][i] \in Nat
  BY DEF TypeOK, Row
<1>3. /\ at \in Nat
      /\ \A i \in Row(u) : history[u][i] <= at
  <2>1. CASE history[u] = <<>>
    BY <1>1, <2>1 DEF NewestAt, Row
  <2>2. CASE history[u] # <<>>
    <3>1. Len(history[u]) \in Row(u)
      BY <1>2, <2>2 DEF Row
    <3>2. NewestAt(u) = history[u][Len(history[u])]
      BY <2>2 DEF NewestAt
    <3>3. \A i \in Row(u) : i <= Len(history[u])
      BY <1>2 DEF Row
    <3>4. \A i \in Row(u) : history[u][i] <= NewestAt(u)
      BY <3>1, <3>2, <3>3 DEF Ordered
    <3>. QED
      BY <1>1, <1>2, <3>1, <3>2, <3>4
  <2>. QED
    BY <2>1, <2>2
<1>4. /\ history' \in [Stream -> Seq(Nat)]
      /\ \A s \in Stream : s # u => history'[s] = history[s]
      /\ Len(history'[u]) = Len(history[u]) + 1
      /\ \A i \in Row(u) : history'[u][i] = history[u][i]
      /\ history'[u][Len(history[u]) + 1] = at
  BY <1>1, <1>2, <1>3 DEF Row
<1>5. /\ Row(u)' = Row(u) \union {Len(history[u]) + 1}
      /\ \A i \in Row(u) : i < Len(history[u]) + 1
      /\ \A s \in Stream : s # u => Row(s)' = Row(s)
      /\ \A s \in Stream : Row(s)' \subseteq Nat
  BY <1>2, <1>4 DEF Row
<1>6. Ordered'
  <2>0. ASSUME NEW i \in Row(u)', NEW j \in Row(u)'
        PROVE  history'[u][i] > 0 /\ (i <= j => history'[u][i] <= history'[u][j])
    <3>. DEFINE k == Len(history[u]) + 1
    <3>1. i \in Row(u) \/ i = k
      BY <1>5
    <3>2. j \in Row(u) \/ j = k
      BY <1>5
    <3>3. history'[u][k] = at /\ at > 0 /\ at \in Nat
      BY <1>1, <1>3, <1>4
    <3>4. CASE i \in Row(u) /\ j \in Row(u)
      BY <1>4, <3>4 DEF Ordered
    <3>5. CASE i \in Row(u) /\ j = k
      BY <1>3, <1>4, <3>3, <3>5 DEF Ordered
    <3>6. CASE i = k /\ j \in Row(u)
      <4>1. ~(i <= j)
        BY <1>2, <1>5, <3>6 DEF Row
      <4>. QED
        BY <3>3, <3>6, <4>1
    <3>7. CASE i = k /\ j = k
      BY <3>3, <3>7
    <3>. QED
      BY <3>1, <3>2, <3>4, <3>5, <3>6, <3>7
  <2>1. ASSUME NEW s \in Stream, NEW i \in Row(s)', NEW j \in Row(s)'
        PROVE  history'[s][i] > 0 /\ (i <= j => history'[s][i] <= history'[s][j])
    <3>1. CASE s # u
      BY <1>4, <1>5, <2>1, <3>1 DEF Ordered
    <3>2. CASE s = u
      BY <2>0, <3>2
    <3>. QED
      BY <3>1, <3>2
  <2>. QED
    BY <2>1 DEF Ordered
<1>. QED
  BY <1>3, <1>4, <1>5, <1>6
\* A recorded row is before none of the cursors a page or the archive can hold.
LEMMA AppendedAfterCursor ==
    ASSUME TypeOK, Ordered, NEW u \in Stream, Append1(u),
           NEW s \in Stream, NEW k \in Row(s)', k \notin Row(s), NEW c \in Nat,
           c # 0 => \E i \in Row(s) : CursorAt(s, i) = c
    PROVE  ~(IF s = Interaction THEN history'[s][k] < c ELSE k <= c)
<1>1. /\ history' \in [Stream -> Seq(Nat)]
      /\ Ordered'
      /\ \A i \in Row(s) : i < k /\ history'[s][i] = history[s][i]
                           /\ history'[s][i] <= history'[s][k]
      /\ k \in Nat
  BY AppendFacts
<1>2. history'[s][k] \in Nat /\ k > 0
  BY <1>1 DEF Row
<1>3. CASE c = 0
  BY <1>1, <1>2, <1>3
<1>4. CASE c # 0
  <2>1. PICK i \in Row(s) : CursorAt(s, i) = c
    BY <1>4
  <2>2. i \in Nat /\ history[s][i] \in Nat
    BY DEF TypeOK, Row
  <2>. QED
    BY <1>1, <1>2, <2>1, <2>2 DEF CursorAt
<1>. QED
  BY <1>3, <1>4

\* A row that a node records comes after those it has.
LEMMA AppendKeeps ==
    ASSUME IngestInv, NEW u \in Stream, Append1(u)
    PROVE  IngestInv'
<1>1. /\ history' \in [Stream -> Seq(Nat)]
      /\ Ordered'
      /\ \A s \in Stream : Row(s) \subseteq Row(s)'
      /\ \A s \in Stream : \A i \in Row(s) : history'[s][i] = history[s][i]
  BY AppendFacts DEF IngestInv
<1>2. UNCHANGED <<heartbeat, mirror, cursor, sweepDue, shown, inFlight, pc, run, faults>>
  BY DEF Append1, archive, memory
<1>3. TypeOK'
  BY <1>1, <1>2 DEF IngestInv, TypeOK
<1>4. OneRun' /\ RunHoldsCursors' /\ PageArchived'
  BY <1>2 DEF IngestInv, OneRun, RunHoldsCursors, PageArchived
<1>5. \A s \in Stream : \A i \in Row(s) : CursorAt(s, i)' = CursorAt(s, i)
  BY <1>1 DEF CursorAt
<1>6. \A s \in Stream : cursor[s] \in Nat /\ (cursor[s] # 0 => \E i \in Row(s) : CursorAt(s, i) = cursor[s])
  BY DEF IngestInv, TypeOK, CursorNamesArchivedRow
<1>7. CursorBehindMirror'
  <2>1. ASSUME NEW s \in Stream, NEW i \in Row(s)',
               IF s = Interaction THEN history'[s][i] < cursor[s] ELSE i <= cursor[s]
        PROVE  i \in mirror[s]
    <3>1. i \in Row(s)
      BY <1>6, <2>1, AppendedAfterCursor DEF IngestInv
    <3>. QED
      BY <1>1, <2>1, <3>1 DEF IngestInv, CursorBehindMirror, Before
  <2>. QED
    BY <1>2, <2>1 DEF CursorBehindMirror, Before
<1>8. CursorNamesArchivedRow'
  BY <1>1, <1>2, <1>5 DEF IngestInv, CursorNamesArchivedRow
<1>9. ShownIsArchived'
  <2>1. Interaction \in Stream
    BY DEF Stream
  <2>. QED
    BY <1>1, <1>2, <2>1 DEF IngestInv, ShownIsArchived
<1>10. ReplyClosesGap'
  <2>1. ASSUME NEW r \in Run, pc[r] \in {"reply", "archiveAudio"}, NEW s \in Stream
        PROVE  ClosesGap(s, run[r].data[s], cursor[s])'
    <3>. DEFINE d == run[r].data[s]
    <3>1. ClosesGap(s, d, cursor[s])
      BY <2>1 DEF IngestInv, ReplyClosesGap
    <3>2. d.next \in Nat
      BY DEF IngestInv, TypeOK, RunType, PageType
    <3>3. d' = d /\ cursor'[s] = cursor[s]
      BY <1>2
    <3>4. d.rows \subseteq Row(s)'
      BY <1>1, <3>1 DEF ClosesGap
    <3>5. ASSUME d.next # 0
          PROVE  /\ d.next >= cursor[s]
                 /\ \E i \in d.rows : CursorAt(s, i)' = d.next
                 /\ \E i \in Row(s) : CursorAt(s, i) = d.next
      BY <1>5, <3>1, <3>5 DEF ClosesGap
    <3>6. ASSUME d.next # 0, NEW j \in Row(s)',
                 IF s = Interaction THEN history'[s][j] < d.next ELSE j <= d.next
          PROVE  \/ IF s = Interaction THEN history'[s][j] < cursor[s] ELSE j <= cursor[s]
                 \/ j \in d.rows
      <4>1. j \in Row(s)
        BY <3>2, <3>5, <3>6, AppendedAfterCursor DEF IngestInv
      <4>. QED
        BY <1>1, <3>1, <3>6, <4>1 DEF ClosesGap, Before
    <3>. QED
      BY <3>3, <3>4, <3>5, <3>6 DEF ClosesGap, Before
  <2>. QED
    BY <1>2, <2>1 DEF ReplyClosesGap
<1>. QED
  BY <1>1, <1>3, <1>4, <1>7, <1>8, <1>9, <1>10 DEF IngestInv

\* Writing the advanced cursors of an archived page keeps the archive sound,
\* whether or not the registry row is written after it.
LEMMA CursorsWritten ==
    ASSUME IngestInv, NEW r \in Run, pc[r] = "archiveAudio", WriteCursorRow(r),
           UNCHANGED <<history, mirror>>, WriteRegistryRow(r) \/ UNCHANGED shown
    PROVE  /\ cursor' \in [Stream -> Nat]
           /\ sweepDue' \in BOOLEAN
           /\ shown' \in Nat
           /\ cursor' = Merged(r)
           /\ \A s \in Stream : cursor'[s] >= cursor[s]
           /\ ArchiveInv'
<1>. DEFINE d(s) == run[r].data[s]
<1>1. /\ run[r].cursors = cursor
      /\ cursor \in [Stream -> Nat]
      /\ sweepDue \in BOOLEAN
      /\ shown \in Nat
      /\ Interaction \in Stream
  BY DEF IngestInv, TypeOK, RunHoldsCursors, Stream
<1>2. \A s \in Stream : /\ d(s).next \in Nat
                        /\ d(s).rows \subseteq mirror[s]
                        /\ ClosesGap(s, d(s), cursor[s])
  BY DEF IngestInv, TypeOK, RunType, PageType, PageArchived, ReplyClosesGap
<1>3. cursor' = [s \in Stream |-> IF s \in Advanced(r) THEN d(s).next ELSE cursor[s]]
  BY <1>1 DEF WriteCursorRow
<1>4. Advanced(r) = {s \in Stream : d(s).next # 0 /\ d(s).next # cursor[s]}
  BY <1>1 DEF Advanced
<1>5. cursor' \in [Stream -> Nat] /\ \A s \in Stream : cursor'[s] >= cursor[s]
  BY <1>1, <1>2, <1>3, <1>4 DEF ClosesGap
<1>6. cursor' = Merged(r)
  BY <1>1, <1>3 DEF Merged
<1>7. sweepDue' \in BOOLEAN
  BY <1>1 DEF WriteCursorRow
<1>8. shown' \in {shown, IF Interaction \in Advanced(r) THEN d(Interaction).next ELSE shown}
  BY DEF WriteRegistryRow
<1>9. Ordered'
  BY DEF IngestInv, Ordered, Row
<1>10. ASSUME NEW s \in Stream, NEW i \in Row(s), Before(s, i, cursor'[s])
       PROVE  i \in mirror[s]
  <2>1. CASE s \in Advanced(r)
    <3>1. Before(s, i, cursor[s]) \/ i \in d(s).rows
      BY <1>2, <1>3, <1>4, <1>10, <2>1 DEF ClosesGap
    <3>. QED
      BY <1>2, <3>1 DEF IngestInv, CursorBehindMirror
  <2>2. CASE s \notin Advanced(r)
    BY <1>3, <1>10, <2>2 DEF IngestInv, CursorBehindMirror
  <2>. QED
    BY <2>1, <2>2
<1>11. CursorBehindMirror'
  BY <1>10 DEF CursorBehindMirror, Before, Row
<1>12. ASSUME NEW s \in Stream, cursor'[s] # 0
       PROVE  \E i \in mirror[s] : i \in Row(s) /\ CursorAt(s, i) = cursor'[s]
  <2>1. CASE s \in Advanced(r)
    BY <1>2, <1>3, <1>4, <2>1 DEF ClosesGap
  <2>2. CASE s \notin Advanced(r)
    BY <1>3, <1>12, <2>2 DEF IngestInv, CursorNamesArchivedRow
  <2>. QED
    BY <2>1, <2>2
<1>13. CursorNamesArchivedRow'
  BY <1>12 DEF CursorNamesArchivedRow, CursorAt, Row
<1>14. shown' \in Nat /\ ShownIsArchived'
  <2>1. CASE shown' = shown
    BY <1>1, <1>5, <2>1 DEF IngestInv, ShownIsArchived, Row
  <2>2. CASE shown' # shown
    <3>1. shown' = d(Interaction).next /\ Interaction \in Advanced(r)
      BY <1>8, <2>2
    <3>2. shown' \in Nat /\ shown' = cursor'[Interaction]
      BY <1>1, <1>2, <1>3, <3>1
    <3>3. shown' # 0 => \E i \in mirror[Interaction] : i \in Row(Interaction)
                             /\ CursorAt(Interaction, i) = shown'
      BY <1>1, <1>12, <3>2
    <3>. QED
      BY <3>2, <3>3 DEF ShownIsArchived, CursorAt, Row
  <2>. QED
    BY <2>1, <2>2
<1>. QED
  BY <1>5, <1>6, <1>7, <1>9, <1>11, <1>13, <1>14 DEF ArchiveInv
\* The run reads the cursors and becomes the one live run.
LEMMA StartKeeps ==
    ASSUME IngestInv, NEW r \in Run, StartIngest(r)
    PROVE  IngestInv'
<1>. DEFINE v == [NoRun EXCEPT !.cursors = cursor, !.beat = heartbeat]
<1>1. v \in RunType /\ v.cursors = cursor
  BY NoRunType DEF IngestInv, TypeOK, RunType
<1>2. /\ pc' = [pc EXCEPT ![r] = "retryAudio"]
      /\ run' = [run EXCEPT ![r] = v]
      /\ inFlight' = TRUE
      /\ heartbeat' = NoHeartbeat
      /\ UNCHANGED <<history, mirror, cursor, sweepDue, shown, faults>>
  BY DEF StartIngest, Goto, archive
<1>3. \A q \in Run : pc[q] = "idle"
  BY DEF IngestInv, OneRun, StartIngest
<1>4. pc \in [Run -> Step] /\ run \in [Run -> RunType]
  BY DEF IngestInv, TypeOK
<1>. HIDE DEF v
<1>5. TypeOK'
  <2>1. heartbeat' \in Heartbeat
    BY <1>2 DEF NoHeartbeat, Heartbeat
  <2>2. pc' \in [Run -> Step] /\ run' \in [Run -> RunType]
    BY <1>1, <1>2, <1>4 DEF Step
  <2>. QED
    BY <1>2, <2>1, <2>2 DEF IngestInv, TypeOK
<1>6. ArchiveInv'
  BY <1>2, ArchiveKept DEF IngestInv, ArchiveInv
<1>7. OneRun' /\ RunHoldsCursors' /\ ReplyClosesGap' /\ PageArchived'
  BY <1>1, <1>2, <1>3, <1>4 DEF OneRun, RunHoldsCursors, ReplyClosesGap, PageArchived
<1>. QED
  BY <1>5, <1>6, <1>7 DEF IngestInv, ArchiveInv

\* The reply is the page of the cursors the run holds, which are the stored ones.
LEMMA ServeKeeps ==
    ASSUME IngestInv, NEW r \in Run, ServeSync(r)
    PROVE  IngestInv'
<1>. DEFINE data == [s \in Stream |-> Page(s, run[r].cursors[s])]
            v == [run[r] EXCEPT !.data = data]
<1>1. /\ run[r] \in RunType
      /\ run[r].cursors = cursor
      /\ pc[r] # "idle"
      /\ cursor \in [Stream -> Nat]
  BY DEF IngestInv, TypeOK, RunHoldsCursors, ServeSync
<1>2. \A s \in Stream : data[s] \in PageType /\ ClosesGap(s, data[s], cursor[s])
  BY <1>1, PageClosesGap DEF IngestInv, TypeOK
<1>3. data \in [Stream -> PageType]
  BY <1>2
<1>4. /\ pc' = [pc EXCEPT ![r] = "reply"]
      /\ run' = [run EXCEPT ![r] = v]
      /\ UNCHANGED <<domia, mirror, cursor, sweepDue, shown, inFlight, faults>>
  BY DEF ServeSync, Goto, archive
<1>. HIDE DEF data
<1>5. v \in RunType /\ v.cursors = run[r].cursors /\ v.data = data
  BY <1>1, <1>3 DEF RunType
<1>6. "reply" \in Step
  BY DEF Step
<1>. HIDE DEF v
<1>. QED
  BY <1>1, <1>2, <1>4, <1>5, <1>6, RunMovesOn

\* The cursors move over the archived page, in the store and in the run.
LEMMA AdvanceKeeps ==
    ASSUME IngestInv, NEW r \in Run, AdvanceCursors(r)
    PROVE  IngestInv'
<1>1. /\ pc[r] = "archiveAudio"
      /\ WriteCursorRow(r)
      /\ WriteRegistryRow(r)
      /\ UNCHANGED <<history, heartbeat, mirror, inFlight, faults>>
  BY DEF AdvanceCursors, domia
<1>2. /\ cursor' \in [Stream -> Nat]
      /\ sweepDue' \in BOOLEAN
      /\ shown' \in Nat
      /\ cursor' = Merged(r)
      /\ ArchiveInv'
  BY <1>1, CursorsWritten
<1>3. PICK step \in {"fetch", "finish"}, page \in Nat, attempt \in Nat :
        /\ pc' = [pc EXCEPT ![r] = step]
        /\ run' = [run EXCEPT ![r] = [run[r] EXCEPT !.cursors = Merged(r), !.data = NoPage,
                                                    !.page = page, !.attempt = attempt]]
  <2>1. run[r] \in RunType /\ run[r].page \in Nat /\ run[r].attempt \in Nat
    BY DEF IngestInv, TypeOK, RunType
  <2>. DEFINE w(page, attempt) == [run[r] EXCEPT !.cursors = Merged(r), !.data = NoPage,
                                                 !.page = page, !.attempt = attempt]
  <2>2. MaxPages \in Nat
    BY IngestAssumption DEF IngestAssumption
  <2>3. CASE PageFull(r) /\ Advanced(r) # {} /\ run[r].page + 1 < MaxPages
    <3>1. /\ pc' = [pc EXCEPT ![r] = "fetch"]
          /\ run' = [run EXCEPT ![r].cursors = Merged(r), ![r].data = NoPage,
                                ![r].page = @ + 1, ![r].attempt = 0]
      BY <2>1, <2>2, <2>3 DEF AdvanceCursors, Goto
    <3>2. run' = [run EXCEPT ![r] = w(run[r].page + 1, 0)]
      BY <2>1, <3>1 DEF RunType, IngestInv, TypeOK
    <3>3. run[r].page + 1 \in Nat /\ 0 \in Nat
      BY <2>1
    <3>. QED
      BY <3>1, <3>2, <3>3
  <2>4. CASE ~(PageFull(r) /\ Advanced(r) # {} /\ run[r].page + 1 < MaxPages)
    <3>1. /\ pc' = [pc EXCEPT ![r] = "finish"]
          /\ run' = [run EXCEPT ![r].cursors = Merged(r), ![r].data = NoPage]
      BY <2>1, <2>2, <2>4 DEF AdvanceCursors, Goto
    <3>2. run' = [run EXCEPT ![r] = w(run[r].page, run[r].attempt)]
      BY <2>1, <3>1 DEF RunType, IngestInv, TypeOK
    <3>. QED
      BY <2>1, <3>1, <3>2
  <2>. QED
    BY <2>3, <2>4
<1>. DEFINE v == [run[r] EXCEPT !.cursors = Merged(r), !.data = NoPage,
                                !.page = page, !.attempt = attempt]
<1>4. v \in RunType /\ v.cursors = cursor'
  <2>1. NoPage \in [Stream -> PageType]
    BY DEF NoPage, PageType
  <2>2. run[r] \in RunType
    BY DEF IngestInv, TypeOK
  <2>. QED
    BY <1>2, <2>1, <2>2 DEF RunType
<1>. HIDE DEF v
<1>5. /\ \A q \in Run : q # r => pc[q] = "idle" /\ pc'[q] = "idle"
      /\ pc'[r] = step /\ run'[r] = v
      /\ pc' \in [Run -> Step] /\ run' \in [Run -> RunType]
      /\ inFlight
  BY <1>1, <1>3, <1>4 DEF IngestInv, TypeOK, OneRun, Step, v
<1>6. TypeOK'
  BY <1>1, <1>2, <1>5 DEF IngestInv, TypeOK
<1>7. OneRun' /\ RunHoldsCursors' /\ ReplyClosesGap' /\ PageArchived'
  BY <1>1, <1>4, <1>5 DEF OneRun, RunHoldsCursors, ReplyClosesGap, PageArchived
<1>. QED
  BY <1>2, <1>6, <1>7 DEF IngestInv, ArchiveInv

-----------------------------------------------------------------------------
(***************************************************************************)
(* The invariant.                                                          *)
(***************************************************************************)
\* The initial state satisfies the invariant.
LEMMA InitInv == Init => IngestInv
<1>. SUFFICES ASSUME Init PROVE IngestInv
  OBVIOUS
<1>1. TypeOK
  <2>1. history \in [Stream -> Seq(Nat)]
    BY DEF Init
  <2>2. mirror \in [Stream -> SUBSET Nat] /\ cursor \in [Stream -> Nat] /\ shown \in Nat
    BY DEF Init, EmptyArchive
  <2>3. heartbeat \in Heartbeat
    BY DEF Init, NoHeartbeat, Heartbeat
  <2>4. pc \in [Run -> Step] /\ run \in [Run -> RunType]
    BY NoRunType DEF Init, Step
  <2>5. inFlight \in BOOLEAN /\ sweepDue \in BOOLEAN /\ faults \in Nat
    BY DEF Init, EmptyArchive
  <2>. QED
    BY <2>1, <2>2, <2>3, <2>4, <2>5 DEF TypeOK
<1>2. Ordered
  BY DEF Init, Ordered, Row
<1>3. /\ CursorBehindMirror
      /\ CursorNamesArchivedRow
      /\ ShownIsArchived
  BY DEF Init, EmptyArchive, CursorBehindMirror, CursorNamesArchivedRow, ShownIsArchived, Row
<1>4. OneRun /\ RunHoldsCursors /\ ReplyClosesGap /\ PageArchived
  BY DEF Init, OneRun, RunHoldsCursors, ReplyClosesGap, PageArchived
<1>. QED
  BY <1>1, <1>2, <1>3, <1>4 DEF IngestInv

\* Every step of ingestFrom keeps the invariant.
LEMMA IngestingKeeps ==
    ASSUME IngestInv, NEW r \in Run, Ingesting(r)
    PROVE  IngestInv'
<1>0. /\ run[r] \in RunType
      /\ sweepDue \in BOOLEAN
      /\ mirror \in [Stream -> SUBSET Nat]
      /\ pc \in [Run -> Step]
      /\ run \in [Run -> RunType]
  BY DEF IngestInv, TypeOK
<1>1. CASE StartIngest(r)
  BY <1>1, StartKeeps
<1>2. CASE DecideSync(r)
  <2>1. CASE Finally(r)
    BY <1>0, <1>2, <2>1, FinallyKeeps DEF DecideSync, archive
  <2>2. CASE ~Finally(r)
    <3>. DEFINE v == [run[r] EXCEPT !.sweep = sweepDue]
    <3>1. /\ pc' = [pc EXCEPT ![r] = "fetch"]
          /\ run' = [run EXCEPT ![r] = v]
          /\ pc[r] # "idle"
          /\ UNCHANGED <<domia, mirror, cursor, sweepDue, shown, inFlight, faults>>
      BY <1>2, <2>2 DEF DecideSync, Goto, archive
    <3>2. v \in RunType /\ v.cursors = run[r].cursors
      BY <1>0 DEF RunType
    <3>. HIDE DEF v
    <3>. QED
      BY <3>1, <3>2, RunMovesOn DEF Step
  <2>. QED
    BY <2>1, <2>2
<1>3. CASE FetchNowhere(r)
  <2>1. run' = [run EXCEPT ![r] = run[r]]
    BY <1>0, <1>3 DEF FetchNowhere
  <2>. QED
    BY <1>0, <1>3, <2>1, RunMovesOn DEF FetchNowhere, Goto, Step, archive
<1>4. CASE ServeSync(r)
  BY <1>4, ServeKeeps
<1>5. CASE RetryFetch(r)
  <2>. DEFINE v == [run[r] EXCEPT !.attempt = @ + 1, !.data = NoPage]
  <2>1. /\ pc' = [pc EXCEPT ![r] = "fetch"]
        /\ run' = [run EXCEPT ![r] = v]
        /\ pc[r] # "idle"
        /\ UNCHANGED <<domia, mirror, cursor, sweepDue, shown, inFlight, faults>>
    BY <1>5 DEF RetryFetch, Goto, archive
  <2>2. NoPage \in [Stream -> PageType]
    BY DEF NoPage, PageType
  <2>0. run[r].attempt + 1 \in Nat
    BY <1>0 DEF RunType
  <2>3. v \in RunType /\ v.cursors = run[r].cursors
    <3>. DEFINE n == run[r].attempt + 1
    <3>1. v = [run[r] EXCEPT !.attempt = n, !.data = NoPage]
      BY <1>0 DEF RunType
    <3>2. n \in Nat
      BY <2>0
    <3>. HIDE DEF n, v
    <3>. QED
      BY <1>0, <2>2, <3>1, <3>2 DEF RunType
  <2>. HIDE DEF v
  <2>. QED
    BY <2>1, <2>3, RunMovesOn DEF Step
<1>6. CASE FetchThrows(r)
  BY <1>0, <1>6, FinallyKeeps DEF FetchThrows, archive
<1>7. CASE MirrorSync(r)
  <2>1. /\ pc[r] = "reply"
        /\ pc' = [pc EXCEPT ![r] = "archiveAudio"]
        /\ mirror' = [s \in Stream |-> mirror[s] \union run[r].data[s].rows]
        /\ UNCHANGED <<history, heartbeat, cursor, sweepDue, shown, inFlight, run, faults>>
    BY <1>7 DEF MirrorSync, Goto, domia
  <2>2. \A s \in Stream : run[r].data[s].rows \subseteq Nat
    BY <1>0 DEF RunType, PageType
  <2>3. TypeOK'
    BY <1>0, <2>1, <2>2 DEF IngestInv, TypeOK, Step
  <2>4. /\ \A q \in Run : q # r => pc[q] = "idle" /\ pc'[q] = "idle"
        /\ pc'[r] = "archiveAudio"
    BY <1>0, <2>1 DEF IngestInv, OneRun
  <2>5. OneRun' /\ RunHoldsCursors'
    BY <2>1, <2>4 DEF IngestInv, OneRun, RunHoldsCursors
  <2>6. ReplyClosesGap' /\ PageArchived'
    BY <2>1, <2>4 DEF IngestInv, ReplyClosesGap, ClosesGap, PageArchived, Row, Before, CursorAt
  <2>7. Interaction \in Stream
    BY DEF Stream
  <2>8. ArchiveInv'
    BY <2>1, <2>7 DEF IngestInv, ArchiveInv, Ordered, CursorBehindMirror,
         CursorNamesArchivedRow, ShownIsArchived, Row, Before, CursorAt
  <2>. QED
    BY <2>3, <2>5, <2>6, <2>8 DEF IngestInv, ArchiveInv
<1>8. CASE MirrorThrows(r)
  BY <1>0, <1>8, FinallyKeeps DEF MirrorThrows, archive
<1>9. CASE AdvanceCursors(r)
  BY <1>9, AdvanceKeeps
<1>10. CASE FinishIngest(r)
  BY <1>0, <1>10, FinallyKeeps DEF FinishIngest, archive
<1>11. CASE CrashInWriteCursors(r)
  <2>1. /\ LoseMemory
        /\ UNCHANGED <<history, heartbeat, mirror, shown>>
        /\ WriteCursorRow(r)
        /\ pc[r] = "archiveAudio"
    BY <1>11 DEF CrashInWriteCursors, domia
  <2>2. /\ cursor' \in [Stream -> Nat]
        /\ sweepDue' \in BOOLEAN
        /\ shown' \in Nat
        /\ ArchiveInv'
    BY <2>1, CursorsWritten
  <2>3. heartbeat' \in Heartbeat /\ mirror' \in [Stream -> SUBSET Nat]
    BY <2>1 DEF IngestInv, TypeOK
  <2>. QED
    BY <2>1, <2>2, <2>3, LoseMemoryKeeps
<1>. QED
  BY <1>1, <1>2, <1>3, <1>4, <1>5, <1>6, <1>7, <1>8, <1>9, <1>10, <1>11 DEF Ingesting

\* Every step of the specification keeps the invariant.
LEMMA NextInv == IngestInv /\ [Next]_vars => IngestInv'
<1>. SUFFICES ASSUME IngestInv, [Next]_vars PROVE IngestInv'
  OBVIOUS
<1>0. TypeOK
  BY DEF IngestInv
<1>1. ASSUME NEW u \in Stream, Append1(u) PROVE IngestInv'
  BY <1>1, AppendKeeps
<1>2. ASSUME UNCHANGED <<history, mirror, cursor, shown, memory, faults>>,
             heartbeat' \in Heartbeat, sweepDue' \in BOOLEAN
      PROVE  IngestInv'
  <2>1. TypeOK'
    BY <1>0, <1>2 DEF TypeOK, memory
  <2>2. ArchiveInv'
    BY <1>2, ArchiveKept DEF IngestInv, ArchiveInv
  <2>3. OneRun' /\ RunHoldsCursors' /\ ReplyClosesGap' /\ PageArchived'
    BY <1>2 DEF IngestInv, OneRun, RunHoldsCursors, ReplyClosesGap, ClosesGap, PageArchived,
         Row, Before, CursorAt, memory
  <2>. QED
    BY <2>1, <2>2, <2>3 DEF IngestInv, ArchiveInv
<1>3. ASSUME NEW a \in Addressed, Beat(a) PROVE IngestInv'
  <2>1. NewestAt(Interaction) \in Nat /\ NewestAt(Turn) \in Nat
    <3>1. Interaction \in Stream /\ Turn \in Stream
      BY DEF Stream, Keyset
    <3>. QED
      BY <1>0, <3>1 DEF TypeOK, NewestAt
  <2>2. a \in BOOLEAN
    BY IngestAssumption DEF IngestAssumption
  <2>3. heartbeat' \in Heartbeat /\ sweepDue' \in BOOLEAN
    BY <1>0, <1>3, <2>1, <2>2 DEF Beat, Heartbeat, TypeOK, archive
  <2>. QED
    BY <1>2, <1>3, <2>3 DEF Beat, archive
<1>4. CASE SweepElapses
  BY <1>0, <1>2, <1>4 DEF SweepElapses, TypeOK, domia
<1>5. CASE SkipBusy
  <2>1. heartbeat' \in Heartbeat
    BY <1>5 DEF SkipBusy, NoHeartbeat, Heartbeat
  <2>. QED
    BY <1>0, <1>2, <1>5, <2>1 DEF SkipBusy, TypeOK, archive
<1>6. ASSUME NEW r \in Run, Ingesting(r) PROVE IngestInv'
  BY <1>6, IngestingKeeps
<1>7. CASE Crash
  <2>1. ArchiveInv'
    BY <1>7, ArchiveKept DEF Crash, archive, domia, IngestInv, ArchiveInv
  <2>. QED
    BY <1>0, <1>7, <2>1, LoseMemoryKeeps DEF Crash, archive, domia, TypeOK
<1>8. CASE DeleteArchive
  <2>1. Interaction \in Stream
    BY DEF Stream
  <2>2. ArchiveInv'
    BY <1>0, <1>8 DEF DeleteArchive, domia, IngestInv, ArchiveInv, Ordered, CursorBehindMirror,
         CursorNamesArchivedRow, ShownIsArchived, Row, Before, TypeOK
  <2>. QED
    BY <1>0, <1>8, <2>2, LoseMemoryKeeps DEF DeleteArchive, domia, TypeOK
<1>9. CASE UNCHANGED vars
  BY <1>0, <1>2, <1>9 DEF vars, memory, TypeOK
<1>. QED
  BY <1>1, <1>3, <1>4, <1>5, <1>6, <1>7, <1>8, <1>9 DEF Next

\* The collector keeps its whole invariant for every value of the constants.
THEOREM IngestInvariant == Spec => []IngestInv
<1>. QED
  BY InitInv, NextInv, PTL DEF Spec

\* Every variable stays in its domain.
THEOREM TypeCorrect == Spec => []TypeOK
<1>1. IngestInv => TypeOK
  BY DEF IngestInv
<1>. QED
  BY <1>1, IngestInvariant, PTL

\* No row is ever left behind the durable cursor without being archived, for
\* any number of rows, ties, pages, runs and faults.
THEOREM NothingLostBehindCursor == Spec => []CursorBehindMirror
<1>1. IngestInv => CursorBehindMirror
  BY DEF IngestInv
<1>. QED
  BY <1>1, IngestInvariant, PTL

\* The interaction the Console names as a Domia's last is one it can open.
THEOREM ShownIsAlwaysArchived == Spec => []ShownIsArchived
<1>1. IngestInv => ShownIsArchived
  BY DEF IngestInv
<1>. QED
  BY <1>1, IngestInvariant, PTL

\* The cursors a run of ingestFrom holds between two awaits are those stored in the archive, so
\* that what it writes back is never older than what another run has stored.
THEOREM RunsHoldStoredCursors == Spec => []RunHoldsCursors
<1>1. IngestInv => RunHoldsCursors
  BY DEF IngestInv
<1>. QED
  BY <1>1, IngestInvariant, PTL

\* Every stored cursor was taken from a row that the archive holds.
THEOREM CursorsNameArchivedRows == Spec => []CursorNamesArchivedRow
<1>1. IngestInv => CursorNamesArchivedRow
  BY DEF IngestInv
<1>. QED
  BY <1>1, IngestInvariant, PTL

\* The stored cursors only move forward, short of a deleted archive.
THEOREM CursorsOnlyMoveForward == Spec => CursorsMoveForward
<1>1. ASSUME IngestInv, [Next]_vars
      PROVE  [(\A s \in Stream : cursor'[s] >= cursor[s]) \/ DeleteArchive]_cursor
  <2>0. \A s \in Stream : cursor[s] \in Nat
    BY <1>1 DEF IngestInv, TypeOK
  <2>1. ASSUME UNCHANGED cursor
        PROVE  [(\A s \in Stream : cursor'[s] >= cursor[s]) \/ DeleteArchive]_cursor
    BY <2>1
  <2>2. ASSUME NEW r \in Run, AdvanceCursors(r)
        PROVE  \A s \in Stream : cursor'[s] >= cursor[s]
    BY <1>1, <2>2, CursorsWritten DEF AdvanceCursors, domia
  <2>3. ASSUME NEW r \in Run, CrashInWriteCursors(r)
        PROVE  \A s \in Stream : cursor'[s] >= cursor[s]
    BY <1>1, <2>3, CursorsWritten DEF CrashInWriteCursors, domia
  <2>4. ASSUME NEW r \in Run, Ingesting(r), ~AdvanceCursors(r), ~CrashInWriteCursors(r)
        PROVE  UNCHANGED cursor
    BY <2>4 DEF Ingesting, StartIngest, DecideSync, FetchNowhere, ServeSync, RetryFetch,
         FetchThrows, MirrorSync, MirrorThrows, FinishIngest, archive
  <2>5. CASE \/ \E s \in Stream : Append1(s)
             \/ \E a \in Addressed : Beat(a)
             \/ SweepElapses
             \/ SkipBusy
             \/ Crash
             \/ UNCHANGED vars
    BY <2>1, <2>5 DEF Append1, Beat, SweepElapses, SkipBusy, Crash, archive, vars
  <2>6. CASE DeleteArchive
    BY <2>6
  <2>. QED
    BY <1>1, <2>1, <2>2, <2>3, <2>4, <2>5, <2>6 DEF Next
<1>. QED
  BY <1>1, IngestInvariant, PTL DEF Spec, CursorsMoveForward

-----------------------------------------------------------------------------
(***************************************************************************)
(* The collector implements the durable mirror.                            *)
(***************************************************************************)
\* The archive holds only rows the Domia has recorded.
MirrorIsRecorded == \A s \in Stream : mirror[s] \subseteq Row(s)

\* The first n rows are n rows.
LEMMA FirstRows ==
    ASSUME NEW n \in Nat
    PROVE  IsFiniteSet(1 .. n) /\ Cardinality(1 .. n) = n
<1>1. 1 \in Int /\ n \in Int
  OBVIOUS
<1>2. /\ IsFiniteSet(1 .. n)
      /\ Cardinality(1 .. n) = IF 1 > n THEN 0 ELSE n - 1 + 1
  BY <1>1, FS_Interval
<1>. QED
  BY <1>2

\* What the mirror can hold and what a cursor can stand for, in any state.
LEMMA MirrorTypes ==
    ASSUME IngestInv
    PROVE  /\ \A s \in Stream : Len(history[s]) \in Nat /\ Row(s) = 1 .. Len(history[s])
           /\ \A s \in Stream : Sent(s, cursor[s]) \in Nat
           /\ \A s \in Stream : IsFiniteSet({i \in Row(s) : Before(s, i, cursor[s])})
           /\ \A s \in Stream : 1 .. Sent(s, cursor[s]) \subseteq mirror[s]
<1>1. \A s \in Stream : Len(history[s]) \in Nat /\ Row(s) = 1 .. Len(history[s])
  BY DEF IngestInv, TypeOK, Row
<1>2. \A s \in Stream : /\ Sent(s, cursor[s]) \in Nat
                        /\ IsFiniteSet({i \in Row(s) : Before(s, i, cursor[s])})
  BY SentType DEF IngestInv, TypeOK
<1>3. ASSUME NEW s \in Stream, NEW i \in 1 .. Sent(s, cursor[s])
      PROVE  i \in mirror[s]
  <2>. DEFINE B == {j \in Row(s) : Before(s, j, cursor[s])}
  <2>1. Sent(s, cursor[s]) <= Len(history[s])
    <3>1. IsFiniteSet(Row(s)) /\ Cardinality(Row(s)) = Len(history[s])
      BY <1>1, FirstRows
    <3>2. Cardinality(B) <= Cardinality(Row(s))
      BY <3>1, FS_Subset
    <3>. QED
      BY <3>1, <3>2 DEF Sent
  <2>2. i \in Row(s)
    <3>1. Sent(s, cursor[s]) \in Nat /\ Len(history[s]) \in Nat /\ Row(s) = 1 .. Len(history[s])
      BY <1>1, <1>2
    <3>2. i \in 1 .. Sent(s, cursor[s])
      BY <1>3
    <3>. QED
      BY <2>1, <3>1, <3>2
  <2>3. i <= Sent(s, cursor[s])
    BY <1>2, <1>3
  <2>4. Before(s, i, cursor[s])
    BY <2>2, <2>3, SentIsPrefix DEF IngestInv, TypeOK
  <2>. QED
    BY <2>2, <2>4 DEF IngestInv, CursorBehindMirror
<1>. QED
  BY <1>1, <1>2, <1>3

\* A recorded row changes nothing that was acknowledged.
LEMMA AppendRecords ==
    ASSUME IngestInv, IngestInv', NEW u \in Stream, Append1(u)
    PROVE  Archive!Record(u)
<1>1. UNCHANGED <<mirror, cursor>>
  BY DEF Append1, archive
<1>2. /\ \A s \in Stream : Row(s) \subseteq Row(s)'
      /\ \A s \in Stream : \A i \in Row(s) : history'[s][i] = history[s][i]
  BY AppendFacts DEF IngestInv
<1>3. ASSUME NEW s \in Stream
      PROVE  {i \in Row(s) : Before(s, i, cursor[s])}' = {i \in Row(s) : Before(s, i, cursor[s])}
  <2>1. cursor[s] \in Nat /\ (cursor[s] # 0 => \E i \in Row(s) : CursorAt(s, i) = cursor[s])
    BY DEF IngestInv, TypeOK, CursorNamesArchivedRow
  <2>2. ASSUME NEW k \in Row(s)', k \notin Row(s)
        PROVE  ~(IF s = Interaction THEN history'[s][k] < cursor[s] ELSE k <= cursor[s])
    BY <2>1, <2>2, AppendedAfterCursor DEF IngestInv
  <2>. QED
    BY <1>1, <1>2, <2>2 DEF Before
<1>4. Acknowledged' = Acknowledged
  BY <1>3 DEF Acknowledged, Sent
<1>5. Recorded' = [Recorded EXCEPT ![u] = @ + 1]
  <2>1. PICK at : history' = [history EXCEPT ![u] = Append(@, at)]
    BY DEF Append1
  <2>2. history \in [Stream -> Seq(Nat)] /\ history' \in [Stream -> Seq(Nat)]
    BY DEF IngestInv, TypeOK
  <2>3. Len(history'[u]) = Len(history[u]) + 1
    <3>1. history'[u] = Append(history[u], at)
      BY <2>1, <2>2
    <3>2. history[u] \in Seq(Nat) /\ Append(history[u], at) \in Seq(Nat)
      BY <2>2, <3>1
    <3>. QED
      BY <3>1, <3>2
  <2>4. \A s \in Stream : s # u => history'[s] = history[s]
    BY <2>1, <2>2
  <2>. QED
    BY <2>3, <2>4 DEF Recorded
<1>. QED
  BY <1>1, <1>4, <1>5 DEF Archive!Record

\* A transaction copies recorded rows.
LEMMA MirrorCopies ==
    ASSUME IngestInv, IngestInv', MirrorIsRecorded, NEW r \in Run, MirrorSync(r)
    PROVE  Archive!Copy /\ MirrorIsRecorded'
<1>1. /\ mirror' = [s \in Stream |-> mirror[s] \union run[r].data[s].rows]
      /\ UNCHANGED <<history, cursor>>
      /\ \A s \in Stream : run[r].data[s].rows \subseteq Row(s)
  BY DEF MirrorSync, domia, IngestInv, ReplyClosesGap, ClosesGap
<1>2. UNCHANGED <<Recorded, Acknowledged>>
  BY <1>1 DEF Recorded, Acknowledged, Sent, Row, Before
<1>3. \A s \in Stream : /\ mirror[s] \subseteq mirror'[s]
                        /\ mirror'[s] \subseteq Row(s)
  BY <1>1 DEF MirrorIsRecorded
<1>4. \A s \in Stream : Recorded[s] = Len(history[s]) /\ Row(s)' = Row(s)
  BY <1>1 DEF Recorded, Row
<1>5. mirror' \in [Stream -> SUBSET Nat]
  BY DEF IngestInv, TypeOK
<1>. QED
  BY <1>2, <1>3, <1>4, <1>5, MirrorTypes DEF Archive!Copy, MirrorIsRecorded

\* Cursors that move on acknowledge rows of the archive.
LEMMA CursorsAcknowledge ==
    ASSUME IngestInv, IngestInv', UNCHANGED <<history, mirror>>,
           \A s \in Stream : cursor'[s] >= cursor[s]
    PROVE  Archive!Acknowledge
<1>1. UNCHANGED Recorded
  BY DEF Recorded
<1>2. ASSUME NEW s \in Stream
      PROVE  /\ Acknowledged'[s] \in Nat
             /\ Acknowledged'[s] >= Acknowledged[s]
             /\ 1 .. Acknowledged'[s] \subseteq mirror[s]
  <2>. DEFINE B == {i \in Row(s) : Before(s, i, cursor[s])}
              C == {i \in Row(s) : Before(s, i, cursor'[s])}
  <2>1. /\ cursor[s] \in Nat /\ cursor'[s] \in Nat
        /\ \A i \in Row(s) : history[s][i] \in Nat /\ i \in Nat
    BY DEF IngestInv, TypeOK, Row
  <2>2. B \subseteq C
    BY <2>1 DEF Before
  <2>3. IsFiniteSet(C) /\ Sent(s, cursor'[s]) \in Nat
    BY <2>1, SentType DEF IngestInv, TypeOK
  <2>4. Cardinality(B) <= Cardinality(C)
    BY <2>2, <2>3, FS_Subset
  <2>5. /\ Acknowledged[s] = Cardinality(B)
        /\ Acknowledged'[s] = Cardinality(C)
        /\ Acknowledged'[s] = Sent(s, cursor'[s])
    BY DEF Acknowledged, Sent, Row, Before
  <2>6. Sent(s, cursor[s]) \in Nat
    BY <2>1, SentType DEF IngestInv, TypeOK
  <2>7. ASSUME NEW i \in 1 .. Sent(s, cursor'[s]) PROVE i \in mirror[s]
    <3>1. Cardinality(C) <= Len(history[s])
      <4>1. IsFiniteSet(Row(s)) /\ Cardinality(Row(s)) = Len(history[s])
        BY MirrorTypes, FirstRows
      <4>. QED
        BY <4>1, FS_Subset
    <3>2. i \in Row(s) /\ i <= Sent(s, cursor'[s])
      BY <2>3, <2>5, <2>7, <3>1, MirrorTypes
    <3>3. Before(s, i, cursor'[s])
      BY <2>1, <3>2, SentIsPrefix DEF IngestInv, TypeOK
    <3>. QED
      BY <3>2, <3>3 DEF IngestInv, CursorBehindMirror, Row, Before
  <2>8. Sent(s, cursor[s]) = Cardinality(B)
    BY DEF Sent
  <2>. QED
    BY <2>3, <2>4, <2>5, <2>6, <2>7, <2>8
<1>3. Acknowledged' \in [Stream -> Nat]
  BY <1>2 DEF Acknowledged
<1>. QED
  BY <1>1, <1>2, <1>3 DEF Archive!Acknowledge

\* Every step of the specification is a step of the durable mirror, or none.
LEMMA StepsMirror ==
    ASSUME IngestInv, IngestInv', MirrorIsRecorded, [Next]_vars
    PROVE  MirrorIsRecorded' /\ [Archive!Next]_(Archive!vars)
<1>1. ASSUME UNCHANGED <<history, mirror>>
      PROVE  MirrorIsRecorded'
  BY <1>1 DEF MirrorIsRecorded, Row
<1>2. ASSUME UNCHANGED <<history, mirror, cursor>>
      PROVE  MirrorIsRecorded' /\ UNCHANGED Archive!vars
  BY <1>1, <1>2 DEF Archive!vars, Recorded, Acknowledged, Sent, Row, Before
<1>3. ASSUME NEW u \in Stream, Append1(u)
      PROVE  MirrorIsRecorded' /\ Archive!Next
  <2>1. UNCHANGED mirror /\ \A s \in Stream : Row(s) \subseteq Row(s)'
    BY <1>3, AppendFacts DEF Append1, archive, IngestInv
  <2>. QED
    BY <1>3, <2>1, AppendRecords DEF MirrorIsRecorded, Archive!Next
<1>4. ASSUME NEW r \in Run, Ingesting(r)
      PROVE  MirrorIsRecorded' /\ [Archive!Next]_(Archive!vars)
  <2>1. CASE MirrorSync(r)
    BY <1>4, <2>1, MirrorCopies DEF Archive!Next
  <2>2. CASE AdvanceCursors(r)
    <3>1. UNCHANGED <<history, mirror>> /\ \A s \in Stream : cursor'[s] >= cursor[s]
      BY <2>2, CursorsWritten DEF AdvanceCursors, domia
    <3>. QED
      BY <1>1, <3>1, CursorsAcknowledge DEF Archive!Next
  <2>3. CASE CrashInWriteCursors(r)
    <3>1. UNCHANGED <<history, mirror>> /\ \A s \in Stream : cursor'[s] >= cursor[s]
      BY <2>3, CursorsWritten DEF CrashInWriteCursors, domia
    <3>. QED
      BY <1>1, <3>1, CursorsAcknowledge DEF Archive!Next
  <2>4. CASE ~MirrorSync(r) /\ ~AdvanceCursors(r) /\ ~CrashInWriteCursors(r)
    <3>1. UNCHANGED <<history, mirror, cursor>>
      BY <1>4, <2>4 DEF Ingesting, StartIngest, DecideSync, FetchNowhere, ServeSync, RetryFetch,
           FetchThrows, MirrorThrows, FinishIngest, archive, domia
    <3>. QED
      BY <1>2, <3>1
  <2>. QED
    BY <2>1, <2>2, <2>3, <2>4
<1>5. CASE \/ \E a \in Addressed : Beat(a)
           \/ SweepElapses
           \/ SkipBusy
           \/ Crash
           \/ UNCHANGED vars
  <2>1. UNCHANGED <<history, mirror, cursor>>
    BY <1>5 DEF Beat, SweepElapses, SkipBusy, Crash, archive, domia, vars
  <2>. QED
    BY <1>2, <2>1
<1>6. CASE DeleteArchive
  <2>1. /\ UNCHANGED history
        /\ mirror' = [s \in Stream |-> {}]
        /\ \A s \in Stream : cursor'[s] = 0
    BY <1>6 DEF DeleteArchive, domia
  <2>2. UNCHANGED Recorded
    BY <2>1 DEF Recorded
  <2>3. \A s \in Stream : Sent(s, 0) = 0
    <3>1. ASSUME NEW s \in Stream
          PROVE  {i \in Row(s) : Before(s, i, 0)} = {}
      BY <3>1 DEF Before, Row, IngestInv, TypeOK, Ordered
    <3>. QED
      BY <3>1, FS_EmptySet DEF Sent
  <2>4. Acknowledged' = [s \in Stream |-> 0]
    BY <2>1, <2>3 DEF Acknowledged, Sent, Row, Before
  <2>5. MirrorIsRecorded'
    BY <2>1 DEF MirrorIsRecorded
  <2>. QED
    BY <2>1, <2>2, <2>4, <2>5 DEF Archive!Next, Archive!Delete
<1>. QED
  BY <1>3, <1>4, <1>5, <1>6 DEF Next

\* The initial archive is the initial durable mirror.
LEMMA InitMirror ==
    ASSUME Init
    PROVE  MirrorIsRecorded /\ Archive!Init
<1>1. /\ \A s \in Stream : history[s] = <<>> /\ cursor[s] = 0 /\ mirror[s] = {}
      /\ mirror = [s \in Stream |-> {}]
  BY DEF Init, EmptyArchive
<1>2. Recorded = [s \in Stream |-> 0]
  BY <1>1 DEF Recorded
<1>3. \A s \in Stream : {i \in Row(s) : Before(s, i, cursor[s])} = {}
  BY <1>1 DEF Row
<1>4. Acknowledged = [s \in Stream |-> 0]
  BY <1>3, FS_EmptySet DEF Acknowledged, Sent
<1>. QED
  BY <1>1, <1>2, <1>4 DEF MirrorIsRecorded, Archive!Init

\* The collector implements the durable mirror, however many streams, rows, runs
\* and faults there are: a page only ever copies rows the Domia recorded, the
\* cursors only ever acknowledge rows that are held, and only deletion forgets.
THEOREM IngestImplementsMirror == Spec => ImplementsDurableMirror
<1>1. Init => MirrorIsRecorded /\ Archive!Init
  BY InitMirror
<1>2. IngestInv /\ IngestInv' /\ MirrorIsRecorded /\ [Next]_vars
        => MirrorIsRecorded' /\ [Archive!Next]_(Archive!vars)
  BY StepsMirror
<1>. QED
  BY <1>1, <1>2, IngestInvariant, PTL DEF Spec, ImplementsDurableMirror, Archive!Spec
=============================================================================
