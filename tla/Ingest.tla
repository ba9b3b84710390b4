------------------------------- MODULE Ingest -------------------------------
(***************************************************************************)
(* How the collector copies the history of one Domia into the archive      *)
(* (apps/collector/src/services/ingestion.ts, with the cursor half of      *)
(* db/adapter.ts and the retrying fetch of services/node-api.ts).          *)
(*                                                                         *)
(* The Domia keeps append-only streams of rows.  A heartbeat carries the   *)
(* timestamps of its newest interaction and turn event; each heartbeat may *)
(* start ingestFrom, which pages through /sync from the durable cursors,   *)
(* mirrors every page in one transaction, and only then moves the cursors. *)
(*                                                                         *)
(* A row is its position in its stream; history[s][i] is its timestamp (0  *)
(* is the empty string the code starts from).  The cursor of Interaction   *)
(* is a timestamp, that of a keyset stream a (since, id) pair, modelled by *)
(* the position of the row it names.                                       *)
(***************************************************************************)
EXTENDS Naturals, Sequences, FiniteSets

CONSTANTS
    Interaction,  \* the stream of interactions: its cursor is a bare timestamp
    Turn,         \* the keyset stream of turn events, whose marker a heartbeat carries
    Slow,         \* the keyset streams no heartbeat mentions (facts, tool, episode, ...)
    Run,          \* invocations of ingestFrom that may be live at once
    Limit,        \* DOMIA_APP_SYNC_PAGE_SIZE
    MaxPages,     \* DOMIA_APP_SYNC_MAX_PAGES
    Attempts,     \* attempts of withRetry
    Addressed,    \* whether a heartbeat names an ip and port: a set of BOOLEANs
    MaxRows,      \* bound: rows a stream may grow to
    MaxTies,      \* bound: interactions that may share one timestamp
    MaxFaults     \* bound: crashes and deletions of the archive

Keyset == {Turn} \union Slow
Stream == {Interaction} \union Keyset

ASSUME IngestAssumption ==
    /\ Interaction \notin Keyset
    /\ Turn \notin Slow
    /\ Limit \in Nat \ {0}
    /\ MaxPages \in Nat \ {0}
    /\ Attempts \in Nat \ {0}
    /\ Addressed \subseteq BOOLEAN
    /\ MaxRows \in [Stream -> Nat]
    /\ MaxTies \in Nat
    /\ MaxFaults \in Nat

VARIABLES
    history,   \* the Domia: the timestamps of the rows of every stream
    heartbeat, \* the heartbeat the broker holds, if any
    mirror,    \* archive: the positions of every stream that are mirrored
    cursor,    \* archive: the sync_cursor row
    sweepDue,  \* archive and clock: lastSyncedAt is absent or five minutes old
    shown,     \* archive: domia_registry.lastInteractionAt
    inFlight,  \* collector memory: the inFlight set has this Domia
    pc,        \* collector memory: where each invocation is
    run,       \* collector memory: the locals of each invocation
    faults     \* crashes so far

domia == <<history, heartbeat>>
archive == <<mirror, cursor, sweepDue, shown>>
memory == <<inFlight, pc, run>>
vars == <<history, heartbeat, mirror, cursor, sweepDue, shown, inFlight, pc, run, faults>>

NoHeartbeat == [kind |-> "none", interactionAt |-> 0, turnAt |-> 0, addressed |-> FALSE]

(***************************************************************************)
(* Rows, cursors and pages.                                                *)
(***************************************************************************)
Row(s) == 1 .. Len(history[s])

\* The row is behind the cursor c: /sync will not send it again.  The
\* interactions are sent from their timestamp on, the keyset streams after
\* the row the cursor names.
Before(s, i, c) == IF s = Interaction THEN history[s][i] < c ELSE i <= c

\* The cursor that names row i.
CursorAt(s, i) == IF s = Interaction THEN history[s][i] ELSE i

Sent(s, c) == Cardinality({i \in Row(s) : Before(s, i, c)})

\* The page of /sync for the cursor c: at most Limit rows of the stream, in
\* order, and the cursor of the last one (0, null in the code, for no row).
Page(s, c) ==
    LET from == Sent(s, c)
        to   == IF from + Limit <= Len(history[s]) THEN from + Limit ELSE Len(history[s])
    IN  [rows |-> from + 1 .. to,
         full |-> to >= from + Limit,
         next |-> IF to > from THEN CursorAt(s, to) ELSE 0]

NoPage == [s \in Stream |-> [rows |-> {}, full |-> FALSE, next |-> 0]]

NoRun == [cursors |-> [s \in Stream |-> 0], beat |-> NoHeartbeat, sweep |-> FALSE,
          page |-> 0, attempt |-> 0, data |-> NoPage]

\* The timestamp a cursor of the turn stream carries in its since part.
TurnSince(c) == IF c = 0 THEN 0 ELSE history[Turn][c]

NewestAt(s) == IF history[s] = <<>> THEN 0 ELSE history[s][Len(history[s])]

(***************************************************************************)
(* The type invariant: every variable stays in its domain.                 *)
(***************************************************************************)
Heartbeat == [kind : {"none", "beat"}, interactionAt : Nat, turnAt : Nat, addressed : BOOLEAN]
PageType == [rows : SUBSET Nat, full : BOOLEAN, next : Nat]
RunType == [cursors : [Stream -> Nat], beat : Heartbeat, sweep : BOOLEAN,
            page : Nat, attempt : Nat, data : [Stream -> PageType]]
Step == {"idle", "retryAudio", "fetch", "reply", "archiveAudio", "finish"}

TypeOK ==
    /\ history \in [Stream -> Seq(Nat)]
    /\ heartbeat \in Heartbeat
    /\ mirror \in [Stream -> SUBSET Nat]
    /\ cursor \in [Stream -> Nat]
    /\ sweepDue \in BOOLEAN
    /\ shown \in Nat
    /\ inFlight \in BOOLEAN
    /\ pc \in [Run -> Step]
    /\ run \in [Run -> RunType]
    /\ faults \in Nat

-----------------------------------------------------------------------------
EmptyArchive ==
    /\ mirror = [s \in Stream |-> {}]
    /\ cursor = [s \in Stream |-> 0]
    /\ sweepDue = TRUE
    /\ shown = 0

Init ==
    /\ history = [s \in Stream |-> <<>>]
    /\ heartbeat = NoHeartbeat
    /\ EmptyArchive
    /\ inFlight = FALSE
    /\ pc = [r \in Run |-> "idle"]
    /\ run = [r \in Run |-> NoRun]
    /\ faults = 0

(***************************************************************************)
(* The Domia and the broker.                                               *)
(***************************************************************************)
\* The Domia records a row, at its newest timestamp or a later one.
Append1(s) ==
    /\ Len(history[s]) < MaxRows[s]
    /\ \E at \in {NewestAt(s), NewestAt(s) + 1} :
        /\ at > 0
        /\ s = Interaction => Cardinality({i \in Row(s) : history[s][i] = at}) < MaxTies
        /\ history' = [history EXCEPT ![s] = Append(@, at)]
    /\ UNCHANGED <<heartbeat, archive, memory, faults>>

\* A heartbeat with the Domia's current markers; one not yet delivered is lost.
Beat(a) ==
    /\ heartbeat' = [kind |-> "beat", interactionAt |-> NewestAt(Interaction),
                     turnAt |-> NewestAt(Turn), addressed |-> a]
    /\ UNCHANGED <<history, archive, memory, faults>>

\* Five minutes pass without the cursors being written.
SweepElapses ==
    /\ ~sweepDue
    /\ sweepDue' = TRUE
    /\ UNCHANGED <<domia, mirror, cursor, shown, memory, faults>>

(***************************************************************************)
(* ingestFrom.                                                             *)
(***************************************************************************)
Goto(r, step) == pc' = [pc EXCEPT ![r] = step]

\* The finally block: whatever ended the run, the Domia leaves inFlight.
Finally(r) ==
    /\ Goto(r, "idle")
    /\ run' = [run EXCEPT ![r] = NoRun]
    /\ inFlight' = FALSE

\* Mutant: the inFlight test is dropped.
StartIngest_NoGuard(r) ==
    /\ heartbeat.kind = "beat"
    /\ pc[r] = "idle"
    /\ inFlight' = TRUE
    /\ Goto(r, "retryAudio")
    /\ run' = [run EXCEPT ![r] = [NoRun EXCEPT !.cursors = cursor, !.beat = heartbeat]]
    /\ heartbeat' = NoHeartbeat
    /\ UNCHANGED <<history, archive, faults>>

\* A heartbeat starts a run: the cursors are read before retryMissingAudio.
StartIngest(r) ==
    /\ heartbeat.kind = "beat"
    /\ pc[r] = "idle"
    /\ ~inFlight
    /\ inFlight' = TRUE
    /\ Goto(r, "retryAudio")
    /\ run' = [run EXCEPT ![r] = [NoRun EXCEPT !.cursors = cursor, !.beat = heartbeat]]
    /\ heartbeat' = NoHeartbeat
    /\ UNCHANGED <<history, archive, faults>>

\* A heartbeat that arrives while a run awaits something is not ingested.
SkipBusy ==
    /\ heartbeat.kind = "beat"
    /\ inFlight
    /\ \E r \in Run : pc[r] \in {"retryAudio", "fetch", "reply", "archiveAudio"}
    /\ heartbeat' = NoHeartbeat
    /\ UNCHANGED <<history, archive, memory, faults>>

CaughtUp(r) ==
    /\ run[r].beat.interactionAt <= run[r].cursors[Interaction]
    /\ run[r].beat.turnAt <= TurnSince(run[r].cursors[Turn])

\* Mutant: the slow-stream sweep is forgotten in the caught-up test.
DecideSync_NoSweep(r) ==
    /\ pc[r] = "retryAudio"
    /\ \/ /\ CaughtUp(r)
          /\ Finally(r)
       \/ /\ ~CaughtUp(r)
          /\ Goto(r, "fetch")
          /\ run' = [run EXCEPT ![r].sweep = sweepDue]
          /\ UNCHANGED inFlight
    /\ UNCHANGED <<domia, archive, faults>>

\* The audio retry is done: nothing to do unless a marker is ahead or a sweep is due.
DecideSync(r) ==
    /\ pc[r] = "retryAudio"
    /\ \/ /\ CaughtUp(r)
          /\ ~sweepDue
          /\ Finally(r)
       \/ /\ ~CaughtUp(r) \/ sweepDue
          /\ Goto(r, "fetch")
          /\ run' = [run EXCEPT ![r].sweep = sweepDue]
          /\ UNCHANGED inFlight
    /\ UNCHANGED <<domia, archive, faults>>

\* Mutant: the loop is left for a step that no finally block follows.
FetchNowhere_Abandoned(r) ==
    /\ pc[r] = "fetch"
    /\ ~run[r].beat.addressed
    /\ Goto(r, "abandoned")
    /\ UNCHANGED <<domia, archive, inFlight, run, faults>>

\* fetchSync returns null for a snapshot without an address: the loop ends.
FetchNowhere(r) ==
    /\ pc[r] = "fetch"
    /\ ~run[r].beat.addressed
    /\ Goto(r, "finish")
    /\ UNCHANGED <<domia, archive, inFlight, run, faults>>

\* The Domia answers /sync for the cursors of the request.
ServeSync(r) ==
    /\ pc[r] = "fetch"
    /\ run[r].beat.addressed
    /\ run' = [run EXCEPT ![r].data = [s \in Stream |-> Page(s, run[r].cursors[s])]]
    /\ Goto(r, "reply")
    /\ UNCHANGED <<domia, archive, inFlight, faults>>

\* A network error, a 5xx or a timeout, perhaps of a request that was served,
\* is tried again.
RetryFetch(r) ==
    /\ pc[r] \in {"fetch", "reply"}
    /\ run[r].beat.addressed
    /\ run[r].attempt + 1 < Attempts
    /\ run' = [run EXCEPT ![r].attempt = @ + 1, ![r].data = NoPage]
    /\ Goto(r, "fetch")
    /\ UNCHANGED <<domia, archive, inFlight, faults>>

\* Mutant: no finally block, so that the error leaves the Domia in inFlight.
FetchThrows_NoFinally(r) ==
    /\ pc[r] \in {"fetch", "reply"}
    /\ run[r].beat.addressed
    /\ Goto(r, "idle")
    /\ run' = [run EXCEPT ![r] = NoRun]
    /\ UNCHANGED <<domia, archive, inFlight, faults>>

\* The last attempt fails, or an error that is not retried: ingestFrom throws.
FetchThrows(r) ==
    /\ pc[r] \in {"fetch", "reply"}
    /\ run[r].beat.addressed
    /\ Finally(r)
    /\ UNCHANGED <<domia, archive, faults>>

\* Mutant: the loop over the interactions is missing from the transaction.
MirrorSync_NoInteractions(r) ==
    /\ pc[r] = "reply"
    /\ mirror' = [s \in Stream |-> IF s = Interaction THEN mirror[s]
                                   ELSE mirror[s] \union run[r].data[s].rows]
    /\ Goto(r, "archiveAudio")
    /\ UNCHANGED <<domia, cursor, sweepDue, shown, inFlight, run, faults>>

\* mirrorSync commits the whole page in one transaction.
MirrorSync(r) ==
    /\ pc[r] = "reply"
    /\ mirror' = [s \in Stream |-> mirror[s] \union run[r].data[s].rows]
    /\ Goto(r, "archiveAudio")
    /\ UNCHANGED <<domia, cursor, sweepDue, shown, inFlight, run, faults>>

\* Mutant: the error of the transaction is logged and the run goes on.
MirrorThrows_Swallowed(r) ==
    /\ pc[r] = "reply"
    /\ Goto(r, "archiveAudio")
    /\ UNCHANGED <<domia, archive, inFlight, run, faults>>

\* The transaction rolls back (a constraint fails, the disk is full).
MirrorThrows(r) ==
    /\ pc[r] = "reply"
    /\ Finally(r)
    /\ UNCHANGED <<domia, archive, faults>>

\* Mutant: a null next cursor is not skipped.
Advanced_Null(r) == {s \in Stream : run[r].data[s].next # run[r].cursors[s]}

Advanced(r) ==
    {s \in Stream : run[r].data[s].next # 0 /\ run[r].data[s].next # run[r].cursors[s]}
PageFull(r) == \E s \in Stream : run[r].data[s].full
\* Mutant: the advanced cursors are written but not kept for the next page.
Merged_Stale(r) == run[r].cursors
Merged(r) == [s \in Stream |-> IF s \in Advanced(r) THEN run[r].data[s].next
                                                    ELSE run[r].cursors[s]]

\* sync_cursor: only the advanced cursors are set, and lastSyncedAt always is.
WriteCursorRow(r) ==
    IF Advanced(r) = {} THEN UNCHANGED <<cursor, sweepDue>>
    ELSE /\ cursor' = [s \in Stream |-> IF s \in Advanced(r) THEN run[r].data[s].next
                                                             ELSE cursor[s]]
         /\ sweepDue' = FALSE

WriteRegistryRow(r) ==
    shown' = IF Interaction \in Advanced(r) THEN run[r].data[Interaction].next ELSE shown

\* The audio of the page is archived: move the cursors, then fetch the next
\* page unless this one was not full, nothing moved, or MaxPages are read.
AdvanceCursors(r) ==
    /\ pc[r] = "archiveAudio"
    /\ WriteCursorRow(r)
    /\ WriteRegistryRow(r)
    /\ \/ /\ PageFull(r) /\ Advanced(r) # {} /\ run[r].page + 1 < MaxPages
          /\ run' = [run EXCEPT ![r].cursors = Merged(r), ![r].data = NoPage,
                                ![r].page = @ + 1, ![r].attempt = 0]
          /\ Goto(r, "fetch")
       \/ /\ ~PageFull(r) \/ Advanced(r) = {} \/ run[r].page + 1 >= MaxPages
          /\ run' = [run EXCEPT ![r].cursors = Merged(r), ![r].data = NoPage]
          /\ Goto(r, "finish")
    /\ UNCHANGED <<domia, mirror, inFlight, faults>>

\* After the loop: a run that began because a sweep was due records it.
FinishIngest(r) ==
    /\ pc[r] = "finish"
    /\ sweepDue' = (sweepDue /\ ~run[r].sweep)
    /\ Finally(r)
    /\ UNCHANGED <<domia, mirror, cursor, shown, faults>>

(***************************************************************************)
(* Faults.                                                                 *)
(***************************************************************************)
LoseMemory ==
    /\ inFlight' = FALSE
    /\ pc' = [r \in Run |-> "idle"]
    /\ run' = [r \in Run |-> NoRun]
    /\ faults < MaxFaults
    /\ faults' = faults + 1

\* The process dies and is restarted, between any two durable writes.
Crash ==
    /\ LoseMemory
    /\ UNCHANGED <<domia, archive>>

\* Mutant: the registry row is written first.
CrashInWriteCursors_RegistryFirst(r) ==
    /\ pc[r] = "archiveAudio"
    /\ Interaction \in Advanced(r)
    /\ WriteRegistryRow(r)
    /\ LoseMemory
    /\ UNCHANGED <<domia, mirror, cursor, sweepDue>>

\* It dies between the two statements of writeCursors.
CrashInWriteCursors(r) ==
    /\ pc[r] = "archiveAudio"
    /\ Interaction \in Advanced(r)
    /\ WriteCursorRow(r)
    /\ LoseMemory
    /\ UNCHANGED <<domia, mirror, shown>>

\* The archive is deleted while the collector is stopped, to be rebuilt.
DeleteArchive ==
    /\ LoseMemory
    /\ mirror' = [s \in Stream |-> {}]
    /\ cursor' = [s \in Stream |-> 0]
    /\ sweepDue' = TRUE
    /\ shown' = 0
    /\ UNCHANGED domia

-----------------------------------------------------------------------------
Ingesting(r) ==
    \/ StartIngest(r)
    \/ DecideSync(r)
    \/ FetchNowhere(r)
    \/ ServeSync(r)
    \/ RetryFetch(r)
    \/ FetchThrows(r)
    \/ MirrorSync(r)
    \/ MirrorThrows(r)
    \/ AdvanceCursors(r)
    \/ FinishIngest(r)
    \/ CrashInWriteCursors(r)

Next ==
    \/ \E s \in Stream : Append1(s)
    \/ \E a \in Addressed : Beat(a)
    \/ SweepElapses
    \/ SkipBusy
    \/ \E r \in Run : Ingesting(r)
    \/ Crash
    \/ DeleteArchive

Spec == Init /\ [][Next]_vars

(***************************************************************************)
(* Fairness.  The event loop runs every continuation (weak fairness of the *)
(* run's steps; a fetch is bounded by its timeout).  Of the environment:   *)
(* a Domia that is up keeps beating, the clock advances, and a run meets a *)
(* reachable Domia and a transaction that commits again and again (strong  *)
(* fairness: each may fail any number of times before).                    *)
(***************************************************************************)
EventLoop ==
    \A r \in Run : WF_vars(Ingesting(r) /\ pc[r] # "idle")

Environment ==
    /\ \A a \in Addressed : WF_vars(Beat(a))
    /\ WF_vars(SweepElapses)
    /\ \A r \in Run : /\ SF_vars(StartIngest(r))
                      /\ SF_vars(ServeSync(r))
                      /\ SF_vars(MirrorSync(r))

FairSpec == Spec /\ EventLoop /\ Environment

-----------------------------------------------------------------------------
\* SAFETY

\* Every row the durable cursor has left behind is in the archive: /sync will
\* not send it again, so a cursor that ran ahead would lose it for ever.  It
\* holds across failed runs, crashes between any two writes, and rebuilds.
CursorBehindMirror ==
    \A s \in Stream : \A i \in Row(s) : Before(s, i, cursor[s]) => i \in mirror[s]

\* A cursor names a row that is archived: the caught-up test, which compares a
\* marker with the cursor only, then never calls a Domia caught up whose newest
\* timestamp was never mirrored.
CursorNamesArchivedRow ==
    \A s \in Stream : cursor[s] # 0 =>
        \E i \in mirror[s] : i \in Row(s) /\ CursorAt(s, i) = cursor[s]

\* The cursors a run read before its first await are still the stored ones at
\* every later step, whatever other heartbeats, failures and retries came between.
RunHoldsCursors == \A r \in Run : pc[r] # "idle" => run[r].cursors = cursor

\* What the Console shows as a Domia's last interaction is an interaction it
\* can open: it is in the archive, and never later than the cursor.
ShownIsArchived ==
    shown # 0 =>
        /\ shown <= cursor[Interaction]
        /\ \E i \in mirror[Interaction] : i \in Row(Interaction)
                                         /\ history[Interaction][i] = shown

\* No write ever moves a cursor back, unless the archive is deleted: of two runs
\* for one Domia the slower would write the older page's cursor.
CursorsMoveForward ==
    [][(\A s \in Stream : cursor'[s] >= cursor[s]) \/ DeleteArchive]_cursor

-----------------------------------------------------------------------------
(***************************************************************************)
(* The inductive invariant behind the safety properties: timestamps do not *)
(* decrease along a stream, one run is live at a time, and between the     *)
(* reply and the cursor write a run's page closes the gap from the stored  *)
(* cursor to the next one.                                                 *)
(***************************************************************************)
Ordered ==
    \A s \in Stream : \A i, j \in Row(s) :
        history[s][i] > 0 /\ (i <= j => history[s][i] <= history[s][j])

OneRun ==
    /\ \A r \in Run : pc[r] # "idle" => inFlight
    /\ \A r, q \in Run : pc[r] # "idle" /\ pc[q] # "idle" => r = q

\* The page d of stream s holds every row between the cursor c and d.next.
ClosesGap(s, d, c) ==
    /\ d.rows \subseteq Row(s)
    /\ d.next # 0 =>
        /\ d.next >= c
        /\ \E i \in d.rows : CursorAt(s, i) = d.next
        /\ \A j \in Row(s) : Before(s, j, d.next) => Before(s, j, c) \/ j \in d.rows

ReplyClosesGap ==
    \A r \in Run : pc[r] \in {"reply", "archiveAudio"} =>
        \A s \in Stream : ClosesGap(s, run[r].data[s], cursor[s])

PageArchived ==
    \A r \in Run : pc[r] = "archiveAudio" =>
        \A s \in Stream : run[r].data[s].rows \subseteq mirror[s]

\* Inductive: every step of the collector, the Domia and the faults keeps it.
IngestInv ==
    /\ TypeOK
    /\ Ordered
    /\ OneRun
    /\ RunHoldsCursors
    /\ ReplyClosesGap
    /\ PageArchived
    /\ CursorBehindMirror
    /\ CursorNamesArchivedRow
    /\ ShownIsArchived

-----------------------------------------------------------------------------
\* REFINEMENT

Recorded == [s \in Stream |-> Len(history[s])]
Acknowledged == [s \in Stream |-> Sent(s, cursor[s])]

Archive == INSTANCE DurableMirror WITH recorded <- Recorded, acknowledged <- Acknowledged

\* The collector implements the durable mirror: what the Console keeps of a
\* Domia holds only recorded rows, never shrinks, and acknowledges only them.
ImplementsDurableMirror == Archive!Spec

-----------------------------------------------------------------------------
\* LIVENESS

\* A run ends: the pages, the attempts and the stall test bound it, so that a
\* Domia is never left in inFlight, deaf to its heartbeats.
RunEnds == inFlight ~> ~inFlight

\* Every row a Domia records is eventually in the archive, also one that no
\* marker announces (the slow streams, a tie of the newest timestamp) and one
\* a deleted archive must be sent again.
EveryRowMirrored ==
    \A s \in Stream : \A i \in 1 .. MaxRows[s] :
        (i <= Len(history[s])) ~> (i \in mirror[s])
=============================================================================
