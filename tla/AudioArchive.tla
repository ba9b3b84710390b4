---------------------------- MODULE AudioArchive ----------------------------
(***************************************************************************)
(* How the collector archives the recordings of one Domia, for one kind    *)
(* (tts, input or announce): archiveAudio, retryMissingAudio and the two   *)
(* page loops of apps/collector/src/services/ingestion.ts, fetchAudio of   *)
(* node-api.ts and the audio half of db/adapter.ts.                        *)
(*                                                                         *)
(* A recording is the position of its interaction in the order of          *)
(* createdAt.  A run of ingestFrom first tries again the newest recordings *)
(* it misses, then, page by page, those of the rows it has just mirrored.  *)
(* A recording is archived when its WAV file is written and its            *)
(* audio_asset row inserted: two steps, with an await before them.         *)
(***************************************************************************)
EXTENDS Naturals, FiniteSets

CONSTANTS
    RetryLimit,   \* AUDIO_RETRY_LIMIT
    MaxRecording, \* bound: recordings the Domia makes
    MaxPage,      \* bound: rows a page adds
    MaxGone,      \* bound: recordings the Domia can never serve
    MaxFaults     \* bound: crashes of the collector

ASSUME AudioAssumption ==
    /\ RetryLimit \in Nat \ {0}
    /\ MaxRecording \in Nat
    /\ MaxPage \in Nat
    /\ MaxGone \in Nat
    /\ MaxFaults \in Nat

Recording == 1 .. MaxRecording

VARIABLES
    served,    \* the Domia: what GET /audio answers for each recording
    mirrored,  \* archive: the rows 1 .. mirrored are in the mirror
    asset,     \* archive: the recordings with an audio_asset row
    file,      \* disk: the WAV file of each recording
    pc,        \* collector: the step of the run
    pending,   \* collector: the recordings the present loop has still to visit
    visiting,  \* collector: the recording archiveAudio is at, 0 when none
    stage,     \* collector: which loop the run is in
    faults     \* crashes so far

vars == <<served, mirrored, asset, file, pc, pending, visiting, stage, faults>>
store == <<mirrored, asset, file>>
loop == <<pc, pending, visiting, stage>>

TypeOK ==
    /\ served \in [Recording -> {"notYet", "wav", "gone"}]
    /\ mirrored \in 0 .. MaxRecording
    /\ asset \subseteq Recording
    /\ file \in [Recording -> {"none", "torn", "whole"}]
    /\ pc \in {"idle", "next", "fetch", "write", "insert"}
    /\ pending \subseteq Recording
    /\ visiting \in Recording \union {0}
    /\ stage \in {"none", "retry", "page", "lastPage"}
    /\ faults \in 0 .. MaxFaults

Init ==
    /\ served = [r \in Recording |-> "notYet"]
    /\ mirrored = 0
    /\ asset = {}
    /\ file = [r \in Recording |-> "none"]
    /\ pc = "idle"
    /\ pending = {}
    /\ visiting = 0
    /\ stage = "none"
    /\ faults = 0

(***************************************************************************)
(* The Domia.                                                              *)
(***************************************************************************)
\* The WAV of a recording becomes available.
Publish(r) ==
    /\ served[r] = "notYet"
    /\ served' = [served EXCEPT ![r] = "wav"]
    /\ UNCHANGED <<store, loop, faults>>

\* It never will be served (again): pruned, empty, larger than the limit, or
\* under a name safeSegment refuses.
Withdraw(r) ==
    /\ served[r] # "gone"
    /\ Cardinality({q \in Recording : served[q] = "gone"}) < MaxGone
    /\ served' = [served EXCEPT ![r] = "gone"]
    /\ UNCHANGED <<store, loop, faults>>

(***************************************************************************)
(* The loops.                                                              *)
(***************************************************************************)
\* Mutant: a row that was never mirrored is listed.
Missing_OffByOne == {r \in 0 .. mirrored : r \notin asset}

Missing == {r \in 1 .. mirrored : r \notin asset}

\* Mutant: the retry lists the oldest recordings, archived or not.
NewestMissing_Oldest == {r \in 1 .. mirrored : r <= RetryLimit}

\* listMissingAudio: the newest missing recordings.
NewestMissing == {r \in Missing : Cardinality({q \in Missing : q > r}) < RetryLimit}

\* A run starts, and lists what it will try again.
StartRun ==
    /\ pc = "idle"
    /\ pc' = "next"
    /\ pending' = NewestMissing
    /\ stage' = "retry"
    /\ UNCHANGED <<served, store, visiting, faults>>

\* The loop is over and /sync returns a page: its rows are mirrored (the newest
\* mirrored one may be sent again) and their recordings visited in turn.  A page
\* that adds nothing is the last.
MirrorPage ==
    /\ pc = "next"
    /\ pending = {}
    /\ stage # "lastPage"
    /\ \E from \in {mirrored, mirrored + 1} \cap Recording, to \in Recording :
          /\ from <= to
          /\ mirrored <= to
          /\ to <= mirrored + MaxPage
          /\ mirrored' = to
          /\ pending' = from .. to
          /\ stage' = IF to > mirrored THEN "page" ELSE "lastPage"
    /\ UNCHANGED <<served, asset, file, pc, visiting, faults>>

\* The loop is over and no page follows.
EndRun ==
    /\ pc = "next"
    /\ pending = {}
    /\ pc' = "idle"
    /\ stage' = "none"
    /\ UNCHANGED <<served, store, pending, visiting, faults>>

(***************************************************************************)
(* archiveAudio of the next pending recording.                             *)
(***************************************************************************)
\* The retry visits the newest first, a page the oldest.
IsNext(r) == /\ r \in pending
             /\ \A q \in pending : IF stage = "retry" THEN q <= r ELSE r <= q

\* Mutant: the recording is fetched though it is archived already.
CheckArchived_Always(r) ==
    /\ pc = "next"
    /\ IsNext(r)
    /\ pending' = pending \ {r}
    /\ pc' = "fetch"
    /\ visiting' = r
    /\ UNCHANGED <<served, store, stage, faults>>

\* hasAudio: an archived recording is not fetched again.
CheckArchived(r) ==
    /\ pc = "next"
    /\ IsNext(r)
    /\ pending' = pending \ {r}
    /\ \/ /\ r \in asset
          /\ UNCHANGED <<pc, visiting>>
       \/ /\ r \notin asset
          /\ pc' = "fetch"
          /\ visiting' = r
    /\ UNCHANGED <<served, store, stage, faults>>

Visited == pc' = "next" /\ visiting' = 0

\* fetchAudio brings the WAV.
Fetch ==
    /\ pc = "fetch"
    /\ served[visiting] = "wav"
    /\ pc' = "write"
    /\ UNCHANGED <<served, store, pending, visiting, stage, faults>>

\* It answers 404 or nothing usable, or throws: archiveAudioSafe goes on.
FetchFails ==
    /\ pc = "fetch"
    /\ Visited
    /\ UNCHANGED <<served, store, pending, stage, faults>>

\* writeFileSync.
WriteFile ==
    /\ pc = "write"
    /\ file' = [file EXCEPT ![visiting] = "whole"]
    /\ pc' = "insert"
    /\ UNCHANGED <<served, mirrored, asset, pending, visiting, stage, faults>>

\* insertAudio.
InsertAsset ==
    /\ pc = "insert"
    /\ asset' = asset \union {visiting}
    /\ Visited
    /\ UNCHANGED <<served, mirrored, file, pending, stage, faults>>

(***************************************************************************)
(* The process dies between two steps, or in the middle of the file.       *)
(***************************************************************************)
Die ==
    /\ faults < MaxFaults
    /\ faults' = faults + 1
    /\ pc' = "idle"
    /\ pending' = {}
    /\ visiting' = 0
    /\ stage' = "none"

Crash ==
    /\ pc # "idle"
    /\ Die
    /\ UNCHANGED <<served, store>>

CrashInWrite ==
    /\ pc = "write"
    /\ Die
    /\ file' = [file EXCEPT ![visiting] = "torn"]
    /\ UNCHANGED <<served, mirrored, asset>>

-----------------------------------------------------------------------------
Next ==
    \/ \E r \in Recording : Publish(r) \/ Withdraw(r)
    \/ StartRun
    \/ MirrorPage
    \/ EndRun
    \/ \E r \in Recording : CheckArchived(r)
    \/ Fetch
    \/ FetchFails
    \/ WriteFile
    \/ InsertAsset
    \/ Crash
    \/ CrashInWrite

Spec == Init /\ [][Next]_vars

\* The run moves on whenever it can; heartbeats keep starting it; a fetch that
\* is served again and again is answered at last, and a WAV that is not withdrawn
\* becomes available.
FairSpec ==
    /\ Spec
    /\ WF_vars(StartRun)
    /\ WF_vars(MirrorPage \/ EndRun)
    /\ WF_vars(\E r \in Recording : CheckArchived(r))
    /\ WF_vars(FetchFails)
    /\ WF_vars(WriteFile)
    /\ WF_vars(InsertAsset)
    /\ \A r \in Recording : SF_vars(Fetch /\ visiting = r)
    /\ \A r \in Recording : WF_vars(Publish(r))

-----------------------------------------------------------------------------
\* A recording the archive lists can be played: its file is whole, whenever the
\* process died and however often its row was sent again.  The Console answers
\* "Audio file missing" otherwise.
AssetHasWholeFile == \A r \in asset : file[r] = "whole"

\* A mirrored recording the Domia goes on serving is archived at last.
ServedIsArchived ==
    \A r \in Recording :
        <>[](r <= mirrored /\ served[r] = "wav") => <>(r \in asset)
=============================================================================
