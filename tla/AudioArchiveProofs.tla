------------------------- MODULE AudioArchiveProofs -------------------------
(***************************************************************************)
(* Proofs about AudioArchive, for every number of recordings, page size,   *)
(* retry limit and number of crashes: its type invariant, and that every   *)
(* recording the archive lists has its whole WAV file.                     *)
(***************************************************************************)
EXTENDS AudioArchive, FiniteSetTheorems, TLAPS

\* The recording a run is archiving is not archived yet: hasAudio was read
\* before the fetch, and nobody else inserts its row meanwhile.  Without this a
\* torn rewrite could fall on a file the archive already lists.
VisitsUnarchived ==
    pc \in {"fetch", "write", "insert"} => visiting \in Recording \ asset

\* The row is inserted only after the whole file was written.
WrittenBeforeInserted == pc = "insert" => file[visiting] = "whole"

AudioInv ==
    /\ TypeOK
    /\ VisitsUnarchived
    /\ WrittenBeforeInserted
    /\ AssetHasWholeFile

\* Nothing is archived, or under way, when the collector starts.
LEMMA InitAudioInv == Init => AudioInv
<1>. SUFFICES ASSUME Init
              PROVE  AudioInv
  OBVIOUS
<1>1. TypeOK
  BY AudioAssumption DEF Init, TypeOK, Recording
<1>2. VisitsUnarchived /\ WrittenBeforeInserted /\ AssetHasWholeFile
  BY DEF Init, VisitsUnarchived, WrittenBeforeInserted, AssetHasWholeFile
<1>. QED
  BY <1>1, <1>2 DEF AudioInv

\* No step disturbs the invariant.
LEMMA StepAudioInv == AudioInv /\ [Next]_vars => AudioInv'
<1>. SUFFICES ASSUME AudioInv, [Next]_vars
              PROVE  AudioInv'
  OBVIOUS
<1>. USE AudioAssumption
<1>0. /\ TypeOK
      /\ VisitsUnarchived
      /\ WrittenBeforeInserted
      /\ AssetHasWholeFile
      /\ mirrored \in Nat
      /\ \A r \in Recording : r \in Nat
  BY DEF AudioInv, TypeOK, Recording
<1>1. ASSUME NEW r \in Recording, Publish(r) \/ Withdraw(r)
      PROVE  AudioInv'
  <2>1. TypeOK'
    BY <1>0, <1>1 DEF TypeOK, Publish, Withdraw, store, loop
  <2>2. (VisitsUnarchived /\ WrittenBeforeInserted /\ AssetHasWholeFile)'
    BY <1>0, <1>1 DEF VisitsUnarchived, WrittenBeforeInserted, AssetHasWholeFile,
                      Publish, Withdraw, store, loop
  <2>. QED
    BY <2>1, <2>2 DEF AudioInv
<1>2. ASSUME StartRun
      PROVE  AudioInv'
  <2>1. NewestMissing \subseteq Recording
    BY <1>0 DEF NewestMissing, Missing, Recording, TypeOK
  <2>2. TypeOK'
    BY <1>0, <1>2, <2>1 DEF TypeOK, StartRun, store
  <2>3. (VisitsUnarchived /\ WrittenBeforeInserted /\ AssetHasWholeFile)'
    BY <1>0, <1>2 DEF VisitsUnarchived, WrittenBeforeInserted, AssetHasWholeFile,
                      StartRun, store
  <2>. QED
    BY <2>2, <2>3 DEF AudioInv
<1>3. ASSUME MirrorPage
      PROVE  AudioInv'
  <2>1. PICK from \in {mirrored, mirrored + 1} \cap Recording, to \in Recording :
               /\ mirrored' = to
               /\ pending' = from .. to
               /\ stage' = IF to > mirrored THEN "page" ELSE "lastPage"
    BY <1>3 DEF MirrorPage
  <2>2. from .. to \subseteq Recording
    BY <2>1 DEF Recording
  <2>3. mirrored' \in 0 .. MaxRecording
    BY <2>1 DEF Recording
  <2>4. TypeOK'
    BY <1>0, <1>3, <2>1, <2>2, <2>3 DEF TypeOK, MirrorPage
  <2>5. (VisitsUnarchived /\ WrittenBeforeInserted /\ AssetHasWholeFile)'
    BY <1>0, <1>3 DEF VisitsUnarchived, WrittenBeforeInserted, AssetHasWholeFile,
                      MirrorPage
  <2>. QED
    BY <2>4, <2>5 DEF AudioInv
<1>4. ASSUME EndRun
      PROVE  AudioInv'
  <2>1. TypeOK'
    BY <1>0, <1>4 DEF TypeOK, EndRun, store
  <2>2. (VisitsUnarchived /\ WrittenBeforeInserted /\ AssetHasWholeFile)'
    BY <1>0, <1>4 DEF VisitsUnarchived, WrittenBeforeInserted, AssetHasWholeFile,
                      EndRun, store
  <2>. QED
    BY <2>1, <2>2 DEF AudioInv
<1>5. ASSUME NEW r \in Recording, CheckArchived(r)
      PROVE  AudioInv'
  <2>1. TypeOK'
    BY <1>0, <1>5 DEF TypeOK, CheckArchived, store
  <2>2. (VisitsUnarchived /\ WrittenBeforeInserted /\ AssetHasWholeFile)'
    BY <1>0, <1>5 DEF VisitsUnarchived, WrittenBeforeInserted, AssetHasWholeFile,
                      CheckArchived, store
  <2>. QED
    BY <2>1, <2>2 DEF AudioInv
<1>6. ASSUME Fetch \/ FetchFails
      PROVE  AudioInv'
  <2>1. TypeOK'
    BY <1>0, <1>6 DEF TypeOK, Fetch, FetchFails, Visited, store
  <2>2. (VisitsUnarchived /\ WrittenBeforeInserted /\ AssetHasWholeFile)'
    BY <1>0, <1>6 DEF VisitsUnarchived, WrittenBeforeInserted, AssetHasWholeFile,
                      Fetch, FetchFails, Visited, store
  <2>. QED
    BY <2>1, <2>2 DEF AudioInv
<1>7. ASSUME WriteFile
      PROVE  AudioInv'
  <2>1. visiting \in Recording \ asset
    BY <1>0, <1>7 DEF VisitsUnarchived, WriteFile
  <2>2. TypeOK'
    BY <1>0, <1>7 DEF TypeOK, WriteFile
  <2>3. (VisitsUnarchived /\ WrittenBeforeInserted)'
    BY <1>0, <1>7, <2>1 DEF TypeOK, VisitsUnarchived, WrittenBeforeInserted, WriteFile
  <2>4. AssetHasWholeFile'
    BY <1>0, <1>7, <2>1 DEF TypeOK, AssetHasWholeFile, WriteFile
  <2>. QED
    BY <2>2, <2>3, <2>4 DEF AudioInv
<1>8. ASSUME InsertAsset
      PROVE  AudioInv'
  <2>1. visiting \in Recording /\ file[visiting] = "whole"
    BY <1>0, <1>8 DEF VisitsUnarchived, WrittenBeforeInserted, InsertAsset
  <2>2. TypeOK'
    BY <1>0, <1>8, <2>1 DEF TypeOK, InsertAsset, Visited
  <2>3. (VisitsUnarchived /\ WrittenBeforeInserted)'
    BY <1>8 DEF VisitsUnarchived, WrittenBeforeInserted, InsertAsset, Visited
  <2>4. AssetHasWholeFile'
    BY <1>0, <1>8, <2>1 DEF AssetHasWholeFile, InsertAsset
  <2>. QED
    BY <2>2, <2>3, <2>4 DEF AudioInv
<1>9. ASSUME Crash \/ CrashInWrite
      PROVE  AudioInv'
  <2>1. /\ pc' = "idle"
        /\ pending' = {}
        /\ visiting' = 0
        /\ stage' = "none"
        /\ faults' \in 0 .. MaxFaults
    BY <1>0, <1>9 DEF Crash, CrashInWrite, Die, TypeOK
  <2>2. served' = served /\ mirrored' = mirrored /\ asset' = asset
    BY <1>9 DEF Crash, CrashInWrite, store
  <2>3. /\ file' \in [Recording -> {"none", "torn", "whole"}]
        /\ \A r \in asset : file'[r] = file[r]
    <3>1. CASE Crash
      BY <1>0, <3>1 DEF Crash, store, TypeOK
    <3>2. CASE CrashInWrite
      <4>1. visiting \in Recording \ asset
        BY <1>0, <3>2 DEF CrashInWrite, VisitsUnarchived
      <4>. QED
        BY <1>0, <3>2, <4>1 DEF CrashInWrite, TypeOK
    <3>. QED
      BY <1>9, <3>1, <3>2
  <2>4. TypeOK'
    BY <1>0, <2>1, <2>2, <2>3 DEF TypeOK
  <2>5. (VisitsUnarchived /\ WrittenBeforeInserted /\ AssetHasWholeFile)'
    BY <1>0, <2>1, <2>2, <2>3 DEF VisitsUnarchived, WrittenBeforeInserted, AssetHasWholeFile
  <2>. QED
    BY <2>4, <2>5 DEF AudioInv
<1>10. ASSUME UNCHANGED vars
       PROVE  AudioInv'
  BY <1>0, <1>10 DEF vars, store, loop, AudioInv, TypeOK, VisitsUnarchived,
                     WrittenBeforeInserted, AssetHasWholeFile
<1>. QED
  BY <1>1, <1>2, <1>3, <1>4, <1>5, <1>6, <1>7, <1>8, <1>9, <1>10 DEF Next

\* The archiving of recordings keeps its inductive invariant.
THEOREM AudioInvariant == Spec => []AudioInv
<1>. QED
  BY InitAudioInv, StepAudioInv, PTL DEF Spec

\* Every variable of the archiving stays in its domain.
THEOREM AudioTypeCorrect == Spec => []TypeOK
<1>1. AudioInv => TypeOK
  BY DEF AudioInv
<1>. QED
  BY <1>1, AudioInvariant, PTL

\* A recording with an audio_asset row has its whole file: archiveAudio inserts
\* the row after writeFileSync, and a crash in between leaves only a file that
\* the next run writes again.
THEOREM ListedAudioIsWhole == Spec => []AssetHasWholeFile
<1>1. AudioInv => AssetHasWholeFile
  BY DEF AudioInv
<1>. QED
  BY <1>1, AudioInvariant, PTL
=============================================================================
