---------------------------- MODULE AudioRecorder ----------------------------
(***************************************************************************)
(* A recorded message: the useAudioRecorder hook with the Composer of the  *)
(* chat, which reviews the clip, records it anew, sends or discards it.    *)
(*                                                                         *)
(* start waits for the microphone; a recorder delivers what it holds when  *)
(* it stops, and the clip is there when it has been converted.  One ref    *)
(* each holds the recorder, the stream, the chunks and the timers, and     *)
(* "recording" is what the last render showed.                             *)
(***************************************************************************)
EXTENDS Naturals, FiniteSets

CONSTANTS
    Take,  \* calls of start
    File   \* the audio of a file the user attaches

VARIABLES
    composing,  \* the component is mounted
    recording, converting,
    phase,      \* how far a call of start is
    tracks,     \* takes whose MediaStream is open
    streamRef,  \* streamRef
    recorder,   \* recorderRef
    chunks,     \* chunksRef: the takes with audio in it
    timers,     \* takes whose interval and level meter run
    timer,      \* timerRef, meterRef and audioCtxRef
    blobs,      \* the audio onstop of a take converts
    clip,       \* the clip under review: what it holds, {} without one
    reading,    \* FileReader is at work for pickFile
    crossed     \* history: takes that were asked for while another was, or
                \* still asked for when the page was left, or threw

recorderVars == <<composing, recording, converting, phase, tracks, streamRef,
                  recorder, chunks, timers, timer, blobs, clip, reading, crossed>>
RecorderRests == UNCHANGED recorderVars

-----------------------------------------------------------------------------
Asked == {t \in Take : phase[t] = "asked"}
Others == Asked \union {t \in crossed : phase[t] \in {"on", "stopping"}}

RecorderTypeOK ==
    /\ composing \in BOOLEAN /\ recording \in BOOLEAN /\ converting \in BOOLEAN
    /\ phase \in [Take -> {"none", "asked", "on", "stopping", "converting", "over"}]
    /\ streamRef \subseteq tracks /\ recorder \subseteq Take /\ timer \subseteq timers
    /\ tracks \subseteq Take /\ timers \subseteq Take /\ crossed \subseteq Take
    /\ chunks \subseteq Take
    /\ blobs \in [Take -> SUBSET Take]
    /\ clip \subseteq Take \union {File}
    /\ reading \in BOOLEAN

RecorderInit ==
    /\ composing = TRUE /\ recording = FALSE /\ converting = FALSE
    /\ phase = [t \in Take |-> "none"]
    /\ tracks = {} /\ streamRef = {} /\ recorder = {} /\ chunks = {}
    /\ timers = {} /\ timer = {}
    /\ blobs = [t \in Take |-> {}]
    /\ clip = {} /\ reading = FALSE /\ crossed = {}

-----------------------------------------------------------------------------
\* React drops the state of a component that is gone.
ShowsRecording(r) == recording' = IF composing THEN r ELSE recording
Reviewing == clip # {} /\ ~recording

\* Mutant: the chunks of the take before are kept.
Granted_KeepsChunks(t) ==
    /\ phase[t] = "asked"
    /\ phase' = [phase EXCEPT ![t] = "on"]
    /\ tracks' = tracks \union {t} /\ streamRef' = {t} /\ recorder' = {t}
    /\ chunks' = chunks
    /\ ShowsRecording(TRUE)
    /\ timers' = timers \union {t} /\ timer' = {t}
    /\ UNCHANGED <<composing, converting, blobs, clip, reading, crossed>>

(* getUserMedia resolves, mounted or not: the recorder starts. *)
Granted(t) ==
    /\ phase[t] = "asked"
    /\ phase' = [phase EXCEPT ![t] = "on"]
    /\ tracks' = tracks \union {t} /\ streamRef' = {t} /\ recorder' = {t}
    /\ chunks' = {}
    /\ ShowsRecording(TRUE)
    /\ timers' = timers \union {t} /\ timer' = {t}
    /\ UNCHANGED <<composing, converting, blobs, clip, reading, crossed>>

(* new MediaRecorder throws: the stream is open, and nothing else is. *)
RecorderThrows(t) ==
    /\ phase[t] = "asked"
    /\ phase' = [phase EXCEPT ![t] = "over"]
    /\ tracks' = tracks \union {t} /\ streamRef' = {t}
    /\ crossed' = crossed \union {t}
    /\ UNCHANGED <<composing, recording, converting, recorder, chunks, timers, timer,
                   blobs, clip, reading>>

Denied(t) ==
    /\ phase[t] = "asked"
    /\ phase' = [phase EXCEPT ![t] = "over"]
    /\ UNCHANGED <<composing, recording, converting, tracks, streamRef, recorder, chunks,
                   timers, timer, blobs, clip, reading, crossed>>

\* Mutant: start does not look at "recording".
Start_Unguarded(t) ==
    /\ composing /\ phase[t] = "none"
    /\ ~converting \/ Reviewing
    /\ phase' = [phase EXCEPT ![t] = "asked"]
    /\ clip' = {}
    /\ crossed' = IF Others = {} THEN crossed ELSE crossed \union Others \union {t}
    /\ UNCHANGED <<composing, recording, converting, tracks, streamRef, recorder, chunks,
                   timers, timer, blobs, reading>>

(* The microphone button, or "Re-record", which forgets the clip first. *)
Start(t) ==
    /\ composing /\ ~recording /\ phase[t] = "none"
    /\ ~converting \/ Reviewing
    /\ phase' = [phase EXCEPT ![t] = "asked"]
    /\ clip' = {}
    /\ crossed' = IF Others = {} THEN crossed ELSE crossed \union Others \union {t}
    /\ UNCHANGED <<composing, recording, converting, tracks, streamRef, recorder, chunks,
                   timers, timer, blobs, reading>>

(* The stop button: recorderRef stops, its events are queued. *)
Stop(t) ==
    /\ composing /\ recording /\ t \in recorder /\ phase[t] = "on"
    /\ phase' = [phase EXCEPT ![t] = "stopping"]
    /\ UNCHANGED <<composing, recording, converting, tracks, streamRef, recorder, chunks,
                   timers, timer, blobs, clip, reading, crossed>>

\* Mutant: onstop leaves the tracks of the stream on.
OnStop_KeepsMic(t) ==
    /\ phase[t] \in {"on", "stopping"}
    /\ streamRef' = {}
    /\ timers' = timers \ timer /\ timer' = {}
    /\ ShowsRecording(FALSE)
    /\ \E full \in BOOLEAN :
          /\ chunks' = IF full THEN chunks \union {t} ELSE chunks
          /\ blobs' = [blobs EXCEPT ![t] = chunks']
          /\ phase' = [phase EXCEPT ![t] = IF chunks' = {} THEN "over" ELSE "converting"]
          /\ converting' = (converting \/ (composing /\ chunks' # {}))
    /\ UNCHANGED <<composing, tracks, recorder, clip, reading, crossed>>

\* Mutant: streamRef is not reset.
OnStop_KeepsRef(t) ==
    /\ phase[t] \in {"on", "stopping"}
    /\ tracks' = tracks \ {t}
    /\ timers' = timers \ timer /\ timer' = {}
    /\ ShowsRecording(FALSE)
    /\ chunks' = chunks \union {t}
    /\ blobs' = [blobs EXCEPT ![t] = chunks']
    /\ phase' = [phase EXCEPT ![t] = "converting"]
    /\ converting' = (converting \/ composing)
    /\ UNCHANGED <<composing, streamRef, recorder, clip, reading, crossed>>

(* ondataavailable and onstop, after stop or when the browser has ended    *)
(* the stream: "full" is whether the take holds any audio.                 *)
OnStop(t) ==
    /\ phase[t] \in {"on", "stopping"}
    /\ tracks' = tracks \ {t} /\ streamRef' = {}
    /\ timers' = timers \ timer /\ timer' = {}
    /\ ShowsRecording(FALSE)
    /\ \E full \in BOOLEAN :
          /\ chunks' = IF full THEN chunks \union {t} ELSE chunks
          /\ blobs' = [blobs EXCEPT ![t] = chunks']
          /\ phase' = [phase EXCEPT ![t] = IF chunks' = {} THEN "over" ELSE "converting"]
          /\ converting' = (converting \/ (composing /\ chunks' # {}))
    /\ UNCHANGED <<composing, recorder, clip, reading, crossed>>

(* blobToWav16kBase64 settles: the clip is set, or a toast shown. *)
Converted(t, ok) ==
    /\ phase[t] = "converting"
    /\ phase' = [phase EXCEPT ![t] = "over"]
    /\ blobs' = [blobs EXCEPT ![t] = {}]
    /\ clip' = IF composing /\ ok THEN blobs[t] ELSE clip
    /\ converting' = (converting /\ ~composing)
    /\ UNCHANGED <<composing, recording, tracks, streamRef, recorder, chunks, timers,
                   timer, reading, crossed>>

(* A file is attached: its audio becomes the clip when it has been read. *)
PickFile ==
    /\ composing /\ ~recording /\ ~converting /\ ~reading
    /\ reading' = TRUE
    /\ UNCHANGED <<composing, recording, converting, phase, tracks, streamRef, recorder, chunks,
                   timers, timer, blobs, clip, crossed>>

FileRead ==
    /\ reading /\ reading' = FALSE
    /\ clip' = IF composing THEN {File} ELSE clip
    /\ UNCHANGED <<composing, recording, converting, phase, tracks, streamRef, recorder, chunks,
                   timers, timer, blobs, crossed>>

(* submitVoice, or "Discard". *)
EndReview ==
    /\ composing /\ Reviewing
    /\ clip' = {}
    /\ UNCHANGED <<composing, recording, converting, phase, tracks, streamRef, recorder, chunks,
                   timers, timer, blobs, reading, crossed>>

\* Mutant: the interval is not cleared.
LeaveComposer_KeepsTimer ==
    /\ composing /\ composing' = FALSE
    /\ timer' = {}
    /\ phase' = [t \in Take |-> IF t \in recorder /\ phase[t] = "on" THEN "over" ELSE phase[t]]
    /\ tracks' = tracks \ streamRef /\ streamRef' = {}
    /\ crossed' = crossed \union Asked
    /\ UNCHANGED <<recording, converting, timers, recorder, chunks, blobs, clip, reading>>

(* The cleanup of the effect: a recorder that is on loses its onstop. *)
LeaveComposer ==
    /\ composing /\ composing' = FALSE
    /\ timers' = timers \ timer /\ timer' = {}
    /\ phase' = [t \in Take |-> IF t \in recorder /\ phase[t] = "on" THEN "over" ELSE phase[t]]
    /\ tracks' = tracks \ streamRef /\ streamRef' = {}
    /\ crossed' = crossed \union Asked
    /\ UNCHANGED <<recording, converting, recorder, chunks, blobs, clip, reading>>

RecorderNext ==
    \/ \E t \in Take :
          \/ Start(t) \/ Granted(t) \/ RecorderThrows(t) \/ Denied(t)
          \/ Stop(t) \/ OnStop(t)
          \/ \E ok \in BOOLEAN : Converted(t, ok)
    \/ PickFile \/ FileRead \/ EndReview \/ LeaveComposer

RecorderSpec == RecorderInit /\ [][RecorderNext]_recorderVars

-----------------------------------------------------------------------------
(* The microphone is open only while the page shows that it records, and   *)
(* closed once the page is left; a timer that nothing can clear any more   *)
(* never runs.  Except for a take that was asked for together with         *)
(* another, or still asked for when the page was left, or whose recorder   *)
(* could not be made.                                                      *)
MicMeansRecording ==
    /\ tracks \ crossed # {} => composing /\ recording
    /\ timers \ crossed \subseteq timer

(* The clip under review, and each one still to be converted, is of one    *)
(* take: audio of an earlier one is never mixed in, unless two were on.    *)
ClipIsOneTake ==
    crossed = {} =>
        Cardinality(clip) <= 1 /\ \A t \in Take : blobs[t] \subseteq {t}
=============================================================================
