-------------------------------- MODULE Replay --------------------------------
(***************************************************************************)
(* Replaying a conversation: ReplayCard plays what the Domia heard, waits  *)
(* as long as the Domia took, and plays what it answered, on the waveforms *)
(* that other parts of the page draw, and which have buttons of their own. *)
(*                                                                         *)
(* The page of a conversation is kept when the user goes on to the next    *)
(* turn of the session: the waveforms load their audio anew, while the     *)
(* state of the card stays.                                                *)
(***************************************************************************)
EXTENDS Naturals

CONSTANT Wait   \* frames until the answer: waitMs

VARIABLES
    has,        \* the recordings of the conversation shown: hasInput, hasTts
    track,      \* the waveform of each recording
    timed,      \* recordings whose duration the card knows: inputDur, ttsDur
    stage,      \* phase
    replaying,  \* running
    elapsed,    \* frames since the input has ended: procElapsed
    disturbed   \* history: since the replay was started, a waveform was played
                \* or paused by its own button or not loaded, or the
                \* conversation was changed

replayVars == <<has, track, timed, stage, replaying, elapsed, disturbed>>
Rests == UNCHANGED replayVars

-----------------------------------------------------------------------------
Kind == {"input", "tts"}
Under == {"input", "processing", "response"}

ReplayTypeOK ==
    /\ has \subseteq Kind /\ timed \subseteq Kind
    /\ track \in [Kind -> {"none", "loading", "loaded", "playing"}]
    /\ \A k \in Kind : (track[k] = "none") = (k \notin has)
    /\ stage \in Under \union {"idle", "done"}
    /\ replaying \in BOOLEAN /\ elapsed \in 0 .. Wait /\ disturbed \in BOOLEAN

Loading(h) == [k \in Kind |-> IF k \in h THEN "loading" ELSE "none"]

Init ==
    /\ has \in SUBSET Kind /\ track = Loading(has) /\ timed = {}
    /\ stage = "idle" /\ replaying = FALSE /\ elapsed = 0 /\ disturbed = FALSE

-----------------------------------------------------------------------------
(* play or restart of a waveform, which does nothing before it has loaded. *)
Played(k) == [track EXCEPT ![k] = IF @ = "loaded" THEN "playing" ELSE @]
Paused(k) == [track EXCEPT ![k] = IF @ = "playing" THEN "loaded" ELSE @]

(* ready of a waveform: it is registered and the card told its duration. *)
TrackReady(k) ==
    /\ track[k] = "loading" /\ track' = [track EXCEPT ![k] = "loaded"]
    /\ timed' = timed \union {k}
    /\ UNCHANGED <<has, stage, replaying, elapsed, disturbed>>

(* The button of the card is enabled. *)
Ready == has \subseteq timed

(* The button of an idle card: start. *)
StartReplay ==
    /\ Ready /\ ~replaying /\ stage \in {"idle", "done"}
    /\ replaying' = TRUE /\ elapsed' = 0
    /\ stage' = IF "input" \in has THEN "input" ELSE "processing"
    /\ track' = IF "input" \in has THEN Played("input") ELSE track
    /\ disturbed' = \/ \E k \in Kind : track[k] = "playing"
                    \/ "input" \in has /\ track["input"] = "loading"
    /\ UNCHANGED <<has, timed>>

\* Mutant: only the input is paused.
PauseReplay_InputOnly ==
    /\ Ready /\ replaying /\ replaying' = FALSE
    /\ track' = IF stage = "input" THEN Paused("input") ELSE track
    /\ UNCHANGED <<has, timed, stage, elapsed, disturbed>>

(* The button of a running card. *)
PauseReplay ==
    /\ Ready /\ replaying /\ replaying' = FALSE
    /\ track' = CASE stage = "input" -> Paused("input")
                  [] stage = "response" -> Paused("tts")
                  [] OTHER -> track
    /\ UNCHANGED <<has, timed, stage, elapsed, disturbed>>

(* The button of a paused card. *)
ResumeReplay ==
    /\ Ready /\ ~replaying /\ stage \in Under /\ replaying' = TRUE
    /\ track' = CASE stage = "input" -> Played("input")
                  [] stage = "response" -> Played("tts")
                  [] OTHER -> track
    /\ UNCHANGED <<has, timed, stage, elapsed, disturbed>>

(* The button of a waveform: playPause. *)
PlayPause(k) ==
    /\ track[k] \in {"loaded", "playing"}
    /\ track' = IF track[k] = "loaded" THEN Played(k) ELSE Paused(k)
    /\ disturbed' = TRUE
    /\ UNCHANGED <<has, timed, stage, replaying, elapsed>>

(* onFinish of the input.  A wait that is already running is not begun     *)
(* again: the effect that counts its frames does not run again.            *)
InputEnds ==
    /\ track["input"] = "playing" /\ track' = Paused("input")
    /\ elapsed' = IF stage = "processing" /\ replaying THEN elapsed ELSE 0
    /\ stage' = "processing" /\ replaying' = TRUE
    /\ UNCHANGED <<has, timed, disturbed>>

(* onFinish of the answer. *)
AnswerEnds ==
    /\ track["tts"] = "playing" /\ track' = Paused("tts")
    /\ stage' = "done" /\ replaying' = FALSE
    /\ UNCHANGED <<has, timed, elapsed, disturbed>>

(* A frame of the wait, which a pause cancels. *)
Frame ==
    /\ stage = "processing" /\ replaying /\ elapsed < Wait
    /\ elapsed' = elapsed + 1
    /\ UNCHANGED <<has, track, timed, stage, replaying, disturbed>>

\* Mutant: the card is not stopped when there is no answer to play.
WaitEnds_GoesOn ==
    /\ stage = "processing" /\ replaying /\ elapsed = Wait
    /\ IF "tts" \in has
       THEN stage' = "response" /\ track' = Played("tts")
       ELSE stage' = "done" /\ UNCHANGED track
    /\ disturbed' = (disturbed \/ track["tts"] = "loading")
    /\ UNCHANGED <<has, timed, replaying, elapsed>>

(* The last frame: the answer is played, if there is one. *)
WaitEnds ==
    /\ stage = "processing" /\ replaying /\ elapsed = Wait
    /\ IF "tts" \in has
       THEN stage' = "response" /\ track' = Played("tts") /\ UNCHANGED replaying
       ELSE stage' = "done" /\ replaying' = FALSE /\ UNCHANGED track
    /\ disturbed' = (disturbed \/ track["tts"] = "loading")
    /\ UNCHANGED <<has, timed, elapsed>>

(* Another turn of the session: other audio, the same card. *)
NextTurn(h) ==
    /\ has' = h /\ track' = Loading(h)
    /\ disturbed' = (disturbed \/ stage \in Under)
    /\ UNCHANGED <<timed, stage, replaying, elapsed>>

Next ==
    \/ \E k \in Kind : TrackReady(k) \/ PlayPause(k)
    \/ StartReplay \/ PauseReplay \/ ResumeReplay
    \/ InputEnds \/ AnswerEnds \/ Frame \/ WaitEnds
    \/ \E h \in SUBSET Kind : NextTurn(h)

(* What plays comes to its end, and the browser draws frames. *)
Fairness == WF_replayVars(InputEnds \/ AnswerEnds \/ Frame \/ WaitEnds)

Spec == Init /\ [][Next]_replayVars /\ Fairness

-----------------------------------------------------------------------------
(* A recording sounds exactly while the card says so: the input while it   *)
(* is "Listening", the answer while it is "Speaking", nothing while it is  *)
(* "Thinking", paused or at its end; until a waveform is used by itself or *)
(* another conversation is shown.                                          *)
ReplayIsHeard ==
    ~disturbed =>
        /\ track["input"] = "playing" <=> replaying /\ stage = "input"
        /\ track["tts"] = "playing" <=> replaying /\ stage = "response"

(* A replay that runs comes to its end, or is paused. *)
ReplayEnds == (replaying /\ ~disturbed) ~> (~replaying \/ disturbed)
=============================================================================
