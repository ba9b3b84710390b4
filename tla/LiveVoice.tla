------------------------------ MODULE LiveVoice ------------------------------
(***************************************************************************)
(* The hands-free conversation of the chat page: the useLiveVoice hook,    *)
(* the browser's microphone and sockets, and the node at the other end.    *)
(*                                                                         *)
(* connect waits for a token, for the microphone and for the capture       *)
(* worklet before it opens the socket.  The user may meanwhile stop, pick  *)
(* another Domia, leave the page or connect again; what connect has        *)
(* obtained is reached through refs that hold the last session only.       *)
(*                                                                         *)
(* A message is handled when it is sent: a socket keeps the order, and     *)
(* nothing the page says changes what the node may send next.  The buffers *)
(* of a reply that are scheduled are one element of "scheduled".  The      *)
(* playback context exists exactly while wsRef does.                       *)
(***************************************************************************)
EXTENDS Naturals, SequencesExt, FiniteSets

CONSTANTS
    Domia,      \* domiaKeys of the Domias one can pick
    Session,    \* calls of connect
    MaxReplies  \* bound: replies of the nodes of all open sessions

VARIABLES
    shown,      \* target: the Domia the page shows
    here,       \* the page is mounted
    status,     \* state.status
    at,         \* what a call of connect waits for
    grant,      \* the Domia the token of a session is for
    mics,       \* sessions whose MediaStream is open
    stream,     \* streamRef and captureCtxRef
    socket,     \* readyState of the WebSocket of a session
    ws,         \* wsRef, workletRef and playbackCtxRef
    listening,  \* listeningRef
    play,       \* pausedRef, streamEndedRef, playedSentRef and interactionIdRef
    scheduled,  \* sourcesRef: the replies with buffers still to play
    node,       \* sessions whose node has said ready
    named,      \* audio_stream_begin of these nodes carries the interactionId
    replies,    \* the replies of an open session: their audio, reply_done sent
    sent,       \* per open session: the replies of which audio_played told it
    overtaken   \* history: sessions the refs lost, or a teardown came too soon for

page == <<shown, here, status>>
calls == <<at, grant, overtaken>>
held == <<mics, stream, socket, ws>>
audio == <<listening, play, scheduled, sent>>
mesh == <<node, named, replies>>
liveVars == <<page, calls, held, audio, mesh>>
LiveRests == UNCHANGED liveVars

-----------------------------------------------------------------------------
Connected == {"listening", "thinking", "speaking"}
Waiting == {s \in Session : at[s] \in {"token", "mic", "module"}}
Live == {s \in Session : socket[s] \in {"opening", "open"}}
Reply == Session \X (1 .. MaxReplies)

Fresh == [paused |-> FALSE, ended |-> FALSE, played |-> FALSE, id |-> {}]

LiveTypeOK ==
    /\ shown \in Domia /\ here \in BOOLEAN
    /\ status \in Connected \union {"idle", "connecting", "error"}
    /\ at \in [Session -> {"none", "token", "mic", "module", "socket", "over"}]
    /\ grant \in [Session -> SUBSET Domia]
    /\ mics \subseteq Session /\ stream \subseteq mics /\ \A s, t \in stream : s = t
    /\ socket \in [Session -> {"none", "opening", "open", "closed"}]
    /\ ws \subseteq Live /\ \A s, t \in ws : s = t
    /\ listening \in BOOLEAN
    /\ play \in [paused : BOOLEAN, ended : BOOLEAN, played : BOOLEAN,
                 id : SUBSET Reply]
    /\ scheduled \subseteq Reply
    /\ node \subseteq Session /\ named \in BOOLEAN
    /\ replies \in [Session -> Seq([audio : {"none", "stream", "over"}, done : BOOLEAN])]
    /\ sent \in [Session -> Seq(Reply)]
    /\ overtaken \subseteq Session

LiveInit ==
    /\ shown \in Domia /\ here = TRUE /\ status = "idle"
    /\ at = [s \in Session |-> "none"]
    /\ grant = [s \in Session |-> {}]
    /\ mics = {} /\ stream = {}
    /\ socket = [s \in Session |-> "none"] /\ ws = {}
    /\ listening = FALSE /\ play = Fresh /\ scheduled = {}
    /\ node = {} /\ named \in BOOLEAN /\ replies = [s \in Session |-> <<>>]
    /\ sent = [s \in Session |-> <<>>]
    /\ overtaken = {}

-----------------------------------------------------------------------------
(* Steps the handlers share.                                               *)

(* patch: React drops the state of a component that is gone. *)
Patch(s) == status' = IF here THEN s ELSE status

(* The sockets of S are closed, and what their nodes said is forgotten. *)
Close(S) ==
    /\ socket' = [s \in Session |-> IF s \in S THEN "closed" ELSE socket[s]]
    /\ node' = node \ S
    /\ replies' = [s \in Session |-> IF s \in S THEN <<>> ELSE replies[s]]
    /\ sent' = [s \in Session |-> IF s \in S THEN <<>> ELSE sent[s]]

\* Mutant: the tracks of the stream are not stopped.
Teardown_KeepsMic(late) ==
    /\ mics' = mics /\ stream' = {}
    /\ Close(ws) /\ ws' = {}
    /\ listening' = FALSE /\ play' = Fresh /\ scheduled' = {}
    /\ overtaken' = overtaken \union late

\* Mutant: streamRef is not reset.
Teardown_KeepsRef(late) ==
    /\ mics' = mics \ stream /\ stream' = stream
    /\ Close(ws) /\ ws' = {}
    /\ listening' = FALSE /\ play' = Fresh /\ scheduled' = {}
    /\ overtaken' = overtaken \union late

(* teardown closes what the refs hold; a call of connect that waits has    *)
(* nothing there yet and goes on: it comes too late for the teardown.      *)
Teardown(late) ==
    /\ mics' = mics \ stream /\ stream' = {}
    /\ Close(ws) /\ ws' = {}
    /\ listening' = FALSE /\ play' = Fresh /\ scheduled' = {}
    /\ overtaken' = overtaken \union late

IsDue(p, queue) ==
    /\ ~p.paused /\ ~p.played /\ p.ended /\ queue = {}
    /\ p.id # {} /\ \E w \in ws : socket[w] = "open"

Told(p) == [s \in Session |-> IF s \in ws THEN sent[s] \o SetToSeq(p.id) ELSE sent[s]]

\* Mutant: the report is not remembered.
Report_Again(p, queue) ==
    /\ scheduled' = queue
    /\ play' = p
    /\ sent' = IF IsDue(p, queue) THEN Told(p) ELSE sent

(* reportAudioPlayed, called with the refs as p and queue have them. *)
Report(p, queue) ==
    /\ scheduled' = queue
    /\ play' = [p EXCEPT !.played = @ \/ IsDue(p, queue)]
    /\ sent' = IF IsDue(p, queue) THEN Told(p) ELSE sent

-----------------------------------------------------------------------------
(* connect, and what ends a session.                                       *)

(* "Start live voice" is offered unless connecting or connected; after an  *)
(* error message the session before it may still be open.                  *)
Connect(s) ==
    /\ here /\ status \notin Connected \union {"connecting"}
    /\ at[s] = "none"
    /\ at' = [at EXCEPT ![s] = "token"]
    /\ grant' = [grant EXCEPT ![s] = {shown}]
    /\ status' = "connecting"
    /\ UNCHANGED <<shown, here, overtaken, held, audio, mesh>>

(* mintLiveVoiceToken grants, and the browser can capture. *)
TokenGranted(s) ==
    /\ at[s] = "token"
    /\ at' = [at EXCEPT ![s] = "mic"]
    /\ UNCHANGED <<page, grant, overtaken, held, audio, mesh>>

(* No address, no token, or no getUserMedia: these return without teardown. *)
TokenRefused(s) ==
    /\ at[s] = "token"
    /\ at' = [at EXCEPT ![s] = "over"]
    /\ Patch("error")
    /\ UNCHANGED <<shown, here, grant, overtaken, held, audio, mesh>>

(* getUserMedia resolves; the stream of another session is forgotten. *)
MicGranted(s) ==
    /\ at[s] = "mic"
    /\ at' = [at EXCEPT ![s] = "module"]
    /\ mics' = mics \union {s} /\ stream' = {s}
    /\ overtaken' = overtaken \union (stream \ {s})
    /\ UNCHANGED <<page, grant, socket, ws, audio, mesh>>

(* The worklet is loaded: the rest of connect, up to the new WebSocket. *)
ModuleLoaded(s) ==
    /\ at[s] = "module"
    /\ at' = [at EXCEPT ![s] = "socket"]
    /\ socket' = [socket EXCEPT ![s] = "opening"]
    /\ ws' = {s}
    /\ overtaken' = overtaken \union (ws \ {s})
    /\ UNCHANGED <<page, grant, mics, stream, audio, mesh>>

(* The catch: the microphone is denied or the worklet fails to load.  It   *)
(* tears down what the refs hold, whose session ever that is.              *)
ConnectThrows(s) ==
    /\ at[s] \in {"mic", "module"}
    /\ at' = [at EXCEPT ![s] = "over"]
    /\ Teardown(Waiting \ {s}) /\ Patch("error")
    /\ UNCHANGED <<shown, here, grant, named>>

SocketOpens(s) ==
    /\ socket[s] = "opening"
    /\ socket' = [socket EXCEPT ![s] = "open"]
    /\ UNCHANGED <<page, calls, mics, stream, ws, audio, mesh>>

\* Mutant: the status is left as it is.
SocketCloses_Silent(s) ==
    /\ s \in ws
    /\ Teardown(Waiting)
    /\ UNCHANGED <<page, at, grant, named>>

(* onclose of the session wsRef holds, after onerror or without it. *)
SocketCloses(s) ==
    /\ s \in ws
    /\ Teardown(Waiting) /\ Patch("error")
    /\ UNCHANGED <<shown, here, at, grant, named>>

(* onclose of another session returns early; its onerror does not. *)
LostSocketCloses(s) ==
    /\ s \in Live \ ws
    /\ Close({s})
    /\ UNCHANGED status \/ Patch("error")
    /\ UNCHANGED <<shown, here, calls, mics, stream, ws, listening, play, scheduled, named>>

(* "Stop", shown while connected. *)
Disconnect ==
    /\ here /\ status \in Connected
    /\ Teardown(Waiting) /\ status' = "idle"
    /\ UNCHANGED <<shown, here, at, grant, named>>

\* Mutant: the session of the Domia before goes on.
Select_NoTeardown(d) ==
    /\ here /\ d # shown
    /\ shown' = d
    /\ UNCHANGED <<here, status, calls, held, audio, mesh>>

(* Another Domia is picked: the effect on targetSig. *)
Select(d) ==
    /\ here /\ d # shown
    /\ shown' = d
    /\ Teardown(Waiting) /\ status' = "idle"
    /\ UNCHANGED <<here, at, grant, named>>

(* The page is left: the cleanup of the first effect. *)
LeaveVoice ==
    /\ here /\ here' = FALSE
    /\ Teardown(Waiting)
    /\ UNCHANGED <<shown, status, at, grant, named>>

-----------------------------------------------------------------------------
(* handleMessage and playFrame, for a message of the node of session s.    *)
(* The browser delivers none of a socket that is closing.                  *)

Says(s) == socket[s] = "open" /\ s \in node

(* Bound: a node whose session the refs lost starts nothing more. *)
Talks(s) == Says(s) /\ s \notin overtaken

Ready(s) ==
    /\ socket[s] = "open" /\ s \notin node
    /\ node' = node \union {s}
    /\ listening' = TRUE
    /\ Patch("listening")
    /\ UNCHANGED <<shown, here, calls, held, play, scheduled, sent, named, replies>>

SpeechStopped(s) ==
    /\ Talks(s)
    /\ listening' = FALSE
    /\ Patch("thinking")
    /\ UNCHANGED <<shown, here, calls, held, play, scheduled, sent, mesh>>

(* Bound: once a session was overtaken, the nodes start one reply at most. *)
Heard == UNION {{s} \X DOMAIN replies[s] : s \in Session}
Unsaid == Cardinality(Heard) < IF overtaken = {} THEN MaxReplies ELSE 1

Speaking(s) == {i \in DOMAIN replies[s] : replies[s][i].audio = "stream"}

(* The audio of a reply begins: of a new one, or of one whose text came    *)
(* first.                                                                  *)
Voices(s, i) ==
    /\ Talks(s) /\ Speaking(s) = {}
    /\ \/ /\ i = Len(replies[s]) + 1 /\ Unsaid
          /\ replies' = [replies EXCEPT ![s] = Append(@, [audio |-> "stream", done |-> FALSE])]
       \/ /\ i = Len(replies[s]) /\ replies[s][i].audio = "none"
          /\ replies' = [replies EXCEPT ![s][i].audio = "stream"]

Named(s, i) == IF named THEN {<<s, i>>} ELSE {}

\* Mutant: the end of the stream before is not forgotten.
Begin_StaleEnd(s, i) ==
    /\ Voices(s, i)
    /\ play' = [Fresh EXCEPT !.ended = play.ended, !.id = Named(s, i)]
    /\ Patch("speaking")
    /\ UNCHANGED <<shown, here, calls, held, listening, scheduled, sent, node, named>>

(* audio_stream_begin: interactionIdRef is null when it carries no id. *)
Begin(s, i) ==
    /\ Voices(s, i)
    /\ play' = [Fresh EXCEPT !.id = Named(s, i)]
    /\ Patch("speaking")
    /\ UNCHANGED <<shown, here, calls, held, listening, scheduled, sent, node, named>>

(* A frame of audio: playFrame drops it without a playback context, and    *)
(* while paused.                                                           *)
Frame(s) ==
    /\ Says(s) /\ Speaking(s) # {}
    /\ ws # {} /\ ~play.paused
    /\ scheduled' = scheduled \union ({s} \X Speaking(s))
    /\ UNCHANGED <<page, calls, held, listening, play, sent, mesh>>

\* Mutant: the reply whose buffers ended is not reported.
BufferEnds_Silent(r) ==
    /\ r \in scheduled
    /\ scheduled' = scheduled \ {r}
    /\ UNCHANGED <<page, calls, held, listening, play, sent, mesh>>

(* onended of the last buffer of a reply that is scheduled. *)
BufferEnds(r) ==
    /\ r \in scheduled
    /\ Report(play, scheduled \ {r})
    /\ UNCHANGED <<page, calls, held, listening, mesh>>

(* audio_pause: stopScheduled drops what was to be played. *)
Pause(s) ==
    /\ Talks(s)
    /\ play' = [play EXCEPT !.paused = TRUE]
    /\ scheduled' = {}
    /\ UNCHANGED <<page, calls, held, listening, sent, mesh>>

(* audio_resume reports nothing. *)
Resume(s) ==
    /\ Talks(s)
    /\ play' = [play EXCEPT !.paused = FALSE]
    /\ UNCHANGED <<page, calls, held, listening, scheduled, sent, mesh>>

(* audio_stream_end *)
End(s, i) ==
    /\ Says(s) /\ i \in Speaking(s)
    /\ replies' = [replies EXCEPT ![s][i].audio = "over"]
    /\ listening' = TRUE
    /\ Report([play EXCEPT !.ended = TRUE], scheduled)
    /\ Patch("listening")
    /\ UNCHANGED <<shown, here, calls, held, node, named>>

(* reply_done of the last reply, or of one that starts with it; it names   *)
(* the reply only when nothing has.                                        *)
ReplyDone(s, i) ==
    /\ Talks(s)
    /\ \/ /\ i = Len(replies[s]) /\ ~replies[s][i].done
          /\ replies' = [replies EXCEPT ![s][i].done = TRUE]
       \/ /\ i = Len(replies[s]) + 1 /\ Unsaid /\ Speaking(s) = {}
          /\ replies' = [replies EXCEPT ![s] = Append(@, [audio |-> "none", done |-> TRUE])]
    /\ Report([play EXCEPT !.id = IF @ = {} THEN {<<s, i>>} ELSE @], scheduled)
    /\ UNCHANGED <<page, calls, held, listening, node, named>>

(* error: the message is shown, and the session goes on. *)
ErrorMessage(s) ==
    /\ socket[s] = "open"
    /\ Patch("error")
    /\ UNCHANGED <<shown, here, calls, held, audio, mesh>>

-----------------------------------------------------------------------------
LiveNext ==
    \/ \E s \in Session :
          \/ Connect(s) \/ TokenGranted(s) \/ TokenRefused(s)
          \/ MicGranted(s) \/ ModuleLoaded(s) \/ ConnectThrows(s)
          \/ SocketOpens(s) \/ SocketCloses(s) \/ LostSocketCloses(s)
          \/ Ready(s) \/ SpeechStopped(s) \/ Frame(s)
          \/ Pause(s) \/ Resume(s) \/ ErrorMessage(s)
          \/ \E i \in 1 .. MaxReplies : Begin(s, i) \/ End(s, i) \/ ReplyDone(s, i)
    \/ \E r \in scheduled : BufferEnds(r)
    \/ \E d \in Domia : Select(d)
    \/ Disconnect
    \/ LeaveVoice

(* What is scheduled is played: the audio device of the browser goes on.   *)
LiveFairness == \A r \in Reply : WF_liveVars(BufferEnds(r))

LiveSpec == LiveInit /\ [][LiveNext]_liveVars /\ LiveFairness

-----------------------------------------------------------------------------
(* Every open microphone and socket is one that Stop, the next Domia or    *)
(* leaving the page closes.  The exception is a session a teardown came    *)
(* too soon for, while connect still waited, and one that a later connect  *)
(* replaced in the refs.                                                   *)
MicsAreHeld == mics \ overtaken \subseteq stream /\ Live \ overtaken \subseteq ws

(* While no session was overtaken: the page shows a conversation, listens  *)
(* and has audio to play only when there is a session to stop.             *)
HeldWhenShown ==
    overtaken = {} =>
        (listening \/ scheduled # {} \/ (here /\ status \in Connected) => ws # {})

(* A reply is reported as played once, to the session whose reply it is,   *)
(* when its stream is over and no buffer of it is left to play.            *)
PlayedIsTrue ==
    [][\A s \in Session : overtaken = {} =>
         \A n \in (Len(sent[s]) + 1) .. Len(sent'[s]) :
            LET id == sent'[s][n] IN
            /\ id[1] = s
            /\ \A k \in 1 .. (n - 1) : sent'[s][k] # id
            /\ replies'[s][id[2]].audio # "stream"
            /\ id \notin scheduled']_liveVars

(* A named reply whose stream ends with buffers still to play is reported  *)
(* in the end, unless the node pauses it, begins another, or the session   *)
(* is torn down.                                                           *)
ReplyIsOut ==
    /\ overtaken = {} /\ scheduled # {} /\ play.id # {}
    /\ play.ended /\ ~play.paused /\ \E w \in ws : socket[w] = "open"
ReplyIsReported == play.played \/ play.paused \/ ~play.ended \/ overtaken # {}
PlayedIsReported == ReplyIsOut ~> ReplyIsReported

(* The panel says "Live with" the Domia the page shows: the session it     *)
(* shows is that Domia's, unless a session was overtaken.                  *)
LiveIsOfTheDomiaShown ==
    overtaken = {} /\ here /\ status \in Connected =>
        \A s \in ws : grant[s] = {shown}
=============================================================================
