----------------------------- MODULE VoiceProofs -----------------------------
(***************************************************************************)
(* Proofs about what opens a microphone in the console: the live voice,    *)
(* the recorder and the voice lab, for any number of Domias, sessions,     *)
(* replies, takes and joins.                                               *)
(*                                                                         *)
(* Each component is proved by itself, from an inductive invariant of its  *)
(* own; ConsoleProofs takes the invariants over for the whole console.     *)
(***************************************************************************)
EXTENDS LiveVoice, AudioRecorder, LivekitLab, FiniteSetTheorems, TLAPS

-----------------------------------------------------------------------------
SessionTypes ==
    /\ shown \in Domia
    /\ at \in [Session -> {"none", "token", "mic", "module", "socket", "over"}]
    /\ grant \in [Session -> SUBSET Domia]
    /\ socket \in [Session -> {"none", "opening", "open", "closed"}]
    /\ mics \subseteq Session /\ stream \subseteq Session
    /\ ws \subseteq Session /\ overtaken \subseteq Session

(* What is open or on its way is for the Domia the page shows. *)
GrantIsShown == overtaken = {} => \A s \in ws \union Waiting : grant[s] = {shown}

VoiceInv == SessionTypes /\ MicsAreHeld /\ GrantIsShown /\ HeldWhenShown

(* The page opens with no session. *)
LEMMA VoiceInit == LiveInit => VoiceInv
BY DEF LiveInit, Fresh, VoiceInv, SessionTypes, MicsAreHeld, GrantIsShown, HeldWhenShown,
       Waiting, Live, Connected

(* A socket that carries messages is one the refs hold. *)
LEMMA OpenIsHeld ==
    ASSUME VoiceInv, overtaken = {}, NEW s \in Session, socket[s] \in {"opening", "open"}
    PROVE  s \in ws
BY DEF VoiceInv, MicsAreHeld, Live

(* teardown closes all that the refs hold, so that nothing stays open but  *)
(* what was lost before, or comes too late.                                *)
LEMMA TeardownCloses ==
    ASSUME VoiceInv, NEW late \in SUBSET Session, Teardown(late)
    PROVE  /\ MicsAreHeld'
           /\ socket' \in [Session -> {"none", "opening", "open", "closed"}]
           /\ mics' \subseteq Session /\ stream' = {} /\ ws' = {}
           /\ ~listening' /\ scheduled' = {} /\ overtaken' = overtaken \union late
<1> USE DEF VoiceInv, SessionTypes, Teardown, Close
<1>1. socket' = [s \in Session |-> IF s \in ws THEN "closed" ELSE socket[s]]
  OBVIOUS
<1>2. Live' \subseteq Live \ ws
  BY <1>1 DEF Live
<1>3. MicsAreHeld'
  BY <1>2 DEF MicsAreHeld
<1> QED
  BY <1>1, <1>3

(* The steps that tear down. *)
LEMMA TeardownKeeps ==
    ASSUME VoiceInv,
           \/ \E s \in Session : ConnectThrows(s) \/ SocketCloses(s)
           \/ \E d \in Domia : Select(d)
           \/ Disconnect \/ LeaveVoice
    PROVE  VoiceInv'
<1> USE DEF VoiceInv
<1>1. Waiting \subseteq Session
  BY DEF Waiting
<1>2. PICK late \in SUBSET Session :
         /\ Teardown(late) /\ Waiting' \subseteq late
         /\ at' \in [Session -> {"none", "token", "mic", "module", "socket", "over"}]
         /\ grant' = grant /\ shown' \in Domia
  <2>1. ASSUME NEW s \in Session, ConnectThrows(s)
        PROVE  Waiting' \subseteq Waiting \ {s} /\ Teardown(Waiting \ {s})
    BY <2>1 DEF ConnectThrows, Waiting, SessionTypes
  <2>2. ASSUME UNCHANGED at PROVE Waiting' = Waiting
    BY <2>2 DEF Waiting
  <2> QED
    BY <1>1, <2>1, <2>2 DEF ConnectThrows, SocketCloses, Select, Disconnect, LeaveVoice, SessionTypes
<1>3. SessionTypes'
  BY <1>2, TeardownCloses DEF SessionTypes
<1>4. GrantIsShown'
  BY <1>2, TeardownCloses DEF GrantIsShown
<1>5. here' => status' \notin Connected
  BY DEF ConnectThrows, SocketCloses, Select, Disconnect, LeaveVoice, Patch, Connected
<1>6. HeldWhenShown'
  BY <1>2, <1>5, TeardownCloses DEF HeldWhenShown
<1> QED
  BY <1>2, <1>3, <1>4, <1>6, TeardownCloses

(* The steps of connect, up to the open socket. *)
LEMMA ConnectKeeps ==
    ASSUME VoiceInv, NEW s \in Session,
           \/ Connect(s) \/ TokenGranted(s) \/ TokenRefused(s) \/ MicGranted(s)
           \/ ModuleLoaded(s) \/ SocketOpens(s) \/ LostSocketCloses(s)
    PROVE  VoiceInv'
<1> USE DEF VoiceInv, SessionTypes
<1>1. CASE Connect(s)
  <2>1. SessionTypes' /\ MicsAreHeld'
    BY <1>1 DEF Connect, held, MicsAreHeld, Live
  <2>2. Waiting' = Waiting \union {s}
    BY <1>1 DEF Connect, Waiting
  <2>3. GrantIsShown'
    BY <1>1, <2>2 DEF Connect, held, GrantIsShown
  <2>4. HeldWhenShown'
    BY <1>1 DEF Connect, held, audio, HeldWhenShown, Connected
  <2> QED
    BY <2>1, <2>3, <2>4
<1>2. CASE TokenGranted(s)
  BY <1>2 DEF TokenGranted, page, held, audio, mesh, MicsAreHeld, GrantIsShown, HeldWhenShown,
     Waiting, Live
<1>3. CASE TokenRefused(s)
  BY <1>3 DEF TokenRefused, Patch, held, audio, mesh, MicsAreHeld, GrantIsShown,
     HeldWhenShown, Waiting, Live, Connected
<1>4. CASE MicGranted(s)
  BY <1>4 DEF MicGranted, page, audio, mesh, MicsAreHeld, GrantIsShown, HeldWhenShown,
     Waiting, Live
<1>5. CASE ModuleLoaded(s)
  BY <1>5 DEF ModuleLoaded, page, audio, mesh, MicsAreHeld, GrantIsShown, HeldWhenShown,
     Waiting, Live
<1>6. CASE SocketOpens(s)
  BY <1>6 DEF SocketOpens, page, calls, audio, mesh, MicsAreHeld, GrantIsShown,
     HeldWhenShown, Waiting, Live
<1>7. CASE LostSocketCloses(s)
  <2>1. overtaken # {} /\ overtaken' = overtaken
    BY <1>7 DEF LostSocketCloses, calls, MicsAreHeld
  <2>2. SessionTypes' /\ MicsAreHeld'
    BY <1>7 DEF LostSocketCloses, Close, calls, MicsAreHeld, Live
  <2> QED
    BY <2>1, <2>2 DEF GrantIsShown, HeldWhenShown
<1> QED
  BY <1>1, <1>2, <1>3, <1>4, <1>5, <1>6, <1>7

(* The messages of a node, and the audio they bring. *)
LEMMA MessagesKeep ==
    ASSUME VoiceInv, NEW s \in Session,
           \/ Ready(s) \/ SpeechStopped(s) \/ Frame(s) \/ Pause(s) \/ Resume(s)
           \/ ErrorMessage(s)
           \/ \E i \in 1 .. MaxReplies : Begin(s, i) \/ End(s, i) \/ ReplyDone(s, i)
    PROVE  VoiceInv'
<1> USE DEF VoiceInv
<1>1. UNCHANGED <<shown, here, calls, held>>
  BY DEF Ready, SpeechStopped, Frame, Pause, Resume, ErrorMessage, Begin, End, ReplyDone, page
<1>2. SessionTypes' /\ MicsAreHeld' /\ GrantIsShown'
  BY <1>1 DEF calls, held, SessionTypes, MicsAreHeld, GrantIsShown, Waiting, Live
<1>3. socket[s] = "open"
  BY DEF Ready, SpeechStopped, Frame, Pause, Resume, ErrorMessage, Begin, Voices, End,
     ReplyDone, Says, Talks
<1>4. HeldWhenShown'
  BY <1>1, <1>3, OpenIsHeld DEF HeldWhenShown, calls, held
<1> QED
  BY <1>2, <1>4

(* Every step of the live voice keeps its invariant. *)
LEMMA VoiceStep == ASSUME VoiceInv, [LiveNext]_liveVars PROVE VoiceInv'
<1>1. ASSUME NEW r \in scheduled, BufferEnds(r) PROVE VoiceInv'
  BY <1>1 DEF BufferEnds, Report, page, calls, held, mesh, VoiceInv, SessionTypes,
     MicsAreHeld, GrantIsShown, HeldWhenShown, Waiting, Live
<1>2. CASE UNCHANGED liveVars
  BY <1>2 DEF liveVars, page, calls, held, audio, mesh, VoiceInv, SessionTypes,
     MicsAreHeld, GrantIsShown, HeldWhenShown, Waiting, Live
<1>3. ASSUME NEW s \in Session,
             \/ Connect(s) \/ TokenGranted(s) \/ TokenRefused(s) \/ MicGranted(s)
             \/ ModuleLoaded(s) \/ SocketOpens(s) \/ LostSocketCloses(s)
      PROVE  VoiceInv'
  BY <1>3, ConnectKeeps
<1>4. ASSUME NEW s \in Session,
             \/ Ready(s) \/ SpeechStopped(s) \/ Frame(s) \/ Pause(s) \/ Resume(s)
             \/ ErrorMessage(s)
             \/ \E i \in 1 .. MaxReplies : Begin(s, i) \/ End(s, i) \/ ReplyDone(s, i)
      PROVE  VoiceInv'
  BY <1>4, MessagesKeep
<1>5. CASE \/ \E s \in Session : ConnectThrows(s) \/ SocketCloses(s)
           \/ \E d \in Domia : Select(d)
           \/ Disconnect \/ LeaveVoice
  BY <1>5, TeardownKeeps
<1> QED
  BY <1>1, <1>2, <1>3, <1>4, <1>5 DEF LiveNext

(* The invariant of the live voice. *)
THEOREM VoiceInvariant == LiveSpec => []VoiceInv
<1>1. VoiceInv /\ [LiveNext]_liveVars => VoiceInv'
  BY VoiceStep
<1> QED
  BY VoiceInit, <1>1, PTL DEF LiveSpec

(* use-live-voice.ts: Stop, another Domia and leaving the page close every *)
(* microphone and socket, but for a session that was overtaken.            *)
THEOREM MicsStayHeld == LiveSpec => []MicsAreHeld
<1>1. VoiceInv => MicsAreHeld
  BY DEF VoiceInv
<1> QED
  BY <1>1, VoiceInvariant, PTL

(* live-voice.tsx: "Live with" names the Domia of the session, and is not  *)
(* shown without one, unless a session was overtaken.                      *)
THEOREM LiveIsTrue == LiveSpec => [](HeldWhenShown /\ LiveIsOfTheDomiaShown)
<1>1. VoiceInv => HeldWhenShown /\ LiveIsOfTheDomiaShown
  BY DEF VoiceInv, GrantIsShown, LiveIsOfTheDomiaShown
<1> QED
  BY <1>1, VoiceInvariant, PTL

-----------------------------------------------------------------------------
(* Why a reply is reported as played once, and only then.                  *)
PlayRecord == [paused : BOOLEAN, ended : BOOLEAN, played : BOOLEAN, id : SUBSET Reply]
ReplyRecord == [audio : {"none", "stream", "over"}, done : BOOLEAN]

PageTypes ==
    /\ here \in BOOLEAN /\ status \in Connected \union {"idle", "connecting", "error"}
    /\ listening \in BOOLEAN /\ node \subseteq Session /\ named \in BOOLEAN
HeldTypes ==
    /\ stream \subseteq mics /\ \A s, t \in stream : s = t
    /\ ws \subseteq Live /\ \A s, t \in ws : s = t
OneId(p) == \A r, q \in p.id : r = q
PlayTypes == play \in PlayRecord /\ OneId(play) /\ scheduled \subseteq Reply
ReplyTypes ==
    /\ replies \in [Session -> Seq(ReplyRecord)]
    /\ \A s \in Session : DOMAIN replies[s] \subseteq 1 .. MaxReplies
SentTypes == sent \in [Session -> Seq(Reply)]

Streams(list) == {i \in DOMAIN list : list[i].audio = "stream"}

(* The refs p, the reports told and the replies belong together: what the  *)
(* refs name and what was told are replies of the open session.            *)
OfTheSession(w, p, said, list) ==
    /\ \A s \in Session \ w : said[s] = <<>> /\ list[s] = <<>>
    /\ \A r \in p.id : r[1] \in w /\ r[2] \in DOMAIN list[r[1]]
    /\ \A s \in Session : \A k \in DOMAIN said[s] :
          said[s][k][1] = s /\ said[s][k][2] \in DOMAIN list[s]

(* One reply streams at a time, and none when the refs say that it ended. *)
OneStreams(p, list) ==
    /\ \A s \in Session : \A i, j \in Streams(list[s]) : i = j
    /\ p.ended => \A s \in Session : Streams(list[s]) = {}

(* What is named and not yet reported has not been told before. *)
NotYetTold(p, said) ==
    ~p.played => \A s \in Session : \A k \in DOMAIN said[s] : said[s][k] \notin p.id

(* A node that names its streams: the refs name the one that streams, and  *)
(* what was told is over.                                                  *)
NamedByStream(p, said, list) ==
    /\ \A s \in Session : \A i \in Streams(list[s]) : p.id = {<<s, i>>}
    /\ p.ended => p.id # {} /\ \A r \in p.id : list[r[1]][r[2]].audio = "over"
    /\ p.id = {} => \A s \in Session : said[s] = <<>>
    /\ \A s \in Session : \A k \in DOMAIN said[s] : list[s][said[s][k][2]].audio = "over"

(* One that does not: a reply is named when its text is done. *)
NamedWhenDone(p, said, list) ==
    /\ \A r \in p.id : list[r[1]][r[2]].done
    /\ \A s \in Session : \A k \in DOMAIN said[s] : list[s][said[s][k][2]].done

Consistent(w, p, said, list) ==
    /\ OfTheSession(w, p, said, list) /\ OneStreams(p, list) /\ NotYetTold(p, said)
    /\ IF named THEN NamedByStream(p, said, list) ELSE NamedWhenDone(p, said, list)

PlayInv ==
    /\ PageTypes /\ HeldTypes /\ PlayTypes /\ ReplyTypes /\ SentTypes
    /\ overtaken = {} => Consistent(ws, play, sent, replies)

(* PlayedIsTrue, of one step. *)
ToldTruly ==
    \A s \in Session :
        \A n \in (Len(sent[s]) + 1) .. Len(sent'[s]) :
            LET id == sent'[s][n] IN
            /\ id[1] = s
            /\ \A k \in 1 .. (n - 1) : sent'[s][k] # id
            /\ replies'[s][id[2]].audio # "stream"
            /\ id \notin scheduled'

(* No reply is there before a session. *)
LEMMA PlayStarts == LiveInit => PlayInv
<1> SUFFICES ASSUME LiveInit PROVE PlayInv
  OBVIOUS
<1> USE DEF LiveInit, Fresh
<1>1. PageTypes /\ HeldTypes
  BY DEF PageTypes, HeldTypes, Connected, Live
<1>2. PlayTypes /\ ReplyTypes /\ SentTypes
  BY DEF PlayTypes, PlayRecord, OneId, ReplyTypes, SentTypes
<1>3. \A s \in Session : Streams(replies[s]) = {} /\ DOMAIN sent[s] = {}
  BY DEF Streams
<1>4. Consistent(ws, play, sent, replies)
  BY <1>3 DEF Consistent, OfTheSession, OneStreams, NotYetTold, NamedByStream, NamedWhenDone
<1> QED
  BY <1>1, <1>2, <1>4 DEF PlayInv

(* One reply as a sequence. *)
LEMMA OneAsSequence == ASSUME NEW x PROVE SetToSeq({x}) = <<x>>
<1>1. Cardinality({x}) = 1
  BY FS_Singleton
<1>2. \A f : f \in [1 .. 1 -> {x}] <=> f = <<x>>
  OBVIOUS
<1>3. IsInjective(<<x>>)
  BY DEF IsInjective
<1> QED
  BY <1>1, <1>2, <1>3 DEF SetToSeq

(* What reportAudioPlayed does to the refs, and whom it tells. *)
LEMMA ReportTells ==
    ASSUME PlayInv, NEW p \in PlayRecord, OneId(p), NEW queue \in SUBSET Reply, Report(p, queue)
    PROVE  /\ play' \in PlayRecord /\ play'.id = p.id /\ play'.ended = p.ended
           /\ scheduled' = queue
           /\ \/ sent' = sent /\ (play'.played <=> p.played)
              \/ \E x \in Reply :
                   /\ p.id = {x} /\ p.ended /\ ~p.played /\ play'.played /\ queue = {} /\ ws # {}
                   /\ sent' = [s \in Session |-> IF s \in ws THEN Append(sent[s], x) ELSE sent[s]]
<1> DEFINE due == IsDue(p, queue)
<1>1. /\ scheduled' = queue /\ play' = [p EXCEPT !.played = p.played \/ due]
      /\ sent' = IF due THEN Told(p) ELSE sent
  BY DEF Report
<1>2. due \in BOOLEAN /\ p.played \in BOOLEAN
  BY DEF IsDue, PlayRecord
<1>3. (p.played \/ due) \in BOOLEAN
  BY <1>2
<1>4. ASSUME NEW b \in BOOLEAN, play' = [p EXCEPT !.played = b]
      PROVE  /\ play' \in PlayRecord /\ play'.id = p.id /\ play'.ended = p.ended
             /\ play'.played = b
  BY <1>4 DEF PlayRecord
<1> HIDE DEF due
<1>5. /\ play' \in PlayRecord /\ play'.id = p.id /\ play'.ended = p.ended
      /\ play'.played = (p.played \/ due)
  BY <1>1, <1>3, <1>4
<1>6. CASE ~due
  BY <1>1, <1>5, <1>6
<1>7. CASE due
  <2>1. p.ended /\ ~p.played /\ queue = {} /\ ws # {} /\ p.id # {}
    BY <1>7 DEF due, IsDue
  <2>2. PICK x \in Reply : p.id = {x}
    BY <2>1 DEF OneId, PlayRecord
  <2>3. \A s \in Session : sent[s] \o <<x>> = Append(sent[s], x)
    BY DEF PlayInv, SentTypes
  <2>4. sent' = [s \in Session |-> IF s \in ws THEN Append(sent[s], x) ELSE sent[s]]
    BY <1>1, <1>7, <2>2, <2>3, OneAsSequence DEF Told
  <2> QED
    BY <1>1, <1>5, <1>7, <2>1, <2>2, <2>4
<1> QED
  BY <1>6, <1>7

(* Of the refs, only what they name and whether it ended and was reported. *)
LEMMA SameRefs ==
    ASSUME NEW w, NEW p, NEW q, NEW said, NEW list, Consistent(w, p, said, list),
           q.id = p.id, q.ended = p.ended, p.played => q.played
    PROVE  Consistent(w, q, said, list)
<1>1. OfTheSession(w, q, said, list)
  BY DEF Consistent, OfTheSession
<1>2. OneStreams(q, list)
  BY DEF Consistent, OneStreams
<1>3. NotYetTold(q, said)
  BY DEF Consistent, NotYetTold
<1>4. named => NamedByStream(q, said, list)
  BY DEF Consistent, NamedByStream
<1>5. ~named => NamedWhenDone(q, said, list)
  BY DEF Consistent, NamedWhenDone
<1> QED
  BY <1>1, <1>2, <1>3, <1>4, <1>5 DEF Consistent

(* A report of refs that are consistent leaves them so, and is true.       *)
LEMMA ReportKeeps ==
    ASSUME PlayInv, NEW p \in PlayRecord, OneId(p), NEW queue \in SUBSET Reply, Report(p, queue),
           overtaken = {} => Consistent(ws, p, sent, replies')
    PROVE  /\ PlayTypes' /\ SentTypes'
           /\ overtaken = {} => /\ Consistent(ws, play', sent', replies')
                                /\ ToldTruly
<1>1. /\ play' \in PlayRecord /\ play'.id = p.id /\ play'.ended = p.ended /\ scheduled' = queue
  BY ReportTells
<1>2. PlayTypes'
  BY <1>1 DEF PlayTypes, OneId
<1>3. ASSUME sent' = sent, play'.played <=> p.played
      PROVE  /\ SentTypes'
             /\ overtaken = {} => Consistent(ws, play', sent', replies') /\ ToldTruly
  <2>1. SentTypes'
    BY <1>3 DEF PlayInv, SentTypes
  <2>2. ToldTruly
    BY <1>3, <2>1 DEF ToldTruly, SentTypes
  <2>3. ASSUME overtaken = {} PROVE Consistent(ws, play', sent', replies')
    BY <1>1, <1>3, <2>3, SameRefs
  <2> QED
    BY <2>1, <2>2, <2>3
<1>4. ASSUME NEW x \in Reply, p.id = {x}, p.ended, ~p.played, play'.played, queue = {},
             sent' = [s \in Session |-> IF s \in ws THEN Append(sent[s], x) ELSE sent[s]]
      PROVE  /\ SentTypes'
             /\ overtaken = {} => Consistent(ws, play', sent', replies') /\ ToldTruly
  <2>1. SentTypes'
    BY <1>4 DEF PlayInv, SentTypes
  <2> SUFFICES ASSUME overtaken = {}
               PROVE  Consistent(ws, play', sent', replies') /\ ToldTruly
    BY <2>1
  <2>2. \A s \in Session \ ws : sent'[s] = sent[s]
    BY <1>4
  <2>3. \A s \in Session \cap ws :
          /\ Len(sent[s]) \in Nat /\ DOMAIN sent[s] = 1 .. Len(sent[s])
          /\ Len(sent'[s]) = Len(sent[s]) + 1 /\ DOMAIN sent'[s] = 1 .. Len(sent[s]) + 1
          /\ \A k \in 1 .. Len(sent[s]) : sent'[s][k] = sent[s][k]
          /\ sent'[s][Len(sent[s]) + 1] = x
    BY <1>4 DEF PlayInv, SentTypes
  <2>4. /\ OfTheSession(ws, p, sent, replies') /\ OneStreams(p, replies') /\ NotYetTold(p, sent)
        /\ IF named THEN NamedByStream(p, sent, replies') ELSE NamedWhenDone(p, sent, replies')
    BY DEF Consistent
  <2>5. x[1] \in ws /\ ws \subseteq Session /\ \A s \in ws : s = x[1]
    <3>1. x[1] \in ws
      BY <1>4, <2>4 DEF OfTheSession
    <3>2. ws \subseteq Session /\ \A s, t \in ws : s = t
      BY DEF PlayInv, HeldTypes, Live
    <3> QED
      BY <3>1, <3>2
  <2>6. x[2] \in DOMAIN replies'[x[1]] /\ Streams(replies'[x[1]]) = {}
    BY <1>4, <2>4, <2>5 DEF OfTheSession, OneStreams
  <2>7. \A s \in Session : \A k \in DOMAIN sent'[s] :
          \/ k \in DOMAIN sent[s] /\ sent'[s][k] = sent[s][k]
          \/ s = x[1] /\ sent'[s][k] = x
    <3> SUFFICES ASSUME NEW s \in Session, NEW k \in DOMAIN sent'[s]
                 PROVE  \/ k \in DOMAIN sent[s] /\ sent'[s][k] = sent[s][k]
                        \/ s = x[1] /\ sent'[s][k] = x
      OBVIOUS
    <3>1. CASE s \notin ws
      BY <2>2, <3>1
    <3>2. CASE s \in ws
      <4>1. s = x[1] /\ k \in 1 .. Len(sent[s]) + 1 /\ Len(sent[s]) \in Nat
        BY <2>3, <2>5, <3>2
      <4> QED
        BY <2>3, <3>2, <4>1
    <3> QED
      BY <3>1, <3>2
  <2>8. OfTheSession(ws, play', sent', replies')
    BY <1>1, <2>2, <2>4, <2>6, <2>7 DEF OfTheSession
  <2>9. OneStreams(play', replies') /\ NotYetTold(play', sent')
    BY <1>1, <1>4, <2>4 DEF OneStreams, NotYetTold
  <2>10. ASSUME named PROVE NamedByStream(play', sent', replies')
    <3>1. NamedByStream(p, sent, replies')
      BY <2>4, <2>10
    <3>2. replies'[x[1]][x[2]].audio = "over"
      BY <1>4, <3>1 DEF NamedByStream
    <3>3. \A s \in Session : \A k \in DOMAIN sent'[s] :
            replies'[s][sent'[s][k][2]].audio = "over"
      BY <2>7, <3>1, <3>2 DEF NamedByStream
    <3> QED
      BY <1>1, <1>4, <3>1, <3>3 DEF NamedByStream
  <2>11. ASSUME ~named PROVE NamedWhenDone(play', sent', replies')
    <3>1. NamedWhenDone(p, sent, replies')
      BY <2>4, <2>11
    <3>2. replies'[x[1]][x[2]].done
      BY <1>4, <3>1 DEF NamedWhenDone
    <3> QED
      BY <1>1, <2>7, <3>1, <3>2 DEF NamedWhenDone
  <2>12. ToldTruly
    <3> SUFFICES ASSUME NEW s \in Session, NEW n \in (Len(sent[s]) + 1) .. Len(sent'[s])
                 PROVE  LET id == sent'[s][n] IN
                        /\ id[1] = s
                        /\ \A k \in 1 .. (n - 1) : sent'[s][k] # id
                        /\ replies'[s][id[2]].audio # "stream"
                        /\ id \notin scheduled'
      BY DEF ToldTruly
    <3>1. s \in ws
      BY <2>1, <2>2 DEF SentTypes
    <3>2. s = x[1] /\ n = Len(sent[s]) + 1 /\ sent'[s][n] = x
      BY <2>3, <2>5, <3>1
    <3>3. \A k \in 1 .. (n - 1) : sent'[s][k] # x
      BY <1>4, <2>3, <2>4, <3>1, <3>2 DEF NotYetTold
    <3>4. replies'[s][x[2]].audio # "stream"
      BY <2>6, <3>2 DEF Streams
    <3> QED
      BY <1>1, <1>4, <3>2, <3>3, <3>4
  <2> QED
    BY <2>4, <2>8, <2>9, <2>10, <2>11, <2>12 DEF Consistent
<1> QED
  BY <1>2, <1>3, <1>4, ReportTells

(* Reply i of session s becomes r, or is added as r; the others stay.      *)
Becomes(s, i, r) ==
    /\ replies' \in [Session -> Seq(ReplyRecord)]
    /\ \A t \in Session \ {s} : replies'[t] = replies[t]
    /\ DOMAIN replies'[s] = DOMAIN replies[s] \union {i}
    /\ replies'[s][i] = r
    /\ \A j \in DOMAIN replies[s] \ {i} : replies'[s][j] = replies[s][j]

(* The two ways in which a reply comes to be what it is. *)
LEMMA ReplyAppended ==
    ASSUME ReplyTypes, NEW s \in Session, NEW r \in ReplyRecord, NEW i, i = Len(replies[s]) + 1,
           replies' = [replies EXCEPT ![s] = Append(replies[s], r)]
    PROVE  Becomes(s, i, r) /\ i \notin DOMAIN replies[s]
<1>1. replies[s] \in Seq(ReplyRecord) /\ Append(replies[s], r) \in Seq(ReplyRecord)
  BY DEF ReplyTypes
<1>2. /\ replies' \in [Session -> Seq(ReplyRecord)] /\ replies'[s] = Append(replies[s], r)
      /\ \A t \in Session \ {s} : replies'[t] = replies[t]
  BY <1>1 DEF ReplyTypes
<1>3. /\ DOMAIN Append(replies[s], r) = DOMAIN replies[s] \union {i}
      /\ Append(replies[s], r)[i] = r /\ i \notin DOMAIN replies[s]
      /\ \A j \in DOMAIN replies[s] \ {i} : Append(replies[s], r)[j] = replies[s][j]
  BY <1>1
<1> QED
  BY <1>2, <1>3 DEF Becomes

(* A reply of a session changes in place. *)
LEMMA ReplyChanged ==
    ASSUME ReplyTypes, NEW s \in Session, NEW i \in DOMAIN replies[s], NEW r \in ReplyRecord,
           replies' = [replies EXCEPT ![s] = [replies[s] EXCEPT ![i] = r]]
    PROVE  Becomes(s, i, r)
<1> DEFINE list == [replies[s] EXCEPT ![i] = r]
<1>1. replies[s] \in Seq(ReplyRecord)
  BY DEF ReplyTypes
<1>2. /\ list \in Seq(ReplyRecord) /\ DOMAIN list = DOMAIN replies[s] /\ list[i] = r
      /\ \A j \in DOMAIN replies[s] \ {i} : list[j] = replies[s][j]
  BY <1>1
<1> HIDE DEF list
<1>3. /\ replies' \in [Session -> Seq(ReplyRecord)] /\ replies'[s] = list
      /\ \A t \in Session \ {s} : replies'[t] = replies[t]
  BY <1>2 DEF ReplyTypes, list
<1> QED
  BY <1>2, <1>3 DEF Becomes

(* What streams after it. *)
LEMMA BecomesStreams ==
    ASSUME ReplyTypes, NEW s \in Session, NEW i \in 1 .. MaxReplies, NEW r, Becomes(s, i, r)
    PROVE  /\ ReplyTypes'
           /\ \A t \in Session \ {s} : Streams(replies'[t]) = Streams(replies[t])
           /\ \A j \in DOMAIN replies'[s] :
                j \in Streams(replies'[s]) <=>
                  IF j = i THEN r.audio = "stream" ELSE j \in Streams(replies[s])
<1>1. ReplyTypes'
  BY DEF ReplyTypes, Becomes
<1>2. \A t \in Session \ {s} : Streams(replies'[t]) = Streams(replies[t])
  BY DEF Streams, Becomes
<1>3. \A j \in DOMAIN replies'[s] :
        j \in Streams(replies'[s]) <=>
          IF j = i THEN r.audio = "stream" ELSE j \in Streams(replies[s])
  BY DEF Streams, Becomes
<1> QED
  BY <1>1, <1>2, <1>3

(* The session whose node speaks is the one the refs hold. *)
LEMMA SpeakerIsHeld ==
    ASSUME VoiceInv, PlayInv, overtaken = {}, NEW s \in Session, socket[s] = "open"
    PROVE  ws = {s}
BY OpenIsHeld DEF PlayInv, HeldTypes

(* audio_stream_begin. *)
LEMMA BeginPlays ==
    ASSUME VoiceInv, PlayInv, NEW s \in Session, NEW i \in 1 .. MaxReplies, Begin(s, i)
    PROVE  /\ ReplyTypes' /\ PlayTypes' /\ sent' = sent
           /\ overtaken = {} => Consistent(ws, play', sent, replies')
<1>1. /\ Voices(s, i) /\ play' = [Fresh EXCEPT !.id = Named(s, i)] /\ Says(s)
      /\ scheduled' = scheduled /\ sent' = sent
  BY DEF Begin, Voices, Talks
<1>2. PICK r \in ReplyRecord :
        /\ Becomes(s, i, r) /\ r.audio = "stream"
        /\ i \in DOMAIN replies[s] => replies[s][i].audio = "none" /\ r.done = replies[s][i].done
  <2>1. CASE i = Len(replies[s]) + 1
             /\ replies' = [replies EXCEPT ![s] = Append(replies[s], [audio |-> "stream", done |-> FALSE])]
    <3>1. [audio |-> "stream", done |-> FALSE] \in ReplyRecord
      BY DEF ReplyRecord
    <3> QED
      BY <2>1, <3>1, ReplyAppended DEF PlayInv
  <2>2. CASE i = Len(replies[s]) /\ replies[s][i].audio = "none"
             /\ replies' = [replies EXCEPT ![s] = [replies[s] EXCEPT ![i] = [replies[s][i] EXCEPT !.audio = "stream"]]]
    <3>1. replies[s] \in Seq(ReplyRecord)
      BY DEF PlayInv, ReplyTypes
    <3>2. i \in DOMAIN replies[s] /\ replies[s][i] \in ReplyRecord
      BY <2>2, <3>1
    <3> DEFINE r == [replies[s][i] EXCEPT !.audio = "stream"]
    <3>3. r \in ReplyRecord /\ r.audio = "stream" /\ r.done = replies[s][i].done
      BY <3>2 DEF ReplyRecord
    <3> HIDE DEF r
    <3>4. Becomes(s, i, r)
      BY <2>2, <3>2, <3>3, ReplyChanged DEF PlayInv, r
    <3> QED
      BY <2>2, <3>3, <3>4
  <2> QED
    BY <1>1, <2>1, <2>2 DEF Voices
<1>3. /\ play' \in PlayRecord /\ play'.id = Named(s, i) /\ ~play'.ended /\ ~play'.played
  <2>1. Named(s, i) \in SUBSET Reply
    BY DEF Named, Reply
  <2> HIDE DEF Named
  <2> QED
    BY <1>1, <2>1 DEF Fresh, PlayRecord
<1>4. PlayTypes' /\ ReplyTypes'
  <2>1. OneId(play')
    BY <1>3 DEF OneId, Named
  <2> QED
    BY <1>1, <1>2, <1>3, <2>1, BecomesStreams DEF PlayInv, PlayTypes
<1> SUFFICES ASSUME overtaken = {} PROVE Consistent(ws, play', sent, replies')
  BY <1>1, <1>4
<1>5. ws = {s}
  BY <1>1, SpeakerIsHeld DEF Says
<1>6. /\ OfTheSession(ws, play, sent, replies) /\ OneStreams(play, replies)
      /\ IF named THEN NamedByStream(play, sent, replies) ELSE NamedWhenDone(play, sent, replies)
  BY DEF PlayInv, Consistent
<1>7. Streams(replies[s]) = {}
  BY <1>1 DEF Voices, Speaking, Streams
<1>8. /\ DOMAIN replies'[s] = DOMAIN replies[s] \union {i} /\ replies'[s][i] = r
      /\ \A j \in DOMAIN replies[s] \ {i} : replies'[s][j] = replies[s][j]
      /\ \A t \in Session \ {s} : replies'[t] = replies[t]
  BY <1>2 DEF Becomes
<1>9. Streams(replies'[s]) = {i} /\ \A t \in Session \ {s} : Streams(replies'[t]) = {}
  <2>1. \A t \in Session \ {s} : Streams(replies[t]) = {}
    BY <1>5, <1>6 DEF OfTheSession, Streams
  <2> QED
    BY <1>2, <1>7, <1>8, <2>1, BecomesStreams DEF PlayInv, Streams
<1>10. OfTheSession(ws, play', sent, replies')
  BY <1>3, <1>5, <1>6, <1>8 DEF OfTheSession, Named
<1>11. OneStreams(play', replies')
  BY <1>3, <1>9 DEF OneStreams
<1>12. ASSUME named PROVE NotYetTold(play', sent) /\ NamedByStream(play', sent, replies')
  <2>1. NamedByStream(play, sent, replies) /\ Named(s, i) = {<<s, i>>}
    BY <1>6, <1>12 DEF Named
  <2>2. \A t \in Session : \A k \in DOMAIN sent[t] : sent[t][k] # <<s, i>>
    <3> SUFFICES ASSUME NEW t \in Session, NEW k \in DOMAIN sent[t], sent[t][k] = <<s, i>>
                 PROVE  FALSE
      OBVIOUS
    <3>1. t = s /\ i \in DOMAIN replies[s] /\ replies[t][i].audio = "over"
      BY <1>6, <2>1 DEF OfTheSession, NamedByStream
    <3> QED
      BY <1>2, <3>1
  <2>3. \A t \in Session : \A k \in DOMAIN sent[t] : replies'[t][sent[t][k][2]].audio = "over"
    <3> SUFFICES ASSUME NEW t \in Session, NEW k \in DOMAIN sent[t]
                 PROVE  replies'[t][sent[t][k][2]].audio = "over"
      OBVIOUS
    <3>1. sent[t][k][2] \in DOMAIN replies[t] /\ replies[t][sent[t][k][2]].audio = "over"
      BY <1>6, <2>1 DEF OfTheSession, NamedByStream
    <3> QED
      BY <1>2, <1>8, <3>1
  <2>4. \A t \in Session : \A j \in Streams(replies'[t]) : t = s /\ j = i
    BY <1>9
  <2>5. play'.id = {<<s, i>>} /\ ~play'.ended
    BY <1>3, <2>1
  <2>6. NotYetTold(play', sent)
    BY <2>2, <2>5 DEF NotYetTold
  <2>7. \A t \in Session : \A j \in Streams(replies'[t]) : play'.id = {<<t, j>>}
    BY <2>4, <2>5
  <2> QED
    BY <2>3, <2>5, <2>6, <2>7 DEF NamedByStream
<1>13. ASSUME ~named PROVE NotYetTold(play', sent) /\ NamedWhenDone(play', sent, replies')
  <2>1. NamedWhenDone(play, sent, replies) /\ play'.id = {}
    BY <1>3, <1>6, <1>13 DEF Named
  <2>2. \A t \in Session : \A k \in DOMAIN sent[t] : replies'[t][sent[t][k][2]].done
    <3> SUFFICES ASSUME NEW t \in Session, NEW k \in DOMAIN sent[t]
                 PROVE  replies'[t][sent[t][k][2]].done
      OBVIOUS
    <3>1. sent[t][k][2] \in DOMAIN replies[t] /\ replies[t][sent[t][k][2]].done
      BY <1>6, <2>1 DEF OfTheSession, NamedWhenDone
    <3> QED
      BY <1>2, <1>8, <3>1
  <2> QED
    BY <2>1, <2>2 DEF NotYetTold, NamedWhenDone
<1> QED
  BY <1>10, <1>11, <1>12, <1>13 DEF Consistent

(* audio_stream_end. *)
LEMMA EndPlays ==
    ASSUME VoiceInv, PlayInv, NEW s \in Session, NEW i \in 1 .. MaxReplies, End(s, i)
    PROVE  /\ ReplyTypes' /\ PlayTypes' /\ SentTypes'
           /\ overtaken = {} => Consistent(ws, play', sent', replies') /\ ToldTruly
<1> DEFINE p == [play EXCEPT !.ended = TRUE]
<1>1. /\ i \in Streams(replies[s]) /\ Says(s) /\ Report(p, scheduled)
      /\ replies' = [replies EXCEPT ![s] = [replies[s] EXCEPT ![i] = [replies[s][i] EXCEPT !.audio = "over"]]]
  BY DEF End, Speaking, Streams
<1>2. p \in PlayRecord /\ p.id = play.id /\ p.ended /\ p.played = play.played
  BY DEF PlayInv, PlayTypes, PlayRecord
<1>3. OneId(p) /\ scheduled \in SUBSET Reply
  BY <1>2 DEF PlayInv, PlayTypes, OneId
<1> HIDE DEF p
<1>4. PICK r \in ReplyRecord : Becomes(s, i, r) /\ r.audio = "over" /\ r.done = replies[s][i].done
  <2>1. replies[s] \in Seq(ReplyRecord) /\ i \in DOMAIN replies[s]
    BY <1>1 DEF PlayInv, ReplyTypes, Streams
  <2>2. replies[s][i] \in ReplyRecord
    BY <2>1
  <2> DEFINE r == [replies[s][i] EXCEPT !.audio = "over"]
  <2>3. r \in ReplyRecord /\ r.audio = "over" /\ r.done = replies[s][i].done
    BY <2>2 DEF ReplyRecord
  <2> HIDE DEF r
  <2>4. Becomes(s, i, r)
    BY <1>1, <2>1, <2>3, ReplyChanged DEF PlayInv, r
  <2> QED
    BY <2>3, <2>4
<1>5. ReplyTypes'
  BY <1>4, BecomesStreams DEF PlayInv
<1>6. ASSUME overtaken = {} PROVE Consistent(ws, p, sent, replies')
  <2>1. ws = {s}
    BY <1>1, <1>6, SpeakerIsHeld DEF Says
  <2>2. /\ OfTheSession(ws, play, sent, replies) /\ OneStreams(play, replies)
        /\ NotYetTold(play, sent)
        /\ IF named THEN NamedByStream(play, sent, replies) ELSE NamedWhenDone(play, sent, replies)
    BY <1>6 DEF PlayInv, Consistent
  <2>3. /\ DOMAIN replies'[s] = DOMAIN replies[s] /\ replies'[s][i] = r
        /\ \A j \in DOMAIN replies[s] \ {i} : replies'[s][j] = replies[s][j]
        /\ \A t \in Session \ {s} : replies'[t] = replies[t]
    BY <1>1, <1>4 DEF Becomes, Streams
  <2>4. \A t \in Session : Streams(replies'[t]) = {}
    <3>1. \A j \in Streams(replies[s]) : j = i
      BY <1>1, <2>2 DEF OneStreams
    <3>2. \A t \in Session \ {s} : Streams(replies[t]) = {}
      BY <2>1, <2>2 DEF OfTheSession, Streams
    <3> QED
      BY <1>4, <2>3, <3>1, <3>2 DEF Streams
  <2>5. OfTheSession(ws, p, sent, replies')
    BY <1>2, <2>1, <2>2, <2>3 DEF OfTheSession
  <2>6. OneStreams(p, replies') /\ NotYetTold(p, sent)
    BY <1>2, <2>2, <2>4 DEF OneStreams, NotYetTold
  <2>7. ASSUME named PROVE NamedByStream(p, sent, replies')
    <3>1. NamedByStream(play, sent, replies) /\ play.id = {<<s, i>>}
      BY <1>1, <2>2, <2>7 DEF NamedByStream
    <3>2. \A x \in p.id : replies'[x[1]][x[2]].audio = "over"
      BY <1>2, <1>4, <2>3, <3>1
    <3>3. \A t \in Session : \A k \in DOMAIN sent[t] : replies'[t][sent[t][k][2]].audio = "over"
      <4> SUFFICES ASSUME NEW t \in Session, NEW k \in DOMAIN sent[t]
                   PROVE  replies'[t][sent[t][k][2]].audio = "over"
        OBVIOUS
      <4>1. sent[t][k][2] \in DOMAIN replies[t] /\ replies[t][sent[t][k][2]].audio = "over"
        BY <2>2, <3>1 DEF OfTheSession, NamedByStream
      <4> QED
        BY <1>4, <2>3, <4>1
    <3> QED
      BY <1>2, <2>4, <3>1, <3>2, <3>3 DEF NamedByStream
  <2>8. ASSUME ~named PROVE NamedWhenDone(p, sent, replies')
    <3>1. NamedWhenDone(play, sent, replies)
      BY <2>2, <2>8
    <3>2. \A t \in Session : \A j \in DOMAIN replies[t] :
            replies[t][j].done => replies'[t][j].done
      BY <1>4, <2>3
    <3>3. ws \subseteq Session
      BY <2>1
    <3> QED
      BY <1>2, <2>2, <3>1, <3>2, <3>3 DEF NamedWhenDone, OfTheSession
  <2> QED
    BY <2>5, <2>6, <2>7, <2>8 DEF Consistent
<1> QED
  BY <1>1, <1>2, <1>3, <1>5, <1>6, ReportKeeps

(* reply_done, which names the reply when nothing has. *)
LEMMA ReplyDonePlays ==
    ASSUME VoiceInv, PlayInv, NEW s \in Session, NEW i \in 1 .. MaxReplies, ReplyDone(s, i)
    PROVE  /\ ReplyTypes' /\ PlayTypes' /\ SentTypes'
           /\ overtaken = {} => Consistent(ws, play', sent', replies') /\ ToldTruly
<1> DEFINE names == IF play.id = {} THEN {<<s, i>>} ELSE play.id
           p == [play EXCEPT !.id = names]
<1>1. Says(s) /\ Report(p, scheduled)
  BY DEF ReplyDone, Talks
<1>2. /\ p \in PlayRecord /\ p.id = names /\ p.ended = play.ended /\ p.played = play.played
      /\ OneId(p) /\ scheduled \in SUBSET Reply
  <2>1. names \in SUBSET Reply /\ \A x, y \in names : x = y
    BY DEF PlayInv, PlayTypes, PlayRecord, OneId, Reply
  <2> HIDE DEF names
  <2> QED
    BY <2>1 DEF PlayInv, PlayTypes, PlayRecord, OneId
<1> HIDE DEF p
<1>3. PICK r \in ReplyRecord :
        /\ Becomes(s, i, r) /\ r.done
        /\ \/ i \in DOMAIN replies[s] /\ ~replies[s][i].done /\ r.audio = replies[s][i].audio
           \/ i \notin DOMAIN replies[s] /\ r.audio = "none"
  <2>1. CASE i = Len(replies[s]) /\ ~replies[s][i].done
             /\ replies' = [replies EXCEPT ![s] = [replies[s] EXCEPT ![i] = [replies[s][i] EXCEPT !.done = TRUE]]]
    <3>1. replies[s] \in Seq(ReplyRecord)
      BY DEF PlayInv, ReplyTypes
    <3>2. i \in DOMAIN replies[s] /\ replies[s][i] \in ReplyRecord
      BY <2>1, <3>1
    <3> DEFINE r == [replies[s][i] EXCEPT !.done = TRUE]
    <3>3. r \in ReplyRecord /\ r.done /\ r.audio = replies[s][i].audio
      BY <3>2 DEF ReplyRecord
    <3> HIDE DEF r
    <3>4. Becomes(s, i, r)
      BY <2>1, <3>2, <3>3, ReplyChanged DEF PlayInv, r
    <3> QED
      BY <2>1, <3>2, <3>3, <3>4
  <2>2. CASE i = Len(replies[s]) + 1
             /\ replies' = [replies EXCEPT ![s] = Append(replies[s], [audio |-> "none", done |-> TRUE])]
    <3>1. [audio |-> "none", done |-> TRUE] \in ReplyRecord
      BY DEF ReplyRecord
    <3> QED
      BY <2>2, <3>1, ReplyAppended DEF PlayInv
  <2> QED
    BY <2>1, <2>2 DEF ReplyDone
<1>4. ReplyTypes'
  BY <1>3, BecomesStreams DEF PlayInv
<1>5. ASSUME overtaken = {} PROVE Consistent(ws, p, sent, replies')
  <2>1. ws = {s}
    BY <1>1, <1>5, SpeakerIsHeld DEF Says
  <2>2. /\ OfTheSession(ws, play, sent, replies) /\ OneStreams(play, replies)
        /\ NotYetTold(play, sent)
        /\ IF named THEN NamedByStream(play, sent, replies) ELSE NamedWhenDone(play, sent, replies)
    BY <1>5 DEF PlayInv, Consistent
  <2>3. /\ DOMAIN replies'[s] = DOMAIN replies[s] \union {i} /\ replies'[s][i] = r
        /\ \A j \in DOMAIN replies[s] \ {i} : replies'[s][j] = replies[s][j]
        /\ \A t \in Session \ {s} : replies'[t] = replies[t]
    BY <1>3 DEF Becomes
  <2>4. \A t \in Session : Streams(replies'[t]) = Streams(replies[t])
    BY <1>3, <2>3 DEF Streams
  <2>5. \A t \in Session : \A j \in DOMAIN replies[t] :
          replies'[t][j].audio = replies[t][j].audio
    BY <1>3, <2>3
  <2>6. OfTheSession(ws, p, sent, replies')
    <3>1. \A x \in p.id : x[1] \in ws /\ x[2] \in DOMAIN replies'[x[1]]
      BY <1>2, <2>1, <2>2, <2>3 DEF OfTheSession
    <3> QED
      BY <2>1, <2>2, <2>3, <3>1 DEF OfTheSession
  <2>7. OneStreams(p, replies')
    BY <1>2, <2>2, <2>4 DEF OneStreams
  <2>8. ASSUME named PROVE NotYetTold(p, sent) /\ NamedByStream(p, sent, replies')
    <3>1. NamedByStream(play, sent, replies)
      BY <2>2, <2>8
    <3>2. CASE play.id = {}
      <4>1. /\ \A t \in Session : sent[t] = <<>> /\ Streams(replies'[t]) = {}
            /\ ~p.ended /\ p.id # {}
        BY <1>2, <2>4, <3>1, <3>2 DEF NamedByStream
      <4>2. \A t \in Session : DOMAIN sent[t] = {}
        BY <4>1
      <4> QED
        BY <4>1, <4>2 DEF NotYetTold, NamedByStream
    <3>3. CASE play.id # {}
      <4>1. p.id = play.id
        BY <1>2, <3>3
      <4>2. NotYetTold(p, sent)
        BY <1>2, <2>2, <4>1 DEF NotYetTold
      <4>3. ASSUME p.ended PROVE \A x \in p.id : replies'[x[1]][x[2]].audio = "over"
        <5> SUFFICES ASSUME NEW x \in p.id PROVE replies'[x[1]][x[2]].audio = "over"
          OBVIOUS
        <5>1. replies[x[1]][x[2]].audio = "over"
          BY <1>2, <3>1, <4>1, <4>3 DEF NamedByStream
        <5>2. x[1] \in Session /\ x[2] \in DOMAIN replies[x[1]]
          BY <2>1, <2>2, <4>1 DEF OfTheSession
        <5> QED
          BY <2>5, <5>1, <5>2
      <4>4. \A t \in Session : \A k \in DOMAIN sent[t] : replies'[t][sent[t][k][2]].audio = "over"
        BY <2>2, <2>5, <3>1 DEF OfTheSession, NamedByStream
      <4>5. \A t \in Session : \A j \in Streams(replies'[t]) : p.id = {<<t, j>>}
        BY <2>4, <3>1, <4>1 DEF NamedByStream
      <4> QED
        BY <3>3, <4>1, <4>2, <4>3, <4>4, <4>5 DEF NamedByStream
    <3> QED
      BY <3>2, <3>3
  <2>9. ASSUME ~named PROVE NotYetTold(p, sent) /\ NamedWhenDone(p, sent, replies')
    <3>1. NamedWhenDone(play, sent, replies)
      BY <2>2, <2>9
    <3>2. \A t \in Session : \A j \in DOMAIN replies[t] :
            replies[t][j].done => replies'[t][j].done
      BY <1>3, <2>3
    <3>3. \A t \in Session : \A k \in DOMAIN sent[t] :
            /\ replies'[t][sent[t][k][2]].done
            /\ sent[t][k] # <<s, i>>
      <4> SUFFICES ASSUME NEW t \in Session, NEW k \in DOMAIN sent[t]
                   PROVE  replies'[t][sent[t][k][2]].done /\ sent[t][k] # <<s, i>>
        OBVIOUS
      <4>1. /\ sent[t][k][2] \in DOMAIN replies[t] /\ replies[t][sent[t][k][2]].done
            /\ sent[t][k][1] = t
        BY <2>2, <3>1 DEF OfTheSession, NamedWhenDone
      <4> QED
        BY <1>3, <3>2, <4>1
    <3>4. NotYetTold(p, sent)
      BY <1>2, <2>2, <3>3 DEF NotYetTold
    <3>5. ASSUME NEW x \in p.id PROVE replies'[x[1]][x[2]].done
      <4>1. CASE play.id = {}
        BY <1>2, <1>3, <2>3, <3>5, <4>1
      <4>2. CASE play.id # {}
        <5>1. x \in play.id /\ replies[x[1]][x[2]].done
          BY <1>2, <3>1, <3>5, <4>2 DEF NamedWhenDone
        <5>2. x[1] \in Session /\ x[2] \in DOMAIN replies[x[1]]
          BY <2>1, <2>2, <5>1 DEF OfTheSession
        <5> QED
          BY <3>2, <5>1, <5>2
      <4> QED
        BY <4>1, <4>2
    <3> QED
      BY <3>3, <3>4, <3>5 DEF NamedWhenDone
  <2> QED
    BY <2>6, <2>7, <2>8, <2>9 DEF Consistent
<1> QED
  BY <1>1, <1>2, <1>4, <1>5, ReportKeeps

(* Steps that tell nothing more are true to what is played. *)
LEMMA NothingTold ==
    ASSUME PlayInv, \A s \in Session : sent'[s] = sent[s] \/ sent'[s] = <<>>
    PROVE  ToldTruly
<1> SUFFICES ASSUME NEW s \in Session, NEW n \in (Len(sent[s]) + 1) .. Len(sent'[s])
             PROVE  FALSE
  BY DEF ToldTruly
<1>1. Len(sent[s]) \in Nat /\ (sent'[s] = <<>> => Len(sent'[s]) = 0)
  BY DEF PlayInv, SentTypes
<1> QED
  BY <1>1

(* Of these operators, one of the next state is one of primed arguments:   *)
(* only Consistent reads a variable of its own, named.                     *)
LEMMA NamedStays ==
    ASSUME UNCHANGED named, Consistent(ws', play', sent', replies')
    PROVE  Consistent(ws, play, sent, replies)'
<1>1. OfTheSession(ws, play, sent, replies)'
  BY DEF Consistent, OfTheSession
<1>2. OneStreams(play, replies)' /\ NotYetTold(play, sent)'
  BY DEF Consistent, OneStreams, NotYetTold
<1>3. named => NamedByStream(play, sent, replies)'
  BY DEF Consistent, NamedByStream
<1>4. ~named => NamedWhenDone(play, sent, replies)'
  BY DEF Consistent, NamedWhenDone
<1> QED
  BY <1>1, <1>2, <1>3, <1>4 DEF Consistent

(* What a step does not touch. *)
LEMMA PlayFrame ==
    ASSUME PlayInv
    PROVE  /\ UNCHANGED <<mics, stream, socket, ws>> => HeldTypes'
           /\ UNCHANGED <<play, scheduled>> => PlayTypes'
           /\ UNCHANGED replies => ReplyTypes'
           /\ UNCHANGED sent => SentTypes' /\ ToldTruly
           /\ UNCHANGED <<ws, play, sent, replies, named, overtaken>> =>
                (overtaken' = {} => Consistent(ws, play, sent, replies)')
<1>1. UNCHANGED sent => ToldTruly
  BY NothingTold
<1> QED
  BY <1>1 DEF PlayInv, HeldTypes, Live, PlayTypes, OneId, ReplyTypes, SentTypes, Consistent,
     OfTheSession, OneStreams, NotYetTold, NamedByStream, NamedWhenDone

(* The page's own state has its type. *)
LEMMA PageTyped == ASSUME PageTypes, LiveNext PROVE PageTypes'
<1> USE DEF PageTypes, Connected
<1>1. ASSUME NEW s \in Session,
             \/ Connect(s) \/ TokenGranted(s) \/ TokenRefused(s) \/ MicGranted(s)
             \/ ModuleLoaded(s) \/ SocketOpens(s) \/ LostSocketCloses(s)
      PROVE  PageTypes'
  BY <1>1 DEF Connect, TokenGranted, TokenRefused, MicGranted, ModuleLoaded, SocketOpens,
     LostSocketCloses, Close, Patch, page, audio, mesh
<1>2. CASE \/ \E s \in Session : ConnectThrows(s) \/ SocketCloses(s)
           \/ \E d \in Domia : Select(d)
           \/ Disconnect \/ LeaveVoice
  BY <1>2 DEF ConnectThrows, SocketCloses, Select, Disconnect, LeaveVoice, Teardown, Close, Patch
<1>3. ASSUME NEW s \in Session,
             \/ Ready(s) \/ SpeechStopped(s) \/ Frame(s) \/ Pause(s) \/ Resume(s)
             \/ ErrorMessage(s)
      PROVE  PageTypes'
  BY <1>3 DEF Ready, SpeechStopped, Frame, Pause, Resume, ErrorMessage, Patch, page, audio, mesh
<1>4. ASSUME NEW s \in Session, NEW i \in 1 .. MaxReplies,
             Begin(s, i) \/ End(s, i) \/ ReplyDone(s, i)
      PROVE  PageTypes'
  BY <1>4 DEF Begin, End, ReplyDone, Patch, page
<1>5. ASSUME NEW r \in scheduled, BufferEnds(r) PROVE PageTypes'
  BY <1>5 DEF BufferEnds, page, mesh
<1> QED
  BY <1>1, <1>2, <1>3, <1>4, <1>5 DEF LiveNext

(* Steps that tear down leave no session and nothing of one. *)
LEMMA TeardownPlays ==
    ASSUME PlayInv, NEW late, Teardown(late)
    PROVE  /\ HeldTypes' /\ PlayTypes' /\ ReplyTypes' /\ SentTypes' /\ ToldTruly
           /\ overtaken' = {} => Consistent(ws', play', sent', replies')
<1>1. /\ stream' = {} /\ ws' = {} /\ play' = Fresh /\ scheduled' = {}
      /\ replies' = [s \in Session |-> IF s \in ws THEN <<>> ELSE replies[s]]
      /\ sent' = [s \in Session |-> IF s \in ws THEN <<>> ELSE sent[s]]
      /\ overtaken' = overtaken \union late
  BY DEF Teardown, Close
<1>2. HeldTypes' /\ PlayTypes'
  BY <1>1 DEF HeldTypes, PlayTypes, Fresh, PlayRecord, OneId
<1>3. ReplyTypes' /\ SentTypes'
  BY <1>1 DEF PlayInv, ReplyTypes, SentTypes
<1>4. ToldTruly
  BY <1>1, NothingTold
<1>5. ASSUME overtaken' = {} PROVE Consistent(ws', play', sent', replies')
  <2>1. \A s \in Session : sent'[s] = <<>> /\ replies'[s] = <<>>
    BY <1>1, <1>5 DEF PlayInv, Consistent, OfTheSession
  <2>2. \A s \in Session : DOMAIN sent'[s] = {} /\ Streams(replies'[s]) = {}
    BY <2>1 DEF Streams
  <2>3. play'.id = {} /\ ~play'.ended /\ ~play'.played
    BY <1>1 DEF Fresh
  <2> QED
    BY <2>1, <2>2, <2>3
    DEF Consistent, OfTheSession, OneStreams, NotYetTold, NamedByStream, NamedWhenDone
<1> QED
  BY <1>2, <1>3, <1>4, <1>5

(* The steps of connect: a session is added when there is none. *)
LEMMA ConnectPlays ==
    ASSUME VoiceInv, PlayInv, NEW s \in Session,
           \/ Connect(s) \/ TokenGranted(s) \/ TokenRefused(s) \/ MicGranted(s)
           \/ ModuleLoaded(s) \/ SocketOpens(s) \/ LostSocketCloses(s)
    PROVE  /\ HeldTypes' /\ PlayTypes' /\ ReplyTypes' /\ SentTypes' /\ ToldTruly
           /\ overtaken' = {} => Consistent(ws, play, sent, replies)'
<1>1. CASE Connect(s) \/ TokenGranted(s) \/ TokenRefused(s)
  BY <1>1, PlayFrame DEF Connect, TokenGranted, TokenRefused, held, audio, mesh
<1>2. CASE MicGranted(s)
  <2>1. /\ mics' = mics \union {s} /\ stream' = {s} /\ overtaken' = overtaken \union (stream \ {s})
        /\ UNCHANGED <<socket, ws, play, scheduled, sent, replies, named>>
    BY <1>2 DEF MicGranted, audio, mesh
  <2>2. HeldTypes'
    BY <2>1 DEF PlayInv, HeldTypes, Live
  <2>3. overtaken' = {} => overtaken = {}
    BY <2>1
  <2> QED
    BY <2>1, <2>2, <2>3, PlayFrame
<1>3. CASE SocketOpens(s)
  <2>1. /\ socket[s] = "opening" /\ socket' = [socket EXCEPT ![s] = "open"]
        /\ UNCHANGED <<mics, stream, ws, play, scheduled, sent, replies, named, overtaken>>
    BY <1>3 DEF SocketOpens, calls, audio, mesh
  <2>2. HeldTypes'
    BY <2>1 DEF VoiceInv, SessionTypes, PlayInv, HeldTypes, Live
  <2> QED
    BY <2>1, <2>2, PlayFrame
<1>4. CASE ModuleLoaded(s)
  <2>1. /\ socket' = [socket EXCEPT ![s] = "opening"] /\ ws' = {s}
        /\ overtaken' = overtaken \union (ws \ {s})
        /\ UNCHANGED <<mics, stream, play, scheduled, sent, replies, named>>
    BY <1>4 DEF ModuleLoaded, audio, mesh
  <2>2. HeldTypes'
    BY <2>1 DEF VoiceInv, SessionTypes, PlayInv, HeldTypes, Live
  <2>3. ASSUME overtaken' = {} PROVE Consistent(ws, play, sent, replies)'
    <3>1. overtaken = {} /\ ws \subseteq ws'
      BY <2>1, <2>3
    <3>2. Consistent(ws, play, sent, replies)
      BY <3>1 DEF PlayInv
    <3>3. OfTheSession(ws, play, sent, replies)'
      BY <2>1, <3>1, <3>2 DEF Consistent, OfTheSession
    <3> QED
      BY <2>1, <3>2, <3>3
      DEF Consistent, OneStreams, NotYetTold, NamedByStream, NamedWhenDone
  <2> QED
    BY <2>1, <2>2, <2>3, PlayFrame
<1>5. CASE LostSocketCloses(s)
  <2>1. /\ s \in Live \ ws
        /\ socket' = [x \in Session |-> IF x \in {s} THEN "closed" ELSE socket[x]]
        /\ replies' = [x \in Session |-> IF x \in {s} THEN <<>> ELSE replies[x]]
        /\ sent' = [x \in Session |-> IF x \in {s} THEN <<>> ELSE sent[x]]
        /\ UNCHANGED <<mics, stream, ws, play, scheduled, overtaken>>
    BY <1>5 DEF LostSocketCloses, Close, calls
  <2>2. overtaken' # {}
    BY <2>1 DEF VoiceInv, MicsAreHeld
  <2>3. HeldTypes'
    BY <2>1 DEF PlayInv, HeldTypes, Live
  <2>4. ReplyTypes' /\ SentTypes'
    BY <2>1 DEF PlayInv, ReplyTypes, SentTypes
  <2>5. ToldTruly
    BY <2>1, NothingTold
  <2> QED
    BY <2>1, <2>2, <2>3, <2>4, <2>5, PlayFrame
<1> QED
  BY <1>1, <1>2, <1>3, <1>4, <1>5

(* The messages that report nothing, and audio_stream_begin. *)
LEMMA MessagesPlay ==
    ASSUME VoiceInv, PlayInv, NEW s \in Session,
           \/ Ready(s) \/ SpeechStopped(s) \/ Frame(s) \/ Pause(s) \/ Resume(s)
           \/ ErrorMessage(s) \/ \E i \in 1 .. MaxReplies : Begin(s, i)
    PROVE  /\ HeldTypes' /\ PlayTypes' /\ ReplyTypes' /\ SentTypes' /\ ToldTruly
           /\ overtaken' = {} => Consistent(ws, play, sent, replies)'
<1>1. CASE Ready(s) \/ SpeechStopped(s) \/ ErrorMessage(s)
  BY <1>1, PlayFrame DEF Ready, SpeechStopped, ErrorMessage, calls, held, audio, mesh
<1>2. CASE Frame(s)
  <2>1. /\ scheduled' = scheduled \union ({s} \X Speaking(s))
        /\ UNCHANGED <<calls, held, play, sent, mesh>>
    BY <1>2 DEF Frame
  <2>2. PlayTypes'
    BY <2>1 DEF PlayInv, PlayTypes, OneId, ReplyTypes, Speaking, Reply
  <2> QED
    BY <2>1, <2>2, PlayFrame DEF calls, held, mesh
<1>3. ASSUME NEW b \in BOOLEAN, play' = [play EXCEPT !.paused = b], scheduled' \subseteq scheduled,
             UNCHANGED <<calls, held, sent, mesh>>
      PROVE  /\ HeldTypes' /\ PlayTypes' /\ ReplyTypes' /\ SentTypes' /\ ToldTruly
             /\ overtaken' = {} => Consistent(ws, play, sent, replies)'
  <2>1. /\ play' \in PlayRecord /\ play'.id = play.id /\ play'.ended = play.ended
        /\ play'.played = play.played
    BY <1>3 DEF PlayInv, PlayTypes, PlayRecord
  <2>2. PlayTypes'
    BY <1>3, <2>1 DEF PlayInv, PlayTypes, OneId
  <2>3. ASSUME overtaken = {} PROVE Consistent(ws, play', sent, replies)
    BY <2>1, <2>3, SameRefs DEF PlayInv
  <2>4. UNCHANGED <<ws, sent, replies, named, overtaken, mics, stream, socket>>
    BY <1>3 DEF calls, held, mesh
  <2>5. ASSUME overtaken' = {} PROVE Consistent(ws, play, sent, replies)'
    BY <2>3, <2>4, <2>5, NamedStays
  <2> QED
    BY <2>2, <2>4, <2>5, PlayFrame
<1>4. CASE Pause(s) \/ Resume(s)
  <2>1. \E b \in BOOLEAN : play' = [play EXCEPT !.paused = b]
    BY <1>4 DEF Pause, Resume
  <2>2. scheduled' \subseteq scheduled /\ UNCHANGED <<calls, held, sent, mesh>>
    BY <1>4 DEF Pause, Resume
  <2> QED
    BY <1>3, <2>1, <2>2
<1>5. ASSUME NEW i \in 1 .. MaxReplies, Begin(s, i)
      PROVE  /\ HeldTypes' /\ PlayTypes' /\ ReplyTypes' /\ SentTypes' /\ ToldTruly
             /\ overtaken' = {} => Consistent(ws, play, sent, replies)'
  <2>1. UNCHANGED <<mics, stream, socket, ws, sent, named, overtaken>>
    BY <1>5 DEF Begin, calls, held
  <2>2. ReplyTypes' /\ PlayTypes' /\ (overtaken = {} => Consistent(ws, play', sent, replies'))
    BY <1>5, BeginPlays
  <2>3. ASSUME overtaken' = {} PROVE Consistent(ws, play, sent, replies)'
    BY <2>1, <2>2, <2>3, NamedStays
  <2> QED
    BY <2>1, <2>2, <2>3, PlayFrame
<1> QED
  BY <1>1, <1>2, <1>4, <1>5

(* The steps that may report a reply as played. *)
LEMMA ReportsPlay ==
    ASSUME VoiceInv, PlayInv,
           \/ \E s \in Session, i \in 1 .. MaxReplies : End(s, i) \/ ReplyDone(s, i)
           \/ \E r \in scheduled : BufferEnds(r)
    PROVE  /\ HeldTypes' /\ PlayTypes' /\ ReplyTypes' /\ SentTypes'
           /\ overtaken = {} => ToldTruly
           /\ overtaken' = {} => Consistent(ws, play, sent, replies)'
<1>1. UNCHANGED <<mics, stream, socket, ws, named, overtaken>>
  BY DEF End, ReplyDone, BufferEnds, calls, held, mesh
<1>2. /\ PlayTypes' /\ ReplyTypes' /\ SentTypes'
      /\ overtaken = {} => Consistent(ws, play', sent', replies') /\ ToldTruly
  <2>1. ASSUME NEW r \in scheduled, BufferEnds(r)
        PROVE  /\ PlayTypes' /\ ReplyTypes' /\ SentTypes'
               /\ overtaken = {} => Consistent(ws, play', sent', replies') /\ ToldTruly
    <3>1. Report(play, scheduled \ {r}) /\ replies' = replies
      BY <2>1 DEF BufferEnds, mesh
    <3>2. play \in PlayRecord /\ OneId(play) /\ scheduled \ {r} \in SUBSET Reply
      BY DEF PlayInv, PlayTypes
    <3>3. overtaken = {} => Consistent(ws, play, sent, replies')
      BY <3>1 DEF PlayInv
    <3> QED
      BY <3>1, <3>2, <3>3, ReportKeeps, PlayFrame
  <2> QED
    BY <2>1, EndPlays, ReplyDonePlays
<1>3. ASSUME overtaken' = {} PROVE Consistent(ws, play, sent, replies)'
  BY <1>1, <1>2, <1>3, NamedStays
<1>4. HeldTypes'
  BY <1>1, PlayFrame
<1> QED
  BY <1>2, <1>3, <1>4

(* Every step keeps the refs consistent and tells the truth. *)
LEMMA PlayStep ==
    ASSUME VoiceInv, PlayInv, LiveNext
    PROVE  PlayInv' /\ (overtaken = {} => ToldTruly)
<1>1. PageTypes'
  BY PageTyped DEF PlayInv
<1>2. /\ HeldTypes' /\ PlayTypes' /\ ReplyTypes' /\ SentTypes'
      /\ overtaken = {} => ToldTruly
      /\ overtaken' = {} => Consistent(ws, play, sent, replies)'
  <2>1. CASE \E s \in Session :
               \/ Connect(s) \/ TokenGranted(s) \/ TokenRefused(s) \/ MicGranted(s)
               \/ ModuleLoaded(s) \/ SocketOpens(s) \/ LostSocketCloses(s)
    BY <2>1, ConnectPlays
  <2>2. CASE \E s \in Session :
               \/ Ready(s) \/ SpeechStopped(s) \/ Frame(s) \/ Pause(s) \/ Resume(s)
               \/ ErrorMessage(s) \/ \E i \in 1 .. MaxReplies : Begin(s, i)
    BY <2>2, MessagesPlay
  <2>3. CASE \/ \E s \in Session, i \in 1 .. MaxReplies : End(s, i) \/ ReplyDone(s, i)
             \/ \E r \in scheduled : BufferEnds(r)
    BY <2>3, ReportsPlay
  <2>4. CASE \/ \E s \in Session : ConnectThrows(s) \/ SocketCloses(s)
             \/ \E d \in Domia : Select(d)
             \/ Disconnect \/ LeaveVoice
    <3>1. (\E late : Teardown(late)) /\ named' = named
      BY <2>4 DEF ConnectThrows, SocketCloses, Select, Disconnect, LeaveVoice
    <3>2. /\ HeldTypes' /\ PlayTypes' /\ ReplyTypes' /\ SentTypes' /\ ToldTruly
          /\ overtaken' = {} => Consistent(ws', play', sent', replies')
      BY <3>1, TeardownPlays
    <3>3. ASSUME overtaken' = {} PROVE Consistent(ws, play, sent, replies)'
      BY <3>1, <3>2, <3>3, NamedStays
    <3> QED
      BY <3>2, <3>3
  <2> QED
    BY <2>1, <2>2, <2>3, <2>4 DEF LiveNext
<1> QED
  BY <1>1, <1>2 DEF PlayInv

(* And nothing changes when nothing does. *)
LEMMA PlayRests == ASSUME PlayInv, UNCHANGED liveVars PROVE PlayInv'
<1>1. UNCHANGED <<here, status, listening, node, named, mics, stream, socket, ws, play, scheduled,
                  replies, sent, overtaken>>
  BY DEF liveVars, page, calls, held, audio, mesh
<1>2. PageTypes'
  BY <1>1 DEF PlayInv, PageTypes
<1> QED
  BY <1>1, <1>2, PlayFrame DEF PlayInv

(* The invariants of the live voice give its types. *)
LEMMA LiveTyped == ASSUME VoiceInv, PlayInv PROVE LiveTypeOK
BY DEF VoiceInv, SessionTypes, PlayInv, PageTypes, HeldTypes, PlayTypes, PlayRecord,
       ReplyTypes, ReplyRecord, SentTypes, LiveTypeOK

(* use-live-voice.ts: the refs, the replies and the reports always agree. *)
THEOREM PlayInvariant == LiveSpec => []PlayInv
<1>1. VoiceInv /\ PlayInv /\ [LiveNext]_liveVars => PlayInv'
  BY PlayStep, PlayRests
<1> QED
  BY PlayStarts, <1>1, VoiceInvariant, PTL DEF LiveSpec

(* The types of the live voice, and its refs hold one session at most. *)
THEOREM LiveTypes == LiveSpec => []LiveTypeOK
<1>1. VoiceInv /\ PlayInv => LiveTypeOK
  BY LiveTyped
<1> QED
  BY <1>1, VoiceInvariant, PlayInvariant, PTL

(* use-live-voice.ts: a reply is reported as played once, to the session   *)
(* whose reply it is, when its stream is over and all of it was played.    *)
THEOREM PlayedStaysTrue == LiveSpec => PlayedIsTrue
<1> DEFINE Step ==
      \A s \in Session : overtaken = {} =>
         \A n \in (Len(sent[s]) + 1) .. Len(sent'[s]) :
            LET id == sent'[s][n] IN
            /\ id[1] = s
            /\ \A k \in 1 .. (n - 1) : sent'[s][k] # id
            /\ replies'[s][id[2]].audio # "stream"
            /\ id \notin scheduled'
<1>1. ASSUME VoiceInv, PlayInv, LiveNext PROVE Step
  BY <1>1, PlayStep DEF ToldTruly
<1>2. VoiceInv /\ PlayInv /\ [LiveNext]_liveVars => [Step]_liveVars
  BY <1>1
<1> QED
  BY <1>2, VoiceInvariant, PlayInvariant, PTL DEF LiveSpec, PlayedIsTrue

-----------------------------------------------------------------------------
On == {t \in Take : phase[t] \in {"on", "stopping"}}
Active == Asked \union On

RefTypes ==
    /\ composing \in BOOLEAN /\ recording \in BOOLEAN
    /\ phase \in [Take -> {"none", "asked", "on", "stopping", "converting", "over"}]
    /\ tracks \subseteq Take /\ timers \subseteq Take
    /\ streamRef \subseteq Take /\ timer \subseteq Take /\ recorder \subseteq Take
    /\ crossed \subseteq Take /\ chunks \subseteq Take /\ blobs \in [Take -> SUBSET Take]

(* A take that was not crossed has the hook to itself. *)
OneTake == \A t \in Active \ crossed : Active = {t}

(* While it records, the page is there and says so. *)
TakeIsShown == \A t \in On \ crossed : composing => recording

(* What a take has opened, the refs of the hook hold. *)
TakeIsHeld ==
    /\ tracks \ crossed \subseteq On \cap streamRef
    /\ timers \ crossed \subseteq On \cap timer
    /\ tracks \ crossed # {} => composing

(* A take that was asked for and then given up by leaving is crossed. *)
AskedIsHere == Asked \ crossed # {} => composing

(* A take that is on has no audio in the chunks but its own, which comes   *)
(* when it stops.                                                          *)
ChunksAreOwn ==
    crossed = {} =>
        /\ On # {} => chunks = {}
        /\ \A t \in Take : blobs[t] \subseteq {t}
        /\ \E t : clip \subseteq {t}

RecorderInv ==
    RefTypes /\ OneTake /\ TakeIsShown /\ TakeIsHeld /\ AskedIsHere /\ ChunksAreOwn

(* The composer opens with no take. *)
LEMMA RecorderStarts == RecorderInit => RecorderInv
BY DEF RecorderInit, RecorderInv, RefTypes, OneTake, TakeIsShown, TakeIsHeld, AskedIsHere, ChunksAreOwn,
       Active, On, Asked

(* A click on the microphone starts a take, or crosses the one under way.  *)
LEMMA StartKeeps == ASSUME RecorderInv, NEW t \in Take, Start(t) PROVE RecorderInv'
<1> USE DEF RecorderInv, RefTypes
<1>1. RefTypes' /\ On' = On /\ Asked' = Asked \union {t}
  BY DEF Start, On, Asked, Others
<1>2. t \notin Active
  BY DEF Start, Active, On, Asked
<1>3. CASE Others = {}
  <2>1. Active = {} /\ crossed' = crossed
    BY <1>3 DEF Start, Others, Active, Asked, On, TakeIsShown
  <2>2. OneTake' /\ TakeIsShown' /\ TakeIsHeld' /\ AskedIsHere' /\ ChunksAreOwn'
    BY <1>1, <2>1 DEF Start, OneTake, TakeIsShown, TakeIsHeld, AskedIsHere, ChunksAreOwn, Active
  <2> QED
    BY <1>1, <2>2
<1>4. CASE Others # {}
  <2>1. crossed' = crossed \union Others \union {t}
    BY <1>4 DEF Start
  <2>2. Active' \ crossed' = {}
    BY <1>1, <2>1 DEF Start, Others, Active, Asked, On, TakeIsShown
  <2>3. OneTake' /\ TakeIsShown' /\ AskedIsHere'
    BY <2>2 DEF OneTake, TakeIsShown, AskedIsHere, Active
  <2>4. TakeIsHeld' /\ ChunksAreOwn'
    BY <1>1, <2>1 DEF Start, TakeIsHeld, ChunksAreOwn
  <2> QED
    BY <1>1, <2>3, <2>4
<1> QED
  BY <1>3, <1>4

(* The browser grants the microphone to the only take, or to a crossed one. *)
LEMMA GrantedKeeps == ASSUME RecorderInv, NEW t \in Take, Granted(t) PROVE RecorderInv'
<1> USE DEF RecorderInv, RefTypes
<1>1. RefTypes'
  BY DEF Granted, ShowsRecording
<1>2. On' = On \union {t} /\ Asked' = Asked \ {t} /\ t \in Asked /\ Active' = Active
  BY DEF Granted, On, Asked, Active
<1>3. \A u \in Active \ crossed : u = t
  BY <1>2 DEF OneTake, Active
<1>4. OneTake' /\ AskedIsHere' /\ TakeIsShown'
  BY <1>2, <1>3 DEF Granted, ShowsRecording, OneTake, AskedIsHere, TakeIsShown, Active
<1>5. TakeIsHeld'
  BY <1>2, <1>3 DEF Granted, TakeIsHeld, AskedIsHere, Active
<1>6. ChunksAreOwn'
  BY DEF Granted, ChunksAreOwn
<1> QED
  BY <1>1, <1>4, <1>5, <1>6

(* A take ends before its recorder is on. *)
LEMMA NotGrantedKeeps ==
    ASSUME RecorderInv, NEW t \in Take, RecorderThrows(t) \/ Denied(t) PROVE RecorderInv'
<1> USE DEF RecorderInv, RefTypes
<1>1. RefTypes'
  BY DEF RecorderThrows, Denied
<1>2. On' = On /\ Asked' = Asked \ {t} /\ t \in Asked /\ t \notin On
  BY DEF RecorderThrows, Denied, On, Asked
<1>3. \A u \in Active \ crossed : Active = {u}
  BY DEF OneTake
<1>4. crossed \subseteq crossed' /\ UNCHANGED <<composing, recording, timers, timer, chunks, blobs, clip>>
  BY DEF RecorderThrows, Denied
<1>5. OneTake' /\ TakeIsShown' /\ AskedIsHere' /\ ChunksAreOwn'
  BY <1>2, <1>3, <1>4 DEF OneTake, TakeIsShown, AskedIsHere, ChunksAreOwn, Active
<1>6. \A u \in tracks' \ crossed' : u \in On \cap streamRef' /\ u \in tracks \ crossed
  BY <1>2, <1>3 DEF RecorderThrows, Denied, TakeIsHeld, Active
<1>7. TakeIsHeld'
  BY <1>2, <1>4, <1>6 DEF TakeIsHeld
<1> QED
  BY <1>1, <1>5, <1>7

(* A recorder stops: what it held is closed and becomes a clip. *)
LEMMA OnStopKeeps == ASSUME RecorderInv, NEW t \in Take, OnStop(t) PROVE RecorderInv'
<1> USE DEF RecorderInv, RefTypes
<1>1. RefTypes'
  <2>1. recording' \in BOOLEAN
    BY DEF OnStop, ShowsRecording
  <2>2. phase' \in [Take -> {"none", "asked", "on", "stopping", "converting", "over"}]
    BY DEF OnStop
  <2>3. chunks' \subseteq Take /\ blobs' \in [Take -> SUBSET Take]
    BY DEF OnStop
  <2> QED
    BY <2>1, <2>2, <2>3 DEF OnStop
<1>2. On' = On \ {t} /\ Asked' = Asked /\ t \in On
  BY DEF OnStop, On, Asked
<1>3. \A u \in Active \ crossed : Active = {u} /\ u = t
  BY <1>2 DEF OneTake, Active
<1>4. OneTake' /\ TakeIsShown' /\ AskedIsHere'
  BY <1>2, <1>3 DEF OnStop, OneTake, TakeIsShown, AskedIsHere, Active
<1>5. tracks' \ crossed' = {} /\ timers' \ crossed' = {}
  BY <1>3 DEF OnStop, TakeIsHeld, Active
<1>6. TakeIsHeld'
  BY <1>5 DEF TakeIsHeld
<1>7. ChunksAreOwn'
  <2> SUFFICES ASSUME crossed = {} PROVE ChunksAreOwn'
    BY DEF OnStop, ChunksAreOwn
  <2>1. On' = {} /\ chunks = {} /\ clip' = clip
    BY <1>2, <1>3 DEF OnStop, ChunksAreOwn, Active
  <2>2. chunks' \subseteq {t} /\ blobs' = [blobs EXCEPT ![t] = chunks']
    BY <2>1 DEF OnStop
  <2> QED
    BY <2>1, <2>2 DEF ChunksAreOwn
<1> QED
  BY <1>1, <1>4, <1>6, <1>7

(* The page is left: the take that is on is closed, one asked for crossed. *)
LEMMA LeaveKeeps == ASSUME RecorderInv, LeaveComposer PROVE RecorderInv'
<1> USE DEF RecorderInv, RefTypes
<1>1. RefTypes'
  <2>1. phase' \in [Take -> {"none", "asked", "on", "stopping", "converting", "over"}]
    BY DEF LeaveComposer
  <2> QED
    BY <2>1 DEF LeaveComposer, Asked
<1>2. On' \subseteq On /\ Asked' = Asked /\ Asked' \subseteq crossed' /\ crossed \subseteq crossed'
  BY DEF LeaveComposer, On, Asked
<1>3. OneTake' /\ TakeIsShown' /\ AskedIsHere'
  BY <1>2 DEF LeaveComposer, OneTake, TakeIsShown, AskedIsHere, Active
<1>4. tracks' \ crossed' = {} /\ timers' \ crossed' = {}
  BY <1>2 DEF LeaveComposer, TakeIsHeld
<1>5. TakeIsHeld' /\ ChunksAreOwn'
  BY <1>2, <1>4 DEF LeaveComposer, TakeIsHeld, ChunksAreOwn
<1> QED
  BY <1>1, <1>3, <1>5

(* Stop is pressed, or a clip is there at last. *)
LEMMA SettleKeeps ==
    ASSUME RecorderInv, NEW t \in Take, NEW ok \in BOOLEAN, Stop(t) \/ Converted(t, ok)
    PROVE  RecorderInv'
<1> USE DEF RecorderInv, RefTypes
<1>1. RefTypes' /\ On' = On /\ Asked' = Asked
  BY DEF Stop, Converted, On, Asked
<1>2. ChunksAreOwn'
  BY <1>1 DEF Stop, Converted, ChunksAreOwn
<1> QED
  BY <1>1, <1>2 DEF Stop, Converted, OneTake, TakeIsShown, TakeIsHeld, AskedIsHere, Active

(* A file is read, the review ends, or nothing happens. *)
LEMMA RestKeeps ==
    ASSUME RecorderInv, PickFile \/ FileRead \/ EndReview \/ UNCHANGED recorderVars
    PROVE  RecorderInv'
<1> USE DEF RecorderInv, RefTypes
<1>1. RefTypes' /\ On' = On /\ Asked' = Asked
  BY DEF PickFile, FileRead, EndReview, recorderVars, On, Asked
<1>2. ChunksAreOwn'
  BY <1>1 DEF PickFile, FileRead, EndReview, recorderVars, ChunksAreOwn
<1> QED
  BY <1>1, <1>2 DEF PickFile, FileRead, EndReview, recorderVars, OneTake, TakeIsShown,
     TakeIsHeld, AskedIsHere, Active

(* The refs hold streams and timers that there are. *)
LEMMA RecorderTyped ==
    ASSUME RecorderTypeOK, [RecorderNext]_recorderVars PROVE RecorderTypeOK'
<1> USE DEF RecorderTypeOK
<1>1. ASSUME NEW t \in Take, Start(t) PROVE RecorderTypeOK'
  BY <1>1 DEF Start, Others, Asked
<1>2. ASSUME NEW t \in Take, Granted(t) PROVE RecorderTypeOK'
  BY <1>2 DEF Granted, ShowsRecording
<1>3. ASSUME NEW t \in Take, RecorderThrows(t) \/ Denied(t) \/ Stop(t) PROVE RecorderTypeOK'
  BY <1>3 DEF RecorderThrows, Denied, Stop
<1>4. ASSUME NEW t \in Take, OnStop(t) PROVE RecorderTypeOK'
  <2>1. /\ tracks' = tracks \ {t} /\ streamRef' = {} /\ timers' = timers \ timer /\ timer' = {}
        /\ recording' = IF composing THEN FALSE ELSE recording
        /\ UNCHANGED <<composing, recorder, clip, reading, crossed>>
    BY <1>4 DEF OnStop, ShowsRecording
  <2>2. /\ chunks' \subseteq Take
        /\ blobs' \in [Take -> SUBSET Take]
        /\ phase' \in [Take -> {"none", "asked", "on", "stopping", "converting", "over"}]
    BY <1>4 DEF OnStop
  <2>3. converting' \in BOOLEAN
    BY <1>4 DEF OnStop
  <2> QED
    BY <2>1, <2>2, <2>3
<1>5. ASSUME NEW t \in Take, NEW ok \in BOOLEAN, Converted(t, ok) PROVE RecorderTypeOK'
  <2>1. converting' \in BOOLEAN
    BY <1>5 DEF Converted
  <2> QED
    BY <1>5, <2>1 DEF Converted
<1>6. CASE PickFile \/ FileRead \/ EndReview
  BY <1>6 DEF PickFile, FileRead, EndReview
<1>7. CASE LeaveComposer
  BY <1>7 DEF LeaveComposer, Asked
<1>8. CASE UNCHANGED recorderVars
  BY <1>8 DEF recorderVars
<1> QED
  BY <1>1, <1>2, <1>3, <1>4, <1>5, <1>6, <1>7, <1>8 DEF RecorderNext

(* The types of the recorder, with the ties between its refs and what is  *)
(* open.                                                                  *)
THEOREM RecorderTypes == RecorderSpec => []RecorderTypeOK
<1>1. RecorderInit => RecorderTypeOK
  BY DEF RecorderInit, RecorderTypeOK
<1>2. RecorderTypeOK /\ [RecorderNext]_recorderVars => RecorderTypeOK'
  BY RecorderTyped
<1> QED
  BY <1>1, <1>2, PTL DEF RecorderSpec

(* The invariant of the recorder. *)
THEOREM RecorderInvariant == RecorderSpec => []RecorderInv
<1>1. RecorderInv /\ [RecorderNext]_recorderVars => RecorderInv'
  <2> SUFFICES ASSUME RecorderInv, [RecorderNext]_recorderVars PROVE RecorderInv'
    OBVIOUS
  <2>1. ASSUME NEW t \in Take,
               \/ Start(t) \/ Granted(t) \/ RecorderThrows(t) \/ Denied(t)
               \/ Stop(t) \/ OnStop(t) \/ \E ok \in BOOLEAN : Converted(t, ok)
        PROVE  RecorderInv'
    BY <2>1, StartKeeps, GrantedKeeps, NotGrantedKeeps, OnStopKeeps, SettleKeeps
  <2>2. CASE PickFile \/ FileRead \/ EndReview \/ UNCHANGED recorderVars
    BY <2>2, RestKeeps
  <2> QED
    BY <2>1, <2>2, LeaveKeeps DEF RecorderNext
<1> QED
  BY RecorderStarts, <1>1, PTL DEF RecorderSpec

(* use-audio-recorder.ts: outside the takes that crossed another or the    *)
(* end of the page, the microphone is open, and the timers run, only while *)
(* the page records.                                                       *)
THEOREM MicrophoneMeansRecording == RecorderSpec => []MicMeansRecording
<1>1. RecorderInv => MicMeansRecording
  BY DEF RecorderInv, TakeIsHeld, TakeIsShown, MicMeansRecording
<1> QED
  BY <1>1, RecorderInvariant, PTL

(* use-audio-recorder.ts: a clip holds the audio of one take, unless takes *)
(* were on together.                                                       *)
THEOREM ClipsAreOneTake == RecorderSpec => []ClipIsOneTake
<1>1. ASSUME NEW S, NEW x, S \subseteq {x} PROVE Cardinality(S) <= 1
  <2>1. CASE S = {}
    BY <2>1, FS_EmptySet
  <2>2. CASE S = {x}
    <3>1. Cardinality({x}) = 1
      BY FS_Singleton
    <3> QED
      BY <2>2, <3>1
  <2> QED
    BY <1>1, <2>1, <2>2
<1>2. RecorderInv => ClipIsOneTake
  BY <1>1 DEF RecorderInv, ChunksAreOwn, ClipIsOneTake
<1> QED
  BY <1>2, RecorderInvariant, PTL

-----------------------------------------------------------------------------
StepType == step \in [Join -> {"none", "token", "joining", "mic", "joined", "left", "over"}]
OfType == of \in [Join -> LabDomia]
RefsAreJoins == rooms \subseteq Join /\ ref \subseteq Join /\ leaving \subseteq Join

(* A room is made by a join that has its token. *)
RoomsHaveJoins == \A j \in rooms : step[j] # "none"

(* A join that still waits is for the Domia on the page, unless it strayed. *)
WaitingIsShown == \A j \in LabWaiting \ strayed : onLab /\ of[j] = picked

(* A microphone is on in a room that was joined; a join has its room until *)
(* it is over.                                                             *)
RoomsOfJoins ==
    /\ \A j \in open : j \in rooms /\ step[j] \in {"joined", "over"}
    /\ \A j \in Join : step[j] \in {"joining", "mic"} => j \in rooms

(* Before anything has strayed, one join waits at most, and is shown.      *)
OneJoin ==
    strayed = {} =>
        /\ \A j, k \in LabWaiting : j = k
        /\ onLab /\ LabWaiting # {} => state = "connecting"
        /\ \A j \in Join : step[j] # "left"

LabInv ==
    /\ StepType /\ OfType /\ RefsAreJoins /\ picked \in LabDomia
    /\ RoomsHaveJoins /\ WaitingIsShown /\ RoomsAreHeld
    /\ RoomsOfJoins /\ OneJoin /\ DisconnectIsOffered

(* The lab opens in no room. *)
LEMMA LabStarts == LabInit => LabInv
BY DEF LabInit, LabInv, StepType, OfType, RefsAreJoins, RoomsHaveJoins, WaitingIsShown,
       RoomsAreHeld, RoomsOfJoins, OneJoin, DisconnectIsOffered, LabWaiting

(* The joins that were in the ref are left; the others keep where they are. *)
LEMMA LeaveRoomTypes ==
    ASSUME LabInv, LeaveRoom
    PROVE  /\ StepType' /\ rooms' = rooms \ ref /\ open' = open \ ref /\ leaving' \subseteq Join
           /\ \A j \in Join : step'[j] = "none" => step[j] = "none"
           /\ \A j \in Join : step[j] \in {"joined", "over"} => step'[j] \in {"joined", "over"}
           /\ \A j \in Join : step'[j] \in {"joining", "mic"} => step'[j] = step[j] /\ j \notin ref
           /\ \A j \in Join : step'[j] = "left" => step[j] = "left" \/ j \in LabWaiting
           /\ LabWaiting' \subseteq LabWaiting
<1> USE DEF LabInv, StepType, RefsAreJoins
<1>1. StepType'
  BY DEF LeaveRoom
<1>2. \A j \in Join :
        /\ step'[j] = "none" => step[j] = "none"
        /\ step[j] \in {"joined", "over"} => step'[j] \in {"joined", "over"}
        /\ step'[j] \in {"joining", "mic"} => step'[j] = step[j] /\ j \notin ref
        /\ step'[j] = "left" => step[j] = "left" \/ j \in LabWaiting
  BY DEF LeaveRoom, LabWaiting
<1>3. LabWaiting' \subseteq LabWaiting
  BY DEF LeaveRoom, LabWaiting
<1>4. rooms' = rooms \ ref /\ open' = open \ ref /\ leaving' \subseteq Join
  BY DEF LeaveRoom
<1> QED
  BY <1>1, <1>2, <1>3, <1>4

(* Disconnect, another Domia, leaving the page: what the ref holds is left. *)
LEMMA LeavingKeeps ==
    ASSUME LabInv, LabDisconnect \/ LeaveLab \/ \E d \in LabDomia : PickDomia(d)
    PROVE  LabInv'
<1> USE DEF LabInv, OfType
<1>1. /\ LeaveRoom /\ of' = of /\ ref' \subseteq ref /\ picked' \in LabDomia
      /\ strayed \subseteq strayed' /\ strayed' \subseteq strayed \union LabWaiting
  BY DEF LabDisconnect, LeaveLab, PickDomia
<1>2. onLab' => onLab /\ state' = "idle"
  BY DEF LabDisconnect, LeaveLab, PickDomia
<1>3. (onLab' /\ picked' = picked) \/ LabWaiting \subseteq strayed'
  BY DEF LabDisconnect, LeaveLab, PickDomia
<1>4. strayed' = {} => LabWaiting = {}
  BY <1>1 DEF LabDisconnect, LeaveLab, PickDomia, OneJoin
<1>5. StepType' /\ OfType' /\ RefsAreJoins' /\ RoomsHaveJoins'
  BY <1>1, LeaveRoomTypes DEF RefsAreJoins, RoomsHaveJoins
<1>6. WaitingIsShown'
  BY <1>1, <1>3, LeaveRoomTypes DEF WaitingIsShown, LabWaiting
<1>7. RoomsAreHeld'
  BY <1>1, LeaveRoomTypes DEF RoomsAreHeld
<1>8. RoomsOfJoins'
  BY <1>1, LeaveRoomTypes DEF RoomsOfJoins, RefsAreJoins
<1>9. OneJoin'
  BY <1>1, <1>4, LeaveRoomTypes DEF OneJoin
<1>10. DisconnectIsOffered'
  BY <1>1, <1>2, LeaveRoomTypes DEF DisconnectIsOffered, RoomsAreHeld, RoomsOfJoins
<1> QED
  BY <1>1, <1>5, <1>6, <1>7, <1>8, <1>9, <1>10

(* The steps of a join. *)
LEMMA JoinKeeps ==
    ASSUME LabInv, NEW j \in Join,
           \/ LabConnect(j) \/ LabTokenGranted(j) \/ LabTokenRefused(j)
           \/ RoomJoined(j) \/ MicrophoneOn(j) \/ JoinFails(j)
    PROVE  LabInv'
<1> USE DEF LabInv, StepType, OfType, RefsAreJoins, RoomsHaveJoins, WaitingIsShown,
            RoomsAreHeld, RoomsOfJoins, LabWaiting
<1>1. CASE LabConnect(j)
  BY <1>1 DEF LabConnect, OneJoin, DisconnectIsOffered
<1>2. CASE LabTokenGranted(j)
  BY <1>2 DEF LabTokenGranted, OneJoin, DisconnectIsOffered
<1>3. CASE LabTokenRefused(j)
  BY <1>3 DEF LabTokenRefused, LabShows, OneJoin, DisconnectIsOffered
<1>4. CASE RoomJoined(j)
  BY <1>4 DEF RoomJoined, OneJoin, DisconnectIsOffered
<1>5. CASE MicrophoneOn(j)
  BY <1>5 DEF MicrophoneOn, LabShows, OneJoin, DisconnectIsOffered
<1>6. CASE JoinFails(j)
  BY <1>6 DEF JoinFails, LabShows, OneJoin, DisconnectIsOffered
<1> QED
  BY <1>1, <1>2, <1>3, <1>4, <1>5, <1>6

(* A room that ends, and the choice of a satellite. *)
LEMMA RoomKeeps ==
    ASSUME LabInv, NEW j \in Join,
           RoomDrops(j) \/ RoomDisconnected(j)
    PROVE  LabInv'
<1> USE DEF LabInv, StepType, OfType, RefsAreJoins, RoomsHaveJoins, WaitingIsShown,
            RoomsAreHeld, RoomsOfJoins, LabWaiting
<1>1. CASE RoomDrops(j)
  BY <1>1 DEF RoomDrops, OneJoin, DisconnectIsOffered
<1>2. CASE RoomDisconnected(j)
  BY <1>2 DEF RoomDisconnected, LabShows, OneJoin, DisconnectIsOffered
<1> QED
  BY <1>1, <1>2

(* Every step of the lab keeps its invariant. *)
LEMMA LabStep == ASSUME LabInv, [LabNext]_labVars PROVE LabInv'
<1>1. CASE ChooseSatellite \/ UNCHANGED labVars
  BY <1>1 DEF ChooseSatellite, labVars, LabInv, StepType, OfType, RefsAreJoins, RoomsHaveJoins,
     WaitingIsShown, RoomsAreHeld, RoomsOfJoins, OneJoin, DisconnectIsOffered, LabWaiting
<1> QED
  BY <1>1, LeavingKeeps, JoinKeeps, RoomKeeps DEF LabNext

(* The ref holds one room at most, and microphones are on in rooms only. *)
LEMMA LabTyped ==
    ASSUME LabInv, LabTypeOK, [LabNext]_labVars PROVE LabTypeOK'
<1>1. LabInv'
  BY LabStep
<1>2. /\ step' \in [Join -> {"none", "token", "joining", "mic", "joined", "left", "over"}]
      /\ of' \in [Join -> LabDomia] /\ picked' \in LabDomia
      /\ open' \subseteq rooms' /\ rooms' \subseteq Join /\ ref' \subseteq Join /\ leaving' \subseteq Join
  BY <1>1 DEF LabInv, StepType, OfType, RefsAreJoins, RoomsOfJoins
<1>3. /\ onLab' \in BOOLEAN /\ chosen' \in BOOLEAN
      /\ state' \in {"idle", "connecting", "connected", "error"}
      /\ \A i, j \in ref' : i = j
  BY DEF LabTypeOK, LabNext, ChooseSatellite, LabDisconnect, LeaveLab, PickDomia, LabConnect,
         LabTokenGranted, LabTokenRefused, RoomJoined, MicrophoneOn, JoinFails, RoomDrops,
         RoomDisconnected, LabShows, labVars
<1>4. strayed' \subseteq Join
  BY <1>2 DEF LabTypeOK, LabNext, ChooseSatellite, LabDisconnect, LeaveLab, PickDomia, LabConnect,
         LabTokenGranted, LabTokenRefused, RoomJoined, MicrophoneOn, JoinFails, RoomDrops,
         RoomDisconnected, LabWaiting, labVars
<1> QED
  BY <1>2, <1>3, <1>4 DEF LabTypeOK

(* The invariant of the voice lab. *)
THEOREM LabInvariant == LabSpec => []LabInv
<1>1. LabInv /\ [LabNext]_labVars => LabInv'
  BY LabStep
<1> QED
  BY LabStarts, <1>1, PTL DEF LabSpec

(* The types of the lab: its ref holds one room at most. *)
THEOREM LabTypes == LabSpec => []LabTypeOK
<1>1. LabInit => LabTypeOK
  BY DEF LabInit, LabTypeOK
<1>2. LabInv /\ LabTypeOK /\ [LabNext]_labVars => LabTypeOK'
  BY LabTyped
<1> QED
  BY <1>1, <1>2, LabInvariant, PTL DEF LabSpec

(* livekit-lab.tsx: "Disconnect" is offered exactly while one is in a room *)
(* with the microphone on, or it has just gone, if nothing has strayed.    *)
THEOREM DisconnectStaysOffered == LabSpec => []DisconnectIsOffered
<1>1. LabInv => DisconnectIsOffered
  BY DEF LabInv
<1> QED
  BY <1>1, LabInvariant, PTL

(* livekit-lab.tsx: Disconnect, another Domia and leaving the page leave   *)
(* every room one is in, but for the joins that strayed.                   *)
THEOREM RoomsStayHeld == LabSpec => []RoomsAreHeld
<1>1. LabInv => RoomsAreHeld
  BY DEF LabInv
<1> QED
  BY <1>1, LabInvariant, PTL
=============================================================================
