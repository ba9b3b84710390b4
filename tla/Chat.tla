-------------------------------- MODULE Chat --------------------------------
(***************************************************************************)
(* The chat tester of the Console: the ChatConsole component, the          *)
(* useChatStream hook it streams a reply with, and the nodes it talks to.  *)
(*                                                                         *)
(* A message goes out as an event stream, and when the stream fails before *)
(* its first frame it goes out once more as a plain request.  Replies,     *)
(* Stop, a reset of the conversation, another Domia picked in the header   *)
(* and leaving the page interleave with both.                              *)
(*                                                                         *)
(* A handler, and the continuation of a promise, run to the end: each is   *)
(* one action.  Aborting a fetch rejects it at once, so the continuation   *)
(* of an aborted stream belongs to the action that aborts it.              *)
(***************************************************************************)
EXTENDS Naturals, Sequences, FiniteSets

CONSTANTS
    Domia,  \* domiaKeys of the Domias one can pick
    Turn,   \* ids of the turns of the Domia, one for each message
    None,
    MaxMarkers  \* bound: reset markers in the threads

ASSUME ChatAssumption == None \notin Domia \union Turn /\ MaxMarkers \in Nat

VARIABLES
    selected,     \* selectedKey: the Domia in the header
    threads,      \* threads: the turns shown, for the Domias seeded so far
    turn,         \* the fields pending, error, cancelled and text of a turn
    target,       \* the key a turn was appended under
    pending,      \* pending: the composer is disabled, Stop is shown
    active,       \* activeRef.current
    cancelled,    \* cancelledRef.current
    streamingId,  \* streamingId: the bubble that shows stream.state
    stream,       \* state of useChatStream, and whose frames are in it
    job,          \* how far run or runStreamed of a turn is
    here,         \* the page is mounted
    resetting,    \* resetChat, the mutation in flight
    transit,      \* requests on their way to a node
    accepted,     \* requests a node has made an interaction of
    context       \* per node: the turns in the Domia's context

view == <<selected, threads, turn, target, pending, active, streamingId, stream>>
mesh == <<transit, accepted, context>>
vars == <<view, cancelled, job, here, resetting, mesh>>

-----------------------------------------------------------------------------
(* A turn is sent at most twice: as a stream and then as a plain request.  *)
Request == Turn \X {"stream", "plain"}

InFlight == {"stream", "heard", "send"}
Idle == [status |-> "idle", of |-> {}]

Thread(key) == IF key \in DOMAIN threads THEN threads[key] ELSE <<>>

Appended(key, item) ==
    [k \in DOMAIN threads \union {key} |->
        IF k = key THEN Append(Thread(key), item) ELSE threads[k]]

TypeOK ==
    /\ selected \in Domia
    /\ DOMAIN threads \subseteq Domia
    /\ \A k \in DOMAIN threads : threads[k] \in Seq(Turn \union {"history", "marker"})
    /\ turn \in [Turn -> {"unsent", "pending", "answered", "failed", "cancelled"}]
    /\ target \in [Turn -> Domia \union {None}]
    /\ pending \in BOOLEAN /\ here \in BOOLEAN
    /\ active \in Turn \union {None} /\ streamingId \in Turn \union {None}
    /\ cancelled \subseteq Turn
    /\ stream \in [status : {"idle", "streaming"}, of : SUBSET Turn]
    /\ job \in [Turn -> InFlight \union {"idle", "threw", "over"}]
    /\ resetting \in [key : Domia, done : BOOLEAN] \union {None}
    /\ transit \subseteq Request /\ accepted \subseteq Request
    /\ context \in [Domia -> SUBSET Turn]

Init ==
    /\ selected \in Domia
    /\ threads = <<>>
    /\ turn = [t \in Turn |-> "unsent"]
    /\ target = [t \in Turn |-> None]
    /\ pending = FALSE /\ active = None /\ cancelled = {}
    /\ streamingId = None /\ stream = Idle
    /\ job = [t \in Turn |-> "idle"]
    /\ here = TRUE /\ resetting = None
    /\ transit = {} /\ accepted = {}
    /\ context = [d \in Domia |-> {}]

-----------------------------------------------------------------------------
(* What the user does.                                                     *)

(* The header navigates to /chat?domia=key; a turn in flight stays.        *)
Select(key) ==
    /\ here /\ key # selected
    /\ selected' = key
    /\ UNCHANGED <<threads, turn, target, pending, active, streamingId, stream,
                   cancelled, job, here, resetting, mesh>>

\* Mutant: the history replaces a thread that exists.
LoadHistory_Late ==
    /\ here
    /\ threads' = [k \in DOMAIN threads \union {selected} |->
                     IF k = selected THEN <<"history">> ELSE threads[k]]
    /\ UNCHANGED <<selected, turn, target, pending, active, streamingId, stream,
                   cancelled, job, here, resetting, mesh>>

(* chatHistoryQueryOptions answers: a thread that exists is left as it is. *)
LoadHistory ==
    /\ here /\ selected \notin DOMAIN threads
    /\ threads' = Appended(selected, "history")
    /\ UNCHANGED <<selected, turn, target, pending, active, streamingId, stream,
                   cancelled, job, here, resetting, mesh>>

\* Mutant: activeRef gets the key for the id.
Post_KeyForId(t) ==
    /\ pending' = TRUE /\ active' = target[t]
    /\ job' = [job EXCEPT ![t] = "send"]
    /\ transit' = transit \union {<<t, "plain">>}

(* What run does before it waits for sendMessage. *)
Post(t) ==
    /\ pending' = TRUE /\ active' = t
    /\ job' = [job EXCEPT ![t] = "send"]
    /\ transit' = transit \union {<<t, "plain">>}

Written(t) ==
    /\ here /\ ~pending /\ turn[t] = "unsent"
    /\ threads' = Appended(selected, t)
    /\ turn' = [turn EXCEPT ![t] = "pending"]
    /\ target' = [target EXCEPT ![t] = selected]

(* onSendVoice; onSendText when the reply is to be spoken or the Domia     *)
(* looks offline.                                                          *)
SendPlain(t) ==
    /\ Written(t)
    /\ Post(t)
    /\ UNCHANGED <<selected, streamingId, stream, cancelled, here, resetting,
                   accepted, context>>

(* onSendText, runStreamed up to the fetch of stream.start. *)
SendStreamed(t) ==
    /\ Written(t)
    /\ pending' = TRUE /\ active' = t /\ streamingId' = t
    /\ stream' = [status |-> "streaming", of |-> {}]
    /\ job' = [job EXCEPT ![t] = "stream"]
    /\ transit' = transit \union {<<t, "stream">>}
    /\ UNCHANGED <<selected, cancelled, here, resetting, accepted, context>>

(* onCancel while the stream runs: start returns, and runStreamed finds    *)
(* its turn among the cancelled ones.                                      *)
CancelStream ==
    /\ here /\ pending
    /\ \E t \in Turn :
        /\ t = active /\ job[t] \in {"stream", "heard"}
        /\ turn' = [turn EXCEPT ![t] = "cancelled"]
        /\ cancelled' = cancelled \ {t}
        /\ job' = [job EXCEPT ![t] = "over"]
    /\ pending' = FALSE /\ active' = None
    /\ streamingId' = None /\ stream' = Idle
    /\ UNCHANGED <<selected, threads, target, here, resetting, mesh>>

\* Mutant: the stopped turn is not remembered.
CancelSend_Forgets ==
    /\ here /\ pending
    /\ \E t \in Turn :
        /\ t = active /\ job[t] \in {"send", "threw"}
        /\ turn' = [turn EXCEPT ![t] = "cancelled"]
    /\ pending' = FALSE /\ active' = None
    /\ UNCHANGED <<selected, threads, target, streamingId, stream, cancelled, job,
                   here, resetting, mesh>>

(* onCancel while sendMessage runs, or after it threw: nothing stops the   *)
(* request.                                                                *)
CancelSend ==
    /\ here /\ pending
    /\ \E t \in Turn :
        /\ t = active /\ job[t] \in {"send", "threw"}
        /\ turn' = [turn EXCEPT ![t] = "cancelled"]
        /\ cancelled' = cancelled \union {t}
    /\ pending' = FALSE /\ active' = None
    /\ UNCHANGED <<selected, threads, target, streamingId, stream, job, here,
                   resetting, mesh>>

(* The page unmounts: useChatStream aborts its fetch.  A stream that had   *)
(* shown nothing is taken for one that failed, and runStreamed goes on     *)
(* with run.  What is shown no longer matters, the requests do.            *)
Leave ==
    /\ here /\ here' = FALSE
    /\ LET unheard == {t \in Turn : job[t] = "stream"}
       IN  /\ job' = [t \in Turn |-> IF t \in unheard THEN "send"
                                     ELSE IF job[t] = "heard" THEN "over" ELSE job[t]]
           /\ transit' = transit \union (unheard \X {"plain"})
    /\ UNCHANGED <<view, cancelled, resetting, accepted, context>>

-----------------------------------------------------------------------------
(* useChatStream and runStreamed, after the fetch.                         *)

(* apply of the first frame, and of the others. *)
Frame(t) ==
    /\ here /\ job[t] \in {"stream", "heard"}
    /\ <<t, "stream">> \in accepted
    /\ job' = [job EXCEPT ![t] = "heard"]
    /\ stream' = [stream EXCEPT !.of = @ \union {t}]
    /\ UNCHANGED <<selected, threads, turn, target, pending, active, streamingId,
                   cancelled, here, resetting, mesh>>

\* Mutant: the stream state is kept for the next turn.
FallBack_NoReset(t) ==
    /\ here /\ job[t] = "stream"
    /\ streamingId' = None
    /\ Post(t)
    /\ UNCHANGED <<selected, threads, turn, target, stream, cancelled, here,
                   resetting, accepted, context>>

(* No response, a refusal, or an end before any frame: run sends again. *)
FallBack(t) ==
    /\ here /\ job[t] = "stream"
    /\ streamingId' = None /\ stream' = Idle
    /\ Post(t)
    /\ UNCHANGED <<selected, threads, turn, target, cancelled, here, resetting,
                   accepted, context>>

(* RUN_FINISHED; or RUN_ERROR, a cut or an early end of the stream. *)
StreamEnds(t, how) ==
    /\ here /\ job[t] = "heard"
    /\ job' = [job EXCEPT ![t] = "over"]
    /\ turn' = [turn EXCEPT ![t] = how]
    /\ pending' = FALSE /\ active' = None
    /\ streamingId' = None /\ stream' = Idle
    /\ UNCHANGED <<selected, threads, target, cancelled, here, resetting, mesh>>

-----------------------------------------------------------------------------
(* run, when sendMessage returns.                                          *)

CanReturn(t, how) ==
    /\ job[t] = "send"
    /\ how = "answered" => <<t, "plain">> \in accepted

\* Mutant: a stopped turn's reply is applied.
SendReturns_Unchecked(t, how) ==
    /\ here /\ CanReturn(t, how)
    /\ job' = [job EXCEPT ![t] = "over"]
    /\ turn' = [turn EXCEPT ![t] = how]
    /\ pending' = FALSE /\ active' = None
    /\ UNCHANGED <<selected, threads, target, streamingId, stream, cancelled, here,
                   resetting, mesh>>

SendReturns(t, how) ==
    /\ here /\ CanReturn(t, how) /\ t \notin cancelled
    /\ job' = [job EXCEPT ![t] = "over"]
    /\ turn' = [turn EXCEPT ![t] = how]
    /\ pending' = FALSE /\ active' = None
    /\ UNCHANGED <<selected, threads, target, streamingId, stream, cancelled, here,
                   resetting, mesh>>

CancelledReturns(t, how) ==
    /\ here /\ CanReturn(t, how) /\ t \in cancelled
    /\ job' = [job EXCEPT ![t] = "over"]
    /\ cancelled' = cancelled \ {t}
    /\ UNCHANGED <<view, here, resetting, mesh>>

(* The call itself fails: nothing of run after the await happens. *)
SendThrows(t) ==
    /\ here /\ job[t] = "send"
    /\ job' = [job EXCEPT ![t] = "threw"]
    /\ UNCHANGED <<view, cancelled, here, resetting, mesh>>

(* After the page is left only the requests remain. *)
ReturnsToNobody(t) ==
    /\ ~here /\ job[t] = "send"
    /\ job' = [job EXCEPT ![t] = "over"]
    /\ UNCHANGED <<view, cancelled, here, resetting, mesh>>

-----------------------------------------------------------------------------
(* resetChat.                                                              *)

MarkersOf(k) == {i \in DOMAIN threads[k] : threads[k][i] = "marker"}
Markers == UNION {{k} \X MarkersOf(k) : k \in DOMAIN threads}

StartReset ==
    /\ here /\ ~pending /\ resetting = None
    /\ Cardinality(Markers) < MaxMarkers
    /\ resetting' = [key |-> selected, done |-> FALSE]
    /\ UNCHANGED <<view, cancelled, job, here, mesh>>

(* onDone: the marker goes to the thread shown now. *)
ResetDone ==
    /\ here /\ resetting # None /\ resetting.done
    /\ threads' = Appended(selected, "marker")
    /\ resetting' = None
    /\ UNCHANGED <<selected, turn, target, pending, active, streamingId, stream,
                   cancelled, job, here, mesh>>

ResetFails ==
    /\ here /\ resetting # None
    /\ resetting' = None
    /\ UNCHANGED <<view, cancelled, job, here, mesh>>

-----------------------------------------------------------------------------
(* The nodes.                                                              *)

NodeAccepts(r) ==
    /\ r \in transit
    /\ transit' = transit \ {r}
    /\ accepted' = accepted \union {r}
    /\ context' = [context EXCEPT ![target[r[1]]] = @ \union {r[1]}]
    /\ UNCHANGED <<view, cancelled, job, here, resetting>>

LoseRequest(r) ==
    /\ r \in transit
    /\ transit' = transit \ {r}
    /\ UNCHANGED <<view, cancelled, job, here, resetting, accepted, context>>

NodeResets ==
    /\ resetting # None /\ ~resetting.done
    /\ context' = [context EXCEPT ![resetting.key] = {}]
    /\ resetting' = [resetting EXCEPT !.done = TRUE]
    /\ UNCHANGED <<view, cancelled, job, here, transit, accepted>>

Next ==
    \/ \E key \in Domia : Select(key)
    \/ LoadHistory \/ CancelStream \/ CancelSend \/ Leave
    \/ StartReset \/ NodeResets \/ ResetDone \/ ResetFails
    \/ \E t \in Turn :
        \/ SendPlain(t) \/ SendStreamed(t)
        \/ Frame(t) \/ FallBack(t)
        \/ SendThrows(t) \/ ReturnsToNobody(t)
        \/ \E how \in {"answered", "failed"} :
            StreamEnds(t, how) \/ SendReturns(t, how) \/ CancelledReturns(t, how)
    \/ \E r \in Request : NodeAccepts(r) \/ LoseRequest(r)

Spec == Init /\ [][Next]_vars

-----------------------------------------------------------------------------
(* One turn at a time: while the composer is disabled exactly one turn     *)
(* spins, it is the one Stop would stop, and nothing spins otherwise; a    *)
(* late reply to a stopped turn finds it among the cancelled ones.         *)
OneLiveTurn ==
    here =>
        /\ pending <=> active # None
        /\ \A t \in Turn :
            /\ turn[t] = "pending" <=> t = active
            /\ t = active => job[t] \in InFlight \union {"threw"}
            /\ job[t] \in {"stream", "heard"} => t = active
            /\ job[t] = "send" => t = active \/ t \in cancelled
            /\ t \in cancelled => turn[t] = "cancelled" /\ job[t] \in {"send", "threw"}

(* A bubble never shows the steps, the tools or the text of another turn:  *)
(* what the shared stream state holds is of the turn it is shown in, and   *)
(* it is empty when no turn streams.                                       *)
StreamIsOwn ==
    here =>
        /\ stream.of \subseteq {streamingId}
        /\ streamingId = None <=> stream.status = "idle"
        /\ \A t \in Turn : t = streamingId <=> job[t] \in {"stream", "heard"}

(* A turn that was answered, has failed or was stopped stays so, whatever  *)
(* comes back later.                                                       *)
SettledIsFinal ==
    [][\A t \in Turn : turn[t] \notin {"unsent", "pending"} => turn'[t] = turn[t]]_vars

(* No turn of a thread is dropped or moved while the page is open: history *)
(* that loads late does not replace what was written meanwhile.            *)
ThreadsOnlyGrow ==
    [][\A k \in DOMAIN threads :
        /\ k \in DOMAIN threads'
        /\ Len(threads'[k]) >= Len(threads[k])
        /\ \A i \in DOMAIN threads[k] : threads'[k][i] = threads[k][i]]_vars

(* README.md: "every exchange becomes a real, archived interaction".  A    *)
(* message written once is one interaction of the node.                    *)
OneInteractionPerExchange ==
    \A t \in Turn : Cardinality({r \in accepted : r[1] = t}) <= 1

(* The marker of a reset says "earlier turns are no longer in Domia's      *)
(* context".                                                               *)
MarkerIsTrue ==
    \A k \in DOMAIN threads : \A i, j \in DOMAIN threads[k] :
        i < j /\ threads[k][j] = "marker" => threads[k][i] \notin context[k]
=============================================================================
