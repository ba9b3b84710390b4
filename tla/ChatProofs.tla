----------------------------- MODULE ChatProofs -----------------------------
(***************************************************************************)
(* Proofs about Chat, for any Domias and any number of messages.           *)
(*                                                                         *)
(* ChatInv is inductive: that the reply of a stopped turn can only find it *)
(* among the cancelled ones (OneLiveTurn) needs that a stream in progress  *)
(* is the one shown (StreamIsOwn), and both need the types.                *)
(***************************************************************************)
EXTENDS Chat, TLAPS

ChatInv == TypeOK /\ OneLiveTurn /\ StreamIsOwn

-----------------------------------------------------------------------------
(* Appending to a thread keeps the threads well typed. *)
LEMMA AppendedType ==
    ASSUME TypeOK, NEW key \in Domia, NEW item \in Turn \union {"history", "marker"}
    PROVE  /\ DOMAIN Appended(key, item) \subseteq Domia
           /\ \A k \in DOMAIN Appended(key, item) :
                Appended(key, item)[k] \in Seq(Turn \union {"history", "marker"})
<1> DEFINE I == Turn \union {"history", "marker"}
<1>1. Thread(key) \in Seq(I)
  BY DEF TypeOK, Thread
<1>2. Append(Thread(key), item) \in Seq(I)
  BY <1>1
<1> QED
  BY <1>2 DEF TypeOK, Appended

(* The chat opens with no turn under way. *)
LEMMA InitEstablishes == Init => ChatInv
<1> SUFFICES ASSUME Init PROVE ChatInv
  OBVIOUS
<1>1. DOMAIN threads = {}
  BY DEF Init
<1>2. TypeOK
  BY <1>1, ChatAssumption DEF Init, TypeOK, Idle, InFlight
<1>3. OneLiveTurn /\ StreamIsOwn
  BY ChatAssumption DEF Init, OneLiveTurn, StreamIsOwn, Idle, InFlight
<1> QED
  BY <1>2, <1>3 DEF ChatInv

(* The types, one action after the other. *)
LEMMA TypesPreserved == TypeOK /\ [Next]_vars => TypeOK'
<1> SUFFICES ASSUME TypeOK, [Next]_vars PROVE TypeOK'
  OBVIOUS
<1> USE ChatAssumption
<1>1. ASSUME NEW key \in Domia, Select(key) PROVE TypeOK'
  BY <1>1 DEF Select, TypeOK, mesh
<1>2. CASE LoadHistory
  <2>1. selected \in Domia
    BY DEF TypeOK
  <2> QED
    BY <1>2, <2>1, AppendedType DEF LoadHistory, TypeOK, mesh
<1>3. CASE CancelStream
  BY <1>3 DEF CancelStream, TypeOK, mesh, Idle, InFlight
<1>4. CASE CancelSend
  BY <1>4 DEF CancelSend, TypeOK, mesh
<1>5. CASE Leave
  BY <1>5 DEF Leave, TypeOK, view, mesh, Request, InFlight
<1>6. CASE StartReset
  BY <1>6 DEF StartReset, TypeOK, view, mesh
<1>7. CASE NodeResets
  BY <1>7 DEF NodeResets, TypeOK, view
<1>8. CASE ResetDone
  <2>1. selected \in Domia
    BY DEF TypeOK
  <2> QED
    BY <1>8, <2>1, AppendedType DEF ResetDone, TypeOK, mesh
<1>9. CASE ResetFails
  BY <1>9 DEF ResetFails, TypeOK, view, mesh
<1>10. ASSUME NEW t \in Turn, SendPlain(t) \/ SendStreamed(t) PROVE TypeOK'
  <2>1. selected \in Domia
    BY DEF TypeOK
  <2>2. CASE SendPlain(t)
    BY <1>10, <2>1, <2>2, AppendedType
    DEF SendPlain, Written, Post, TypeOK, Request, InFlight
  <2>3. CASE SendStreamed(t)
    BY <1>10, <2>1, <2>3, AppendedType
    DEF SendStreamed, Written, TypeOK, Request, InFlight
  <2> QED
    BY <1>10, <2>2, <2>3
<1>11. ASSUME NEW t \in Turn, Frame(t) \/ FallBack(t) PROVE TypeOK'
  <2>1. CASE Frame(t)
    <3>1. stream' = [status |-> stream.status, of |-> stream.of \union {t}]
      BY <2>1 DEF Frame, TypeOK
    <3> QED
      BY <2>1, <3>1, <1>11 DEF Frame, TypeOK, mesh, InFlight
  <2>2. CASE FallBack(t)
    <3>1. <<t, "plain">> \in Request
      BY <1>11 DEF Request
    <3> QED
      BY <2>2, <3>1, <1>11 DEF FallBack, Post, TypeOK, Idle, InFlight
  <2> QED
    BY <1>11, <2>1, <2>2
<1>12. ASSUME NEW t \in Turn, SendThrows(t) \/ ReturnsToNobody(t) PROVE TypeOK'
  BY <1>12 DEF SendThrows, ReturnsToNobody, TypeOK, view, mesh, InFlight
<1>13. ASSUME NEW t \in Turn, NEW how \in {"answered", "failed"},
              StreamEnds(t, how) \/ SendReturns(t, how) \/ CancelledReturns(t, how)
       PROVE  TypeOK'
  <2>1. CASE StreamEnds(t, how)
    BY <1>13, <2>1 DEF StreamEnds, TypeOK, mesh, Idle, InFlight
  <2>2. CASE SendReturns(t, how)
    BY <1>13, <2>2 DEF SendReturns, TypeOK, mesh, InFlight
  <2>3. CASE CancelledReturns(t, how)
    BY <1>13, <2>3 DEF CancelledReturns, TypeOK, view, mesh, InFlight
  <2> QED
    BY <1>13, <2>1, <2>2, <2>3
<1>14. ASSUME NEW r \in Request, NodeAccepts(r) \/ LoseRequest(r) PROVE TypeOK'
  <2>1. r[1] \in Turn
    BY <1>14 DEF Request
  <2> QED
    BY <1>14, <2>1 DEF NodeAccepts, LoseRequest, TypeOK, view
<1>15. CASE UNCHANGED vars
  BY <1>15 DEF vars, view, mesh, TypeOK
<1> QED
  BY <1>1, <1>2, <1>3, <1>4, <1>5, <1>6, <1>7, <1>8, <1>9, <1>10, <1>11, <1>12,
     <1>13, <1>14, <1>15 DEF Next

(* One live turn, and the stream state its own. *)
LEMMA LivePreserved == ChatInv /\ [Next]_vars => (OneLiveTurn /\ StreamIsOwn)'
<1> SUFFICES ASSUME ChatInv, [Next]_vars PROVE (OneLiveTurn /\ StreamIsOwn)'
  OBVIOUS
<1> USE ChatAssumption DEF ChatInv
<1> DEFINE Same == UNCHANGED <<here, pending, active, turn, job, cancelled,
                               streamingId, stream>>
<1>1. ASSUME Same PROVE (OneLiveTurn /\ StreamIsOwn)'
  BY <1>1 DEF OneLiveTurn, StreamIsOwn
<1>2. CASE CancelStream
  BY <1>2 DEF CancelStream, TypeOK, OneLiveTurn, StreamIsOwn, Idle, InFlight
<1>3. CASE CancelSend
  BY <1>3 DEF CancelSend, TypeOK, OneLiveTurn, StreamIsOwn, InFlight
<1>4. CASE Leave
  BY <1>4 DEF Leave, OneLiveTurn, StreamIsOwn
<1>5. ASSUME NEW t \in Turn, SendPlain(t) \/ SendStreamed(t)
      PROVE  (OneLiveTurn /\ StreamIsOwn)'
  <2>1. active = None /\ streamingId = None /\ stream.of = {} /\ stream.status = "idle"
    BY <1>5 DEF SendPlain, SendStreamed, Written, OneLiveTurn, StreamIsOwn, TypeOK
  <2>2. CASE SendPlain(t)
    BY <1>5, <2>1, <2>2
    DEF SendPlain, Written, Post, TypeOK, OneLiveTurn, StreamIsOwn, InFlight
  <2>3. CASE SendStreamed(t)
    BY <1>5, <2>1, <2>3
    DEF SendStreamed, Written, TypeOK, OneLiveTurn, StreamIsOwn, InFlight
  <2> QED
    BY <1>5, <2>2, <2>3
<1>6. ASSUME NEW t \in Turn, Frame(t) PROVE (OneLiveTurn /\ StreamIsOwn)'
  BY <1>6 DEF Frame, TypeOK, OneLiveTurn, StreamIsOwn, InFlight
<1>7. ASSUME NEW t \in Turn, FallBack(t) PROVE (OneLiveTurn /\ StreamIsOwn)'
  BY <1>7 DEF FallBack, Post, TypeOK, OneLiveTurn, StreamIsOwn, Idle, InFlight
<1>8. ASSUME NEW t \in Turn, SendThrows(t) \/ ReturnsToNobody(t)
      PROVE  (OneLiveTurn /\ StreamIsOwn)'
  BY <1>8 DEF SendThrows, ReturnsToNobody, view, TypeOK, OneLiveTurn, StreamIsOwn, InFlight
<1>9. ASSUME NEW t \in Turn, NEW how \in {"answered", "failed"}, StreamEnds(t, how)
      PROVE  (OneLiveTurn /\ StreamIsOwn)'
  BY <1>9 DEF StreamEnds, TypeOK, OneLiveTurn, StreamIsOwn, Idle, InFlight
<1>10. ASSUME NEW t \in Turn, NEW how \in {"answered", "failed"},
              SendReturns(t, how) \/ CancelledReturns(t, how)
       PROVE  (OneLiveTurn /\ StreamIsOwn)'
  BY <1>10 DEF SendReturns, CancelledReturns, CanReturn, view, TypeOK, OneLiveTurn,
               StreamIsOwn, InFlight
<1>11. ASSUME \/ \E key \in Domia : Select(key)
              \/ LoadHistory \/ StartReset \/ NodeResets \/ ResetDone \/ ResetFails
              \/ \E r \in Request : NodeAccepts(r) \/ LoseRequest(r)
              \/ UNCHANGED vars
       PROVE  Same
  BY <1>11 DEF Select, LoadHistory, StartReset, NodeResets, ResetDone, ResetFails,
               NodeAccepts, LoseRequest, vars, view
<1> QED
  BY <1>1, <1>2, <1>3, <1>4, <1>5, <1>6, <1>7, <1>8, <1>9, <1>10, <1>11 DEF Next

-----------------------------------------------------------------------------
(* The chat keeps its types, has at most one live turn and never mixes     *)
(* streams, whatever is sent, stopped, reset, lost or late.                *)
THEOREM ChatInvariant == Spec => []ChatInv
<1>1. ChatInv /\ [Next]_vars => ChatInv'
  BY TypesPreserved, LivePreserved DEF ChatInv
<1> QED
  BY InitEstablishes, <1>1, PTL DEF Spec

(* Every variable of the chat tester stays in its domain. *)
THEOREM ChatTypeCorrect == Spec => []TypeOK
BY ChatInvariant, PTL DEF ChatInv

(* chat-console.tsx: pending, activeRef and cancelledRef agree on which    *)
(* turn is live.                                                           *)
THEOREM AtMostOneLiveTurn == Spec => []OneLiveTurn
BY ChatInvariant, PTL DEF ChatInv

(* use-chat-stream.ts: the shared state shows one turn's frames only. *)
THEOREM StreamsDoNotMix == Spec => []StreamIsOwn
BY ChatInvariant, PTL DEF ChatInv

(* chat-console.tsx: a reply that comes after Stop changes nothing. *)
THEOREM SettledTurnsStay == Spec => SettledIsFinal
<1> DEFINE Stays == \A t \in Turn : turn[t] \notin {"unsent", "pending"} => turn'[t] = turn[t]
<1>1. ChatInv /\ [Next]_vars => [Stays]_vars
  <2> SUFFICES ASSUME ChatInv, Next PROVE Stays
    OBVIOUS
  <2> USE DEF ChatInv
  <2>1. CASE UNCHANGED turn
    BY <2>1
  <2>2. CASE CancelStream \/ CancelSend
    BY <2>2 DEF CancelStream, CancelSend, OneLiveTurn, TypeOK
  <2>3. ASSUME NEW t \in Turn, SendPlain(t) \/ SendStreamed(t) PROVE Stays
    BY <2>3 DEF SendPlain, SendStreamed, Written, TypeOK
  <2>4. ASSUME NEW t \in Turn, NEW how \in {"answered", "failed"},
               StreamEnds(t, how) \/ SendReturns(t, how)
        PROVE  Stays
    <3>1. t = active
      BY <2>4 DEF StreamEnds, SendReturns, CanReturn, OneLiveTurn
    <3>2. turn[t] = "pending"
      BY <2>4, <3>1 DEF StreamEnds, SendReturns, OneLiveTurn
    <3> QED
      BY <2>4, <3>2 DEF StreamEnds, SendReturns, TypeOK
  <2>5. \/ UNCHANGED turn
        \/ CancelStream \/ CancelSend
        \/ \E t \in Turn : \/ SendPlain(t) \/ SendStreamed(t)
                           \/ \E how \in {"answered", "failed"} :
                                StreamEnds(t, how) \/ SendReturns(t, how)
    BY DEF Next, Select, LoadHistory, Leave, StartReset, NodeResets, ResetDone, ResetFails,
           Frame, FallBack, SendThrows, ReturnsToNobody, CancelledReturns, NodeAccepts,
           LoseRequest, view
  <2> QED
    BY <2>1, <2>2, <2>3, <2>4, <2>5
<1> QED
  BY ChatInvariant, <1>1, PTL DEF Spec, SettledIsFinal

(* Appending keeps every thread, and every turn of it in its place. *)
LEMMA AppendedGrows ==
    ASSUME TypeOK, NEW key \in Domia, NEW item \in Turn \union {"history", "marker"},
           NEW k \in DOMAIN threads
    PROVE  /\ k \in DOMAIN Appended(key, item)
           /\ Len(Appended(key, item)[k]) >= Len(threads[k])
           /\ \A i \in DOMAIN threads[k] : Appended(key, item)[k][i] = threads[k][i]
<1> DEFINE grown == Append(threads[k], item)
<1>1. threads[k] \in Seq(Turn \union {"history", "marker"})
  BY DEF TypeOK
<1>2. /\ Len(grown) = Len(threads[k]) + 1 /\ Len(threads[k]) \in Nat
      /\ \A i \in DOMAIN threads[k] : grown[i] = threads[k][i]
  <2>1. ASSUME NEW s \in Seq(Turn \union {"history", "marker"})
        PROVE  /\ Len(Append(s, item)) = Len(s) + 1 /\ Len(s) \in Nat
               /\ \A i \in DOMAIN s : Append(s, item)[i] = s[i]
    OBVIOUS
  <2> QED
    BY <1>1, <2>1
<1>3. Appended(key, item)[k] = IF k = key THEN grown ELSE threads[k]
  BY DEF Appended, Thread
<1>4. k \in DOMAIN Appended(key, item)
  BY DEF Appended
<1> HIDE DEF grown
<1> QED
  BY <1>2, <1>3, <1>4

(* chat-console.tsx: every update of the threads appends to one of them,   *)
(* so that what was written stays where it was.                            *)
THEOREM ThreadsGrow == Spec => ThreadsOnlyGrow
<1> DEFINE Kept(k) == /\ k \in DOMAIN threads'
                      /\ Len(threads'[k]) >= Len(threads[k])
                      /\ \A i \in DOMAIN threads[k] : threads'[k][i] = threads[k][i]
           Grows == \A k \in DOMAIN threads : Kept(k)
<1>1. TypeOK /\ [Next]_vars => [Grows]_vars
  <2> SUFFICES ASSUME TypeOK, Next PROVE Grows
    OBVIOUS
  <2>1. CASE UNCHANGED threads
    <3> SUFFICES ASSUME NEW k \in DOMAIN threads PROVE Kept(k)
      OBVIOUS
    <3>1. Len(threads[k]) \in Nat
      BY DEF TypeOK
    <3> QED
      BY <2>1, <3>1
  <2>2. ASSUME NEW item \in Turn \union {"history", "marker"},
               threads' = Appended(selected, item)
        PROVE  Grows
    BY <2>2, AppendedGrows DEF TypeOK
  <2>3. \/ UNCHANGED threads
        \/ threads' = Appended(selected, "history")
        \/ threads' = Appended(selected, "marker")
        \/ \E t \in Turn : threads' = Appended(selected, t)
    BY DEF Next, Select, LoadHistory, CancelStream, CancelSend, Leave, StartReset,
           NodeResets, ResetDone, ResetFails, SendPlain, SendStreamed, Written, Frame,
           FallBack, SendThrows, ReturnsToNobody, StreamEnds, SendReturns,
           CancelledReturns, NodeAccepts, LoseRequest, view
  <2> QED
    BY <2>1, <2>2, <2>3
<1> QED
  BY ChatTypeCorrect, <1>1, PTL DEF Spec, ThreadsOnlyGrow
=============================================================================
