------------------------------ MODULE LivekitLab -----------------------------
(***************************************************************************)
(* The LiveKit voice lab: one picks a Domia and one of its LiveKit         *)
(* satellites, and joins the room with the microphone.                     *)
(*                                                                         *)
(* A join waits for a token, for the room and for the microphone.  One ref *)
(* holds the room that Disconnect, another Domia or leaving the page       *)
(* leave.  The calls of a room that was left reject, and a room tells when *)
(* it is disconnected.                                                     *)
(***************************************************************************)
EXTENDS Naturals

CONSTANTS
    LabDomia,
    Join    \* clicks on "Connect"

VARIABLES
    onLab,    \* the page is mounted
    picked,   \* selectedKey
    chosen,   \* a satellite of it is chosen
    state,    \* status
    step,     \* how far a join is
    of,       \* the Domia a join is for
    rooms,    \* joins whose room is, or is being, connected
    open,     \* joins whose microphone is on
    ref,      \* roomRef
    leaving,  \* joins whose room has yet to tell that it is disconnected
    strayed   \* history: joins that Disconnect cannot reach, or would not have

labVars == <<onLab, picked, chosen, state, step, of, rooms, open, ref, leaving, strayed>>
LabRests == UNCHANGED labVars

-----------------------------------------------------------------------------
LabWaiting == {j \in Join : step[j] \in {"token", "joining", "mic"}}

LabTypeOK ==
    /\ onLab \in BOOLEAN /\ picked \in LabDomia /\ chosen \in BOOLEAN
    /\ state \in {"idle", "connecting", "connected", "error"}
    /\ step \in [Join -> {"none", "token", "joining", "mic", "joined", "left", "over"}]
    /\ of \in [Join -> LabDomia]
    /\ open \subseteq rooms /\ rooms \subseteq Join
    /\ ref \subseteq Join /\ \A i, j \in ref : i = j
    /\ leaving \subseteq Join /\ strayed \subseteq Join

LabInit ==
    /\ onLab = TRUE /\ picked \in LabDomia /\ chosen = FALSE /\ state = "idle"
    /\ step = [j \in Join |-> "none"] /\ of = [j \in Join |-> picked]
    /\ rooms = {} /\ open = {} /\ ref = {} /\ leaving = {} /\ strayed = {}

LabShows(s) == state' = IF onLab THEN s ELSE state

ChooseSatellite ==
    /\ onLab /\ ~chosen /\ chosen' = TRUE
    /\ UNCHANGED <<onLab, picked, state, step, of, rooms, open, ref, leaving, strayed>>

(* "Connect" asks for a token. *)
LabConnect(j) ==
    /\ onLab /\ chosen /\ state \notin {"connecting", "connected"} /\ step[j] = "none"
    /\ step' = [step EXCEPT ![j] = "token"] /\ of' = [of EXCEPT ![j] = picked]
    /\ state' = "connecting"
    /\ UNCHANGED <<onLab, picked, chosen, rooms, open, ref, leaving, strayed>>

\* Mutant: the room is not kept in the ref.
LabTokenGranted_NoRef(j) ==
    /\ step[j] = "token"
    /\ step' = [step EXCEPT ![j] = "joining"]
    /\ rooms' = rooms \union {j}
    /\ UNCHANGED <<onLab, picked, chosen, state, of, open, ref, leaving, strayed>>

(* joinRoom, also when the page was left or shows another Domia by now.    *)
(* The room the ref held before is not left.                               *)
LabTokenGranted(j) ==
    /\ step[j] = "token"
    /\ step' = [step EXCEPT ![j] = "joining"]
    /\ rooms' = rooms \union {j} /\ ref' = {j}
    /\ strayed' = strayed \union (ref \cap rooms)
    /\ UNCHANGED <<onLab, picked, chosen, state, of, open, leaving>>

(* An error is shown, also over the room of another join. *)
LabTokenRefused(j) ==
    /\ step[j] = "token"
    /\ step' = [step EXCEPT ![j] = "over"]
    /\ LabShows("error")
    /\ strayed' = strayed \union open
    /\ UNCHANGED <<onLab, picked, chosen, of, rooms, open, ref, leaving>>

RoomJoined(j) ==
    /\ step[j] = "joining" /\ step' = [step EXCEPT ![j] = "mic"]
    /\ UNCHANGED <<onLab, picked, chosen, state, of, rooms, open, ref, leaving, strayed>>

MicrophoneOn(j) ==
    /\ step[j] = "mic" /\ step' = [step EXCEPT ![j] = "joined"]
    /\ open' = open \union {j}
    /\ LabShows("connected")
    /\ UNCHANGED <<onLab, picked, chosen, of, rooms, ref, leaving, strayed>>

(* The catch of joinRoom: the ref is dropped, whichever room it holds, and *)
(* a room that was joined without the microphone stays connected.          *)
JoinFails(j) ==
    /\ step[j] \in {"joining", "mic", "left"}
    /\ step' = [step EXCEPT ![j] = "over"]
    /\ rooms' = IF step[j] = "mic" THEN rooms ELSE rooms \ {j}
    /\ ref' = {}
    /\ strayed' = strayed \union (ref \cap rooms')
    /\ LabShows("error")
    /\ UNCHANGED <<onLab, picked, chosen, of, open, leaving>>

(* room.disconnect(): its pending calls reject; a joined room tells later. *)
LeaveRoom ==
    /\ rooms' = rooms \ ref /\ open' = open \ ref
    /\ step' = [j \in Join |->
          IF j \in ref /\ step[j] \in {"joining", "mic"} THEN "left"
          ELSE IF j \in ref /\ step[j] = "joined" THEN "over" ELSE step[j]]
    /\ leaving' = leaving \union (ref \cap rooms)

\* Mutant: the room is forgotten and not left.
LabDisconnect_KeepsRoom ==
    /\ onLab /\ state = "connected"
    /\ ref' = {} /\ state' = "idle"
    /\ UNCHANGED <<onLab, picked, chosen, step, of, rooms, open, leaving, strayed>>

LabDisconnect ==
    /\ onLab /\ state = "connected"
    /\ LeaveRoom /\ ref' = {} /\ state' = "idle"
    /\ UNCHANGED <<onLab, picked, chosen, of, strayed>>

\* Mutant: the effect forgets the satellite only.
PickDomia_StaysIn(d) ==
    /\ onLab /\ d # picked
    /\ picked' = d /\ chosen' = FALSE /\ state' = "idle"
    /\ strayed' = strayed \union LabWaiting
    /\ UNCHANGED <<onLab, step, of, rooms, open, ref, leaving>>

(* The effect on selectedKey; a join that still waits for its token goes on. *)
PickDomia(d) ==
    /\ onLab /\ d # picked
    /\ picked' = d /\ chosen' = FALSE
    /\ LeaveRoom /\ ref' = {} /\ state' = "idle"
    /\ strayed' = strayed \union LabWaiting
    /\ UNCHANGED <<onLab, of>>

LeaveLab ==
    /\ onLab /\ onLab' = FALSE
    /\ LeaveRoom
    /\ strayed' = strayed \union LabWaiting
    /\ UNCHANGED <<picked, chosen, state, of, ref>>

\* Mutant: the microphone is not taken for off.
RoomDrops_KeepsMic(j) ==
    /\ j \in rooms /\ step[j] \in {"joined", "over"}
    /\ rooms' = rooms \ {j}
    /\ step' = [step EXCEPT ![j] = "over"]
    /\ leaving' = leaving \union {j}
    /\ UNCHANGED <<onLab, picked, chosen, state, of, open, ref, strayed>>

(* The server closes a room, or the connection is lost. *)
RoomDrops(j) ==
    /\ j \in rooms /\ step[j] \in {"joined", "over"}
    /\ rooms' = rooms \ {j} /\ open' = open \ {j}
    /\ step' = [step EXCEPT ![j] = "over"]
    /\ leaving' = leaving \union {j}
    /\ UNCHANGED <<onLab, picked, chosen, state, of, ref, strayed>>

\* Mutant: the handler only logs.
RoomDisconnected_Silent(j) ==
    /\ j \in leaving /\ leaving' = leaving \ {j}
    /\ UNCHANGED <<onLab, picked, chosen, state, step, of, rooms, open, ref, strayed>>

(* RoomEvent.Disconnected, of whichever room. *)
RoomDisconnected(j) ==
    /\ j \in leaving /\ leaving' = leaving \ {j}
    /\ LabShows("idle")
    /\ strayed' = strayed \union rooms \union LabWaiting
    /\ UNCHANGED <<onLab, picked, chosen, step, of, rooms, open, ref>>

LabNext ==
    \/ ChooseSatellite \/ LabDisconnect \/ LeaveLab
    \/ \E d \in LabDomia : PickDomia(d)
    \/ \E j \in Join :
          \/ LabConnect(j) \/ LabTokenGranted(j) \/ LabTokenRefused(j)
          \/ RoomJoined(j) \/ MicrophoneOn(j) \/ JoinFails(j)
          \/ RoomDrops(j) \/ RoomDisconnected(j)

LabSpec == LabInit /\ [][LabNext]_labVars

-----------------------------------------------------------------------------
(* A room one is in, and its microphone, is one that Disconnect, another   *)
(* Domia or leaving the page leaves: it is in the ref, and on the page     *)
(* while that shows the Domia it is of.  The exceptions: a join under way  *)
(* when another Domia was picked or the page left, a room the ref lost to  *)
(* another or to a failure, and a room or join the end of another hid.     *)
RoomsAreHeld ==
    \A j \in rooms \ strayed : j \in ref /\ onLab /\ of[j] = picked

(* "Disconnect" is offered exactly while one is in a room with the         *)
(* microphone on, or that room has just gone; unless a join has strayed.   *)
DisconnectIsOffered ==
    onLab =>
        /\ state = "connected" /\ strayed = {} => ref \cap (open \union leaving) # {}
        /\ open \ strayed # {} => state = "connected"
=============================================================================
