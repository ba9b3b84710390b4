---------------------------- MODULE SatelliteBind ----------------------------
(***************************************************************************)
(* Binding satellites to the rooms of a node (satellites-panel.tsx): after *)
(* a bind the panel waits until the device is online, or says that it does *)
(* not respond.                                                            *)
(*                                                                         *)
(* Each room polls its satellites and runs an effect when the answer       *)
(* differs from the one before (equal answers are one object), or when the *)
(* panel itself is drawn anew.  A list that could not be had shows no      *)
(* device, whatever was there before.  The panel waits for one device at a *)
(* time; each room keeps its deadline in a ref.                            *)
(***************************************************************************)
EXTENDS Naturals

CONSTANTS
    Room,     \* the identities the node hosts
    Device,
    Patience, \* BIND_CONFIRM_MS, in units of time
    MaxTime   \* bound: the clock stops

VARIABLES
    clock,
    device,   \* the room a device is bound to, and whether it is online
    sats,     \* what each room's query shows of its devices: nothing is
              \* known of them when the list could not be had
    pending,  \* what the panel waits for
    deadline, \* deadlineRef of each room
    since,    \* history: when the device waited for was bound
    rushed    \* history: it was bound while its room waited for another

bindVars == <<clock, device, sats, pending, deadline, since, rushed>>
Rests == UNCHANGED bindVars

-----------------------------------------------------------------------------
Unbound == [room |-> {}, online |-> FALSE]

BindTypeOK ==
    /\ clock \in 0 .. MaxTime
    /\ device \in [Device -> [room : SUBSET Room, online : BOOLEAN]]
    /\ sats \in [Room -> [Device -> {"absent", "offline", "online", "unknown"}]]
    /\ pending \in SUBSET (Room \X Device)
    /\ \A p, q \in pending : p = q
    /\ deadline \in [Room -> SUBSET (0 .. MaxTime + Patience)]
    /\ \A r \in Room : deadline[r] # {} => \E d \in Device : <<r, d>> \in pending
    /\ since \in 0 .. clock /\ rushed \in BOOLEAN

Init ==
    /\ clock = 0
    /\ device = [d \in Device |-> Unbound]
    /\ sats = [r \in Room |-> [d \in Device |-> "absent"]]
    /\ pending = {}
    /\ deadline = [r \in Room |-> {}]
    /\ since = 0 /\ rushed = FALSE

-----------------------------------------------------------------------------
\* Mutant: the deadline is counted from zero.
Due_FromZero(r) == IF deadline[r] = {} THEN {Patience} ELSE deadline[r]

(* The deadline of a room that waits: set once, at the first effect. *)
Due(r) == IF deadline[r] = {} THEN {clock + Patience} ELSE deadline[r]

(* The effect of a room that waits for device d, with s as its satellites, *)
(* shows a message and waits no more.                                      *)
Resolves(r, d, s) == s[d] = "online" \/ \E t \in Due(r) : clock > t

\* Mutant: the deadline outlives the wait.
Effects_KeepDeadline(p, s) ==
    LET w == {q \in p : ~Resolves(q[1], q[2], s[q[1]])} IN
    /\ pending' = w
    /\ deadline' = [r \in Room |-> IF \E q \in p : q[1] = r THEN Due(r) ELSE deadline[r]]

(* The effects of the panel drawn anew with p as pending and s as sats; a  *)
(* room that does not wait, or no longer, has no deadline.                 *)
Effects(p, s) ==
    LET w == {q \in p : ~Resolves(q[1], q[2], s[q[1]])} IN
    /\ pending' = w
    /\ deadline' = [r \in Room |-> IF \E q \in w : q[1] = r THEN Due(r) ELSE {}]

(* What listSatellites answers: the devices bound to the room, all of them *)
(* offline when the presence of the node cannot be read.                   *)
Answer(r, presence) ==
    [d \in Device |-> IF r \notin device[d].room THEN "absent"
                      ELSE IF presence /\ device[d].online THEN "online" ELSE "offline"]

\* Mutant: the effect does not run when the satellites change.
Poll_NoEffect(r, presence) ==
    /\ sats' = [sats EXCEPT ![r] = Answer(r, presence)]
    /\ UNCHANGED <<clock, device, pending, deadline, since, rushed>>

(* The query of a room answers; an equal answer changes and runs nothing. *)
Poll(r, presence) ==
    /\ Answer(r, presence) # sats[r]
    /\ sats' = [sats EXCEPT ![r] = Answer(r, presence)]
    /\ IF \E d \in Device : <<r, d>> \in pending
       THEN Effects(pending, sats')
       ELSE UNCHANGED <<pending, deadline>>
    /\ UNCHANGED <<clock, device, since, rushed>>

(* The list cannot be had, and listSatellites says so: the answer is a new *)
(* one, after a list or after another error, and the room without devices  *)
(* runs its effect.                                                        *)
PollFails(r) ==
    /\ \E d \in Device : sats[r][d] # "unknown" \/ <<r, d>> \in pending
    /\ sats' = [sats EXCEPT ![r] = [d \in Device |-> "unknown"]]
    /\ IF \E d \in Device : <<r, d>> \in pending
       THEN Effects(pending, sats')
       ELSE UNCHANGED <<pending, deadline>>
    /\ UNCHANGED <<clock, device, since, rushed>>

(* The panel is drawn anew, by a scan or a dialog; of interest while it    *)
(* waits for a device.                                                     *)
Redraw ==
    /\ pending # {} /\ Effects(pending, sats)
    /\ UNCHANGED <<clock, device, sats, since, rushed>>

(* The dialog has bound a device: the panel waits for it, and for no other *)
(* any more.                                                               *)
Bind(r, d) ==
    /\ device[d].room = {}
    /\ device' = [device EXCEPT ![d] = [room |-> {r}, online |-> FALSE]]
    /\ since' = clock
    /\ rushed' = \E e \in Device : <<r, e>> \in pending
    /\ Effects({<<r, d>>}, sats)
    /\ UNCHANGED <<clock, sats>>

Unbind(d) ==
    /\ device[d].room # {} /\ device' = [device EXCEPT ![d] = Unbound]
    /\ UNCHANGED <<clock, sats, pending, deadline, since, rushed>>

(* A bound device connects to the node, or is lost. *)
Connects(d) ==
    /\ device[d].room # {}
    /\ device' = [device EXCEPT ![d].online = ~@]
    /\ UNCHANGED <<clock, sats, pending, deadline, since, rushed>>

Tick ==
    /\ clock < MaxTime /\ clock' = clock + 1
    /\ UNCHANGED <<device, sats, pending, deadline, since, rushed>>

Next ==
    \/ Tick \/ Redraw
    \/ \E r \in Room :
          \/ \E presence \in BOOLEAN : Poll(r, presence)
          \/ PollFails(r)
          \/ \E d \in Device : Bind(r, d)
    \/ \E d \in Device : Unbind(d) \/ Connects(d)

(* The queries poll every three seconds, and in the end the list is had    *)
(* and the presence read.                                                  *)
Fairness == \A r \in Room : WF_bindVars(Poll(r, TRUE))

Spec == Init /\ [][Next]_bindVars /\ Fairness

-----------------------------------------------------------------------------
(* A device is said not to respond only when the time for it has passed    *)
(* since it was bound; unless it was bound while its room waited for       *)
(* another: it then inherits the deadline of that one.                     *)
SilenceIsFair ==
    [][\A r \in Room, d \in Device :
         /\ pending = {<<r, d>>} /\ pending' = {} /\ device' = device
         /\ sats'[r][d] # "online"
         => rushed \/ clock > since + Patience]_bindVars

(* A device the panel waits for and that stays online is seen: the message *)
(* is shown, unless the panel goes on to wait for another.                 *)
HasConnected(r, d) ==
    <<r, d>> \in pending /\ device[d] = [room |-> {r}, online |-> TRUE]
ConnectedIsSeen(r, d) == HasConnected(r, d) ~> ~HasConnected(r, d)
=============================================================================
