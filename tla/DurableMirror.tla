--------------------------- MODULE DurableMirror ----------------------------
(***************************************************************************)
(* What the archive promises of the history of a Domia, whatever the       *)
(* protocol that fills it: it holds only rows the Domia recorded, it never *)
(* forgets one while it exists, and the number of rows of a stream it has  *)
(* acknowledged, which only grows, counts rows that it holds.  Deleted, it *)
(* starts again from nothing.                                              *)
(***************************************************************************)
EXTENDS Naturals

CONSTANT Stream

VARIABLES
    recorded,      \* rows the Domia has recorded in every stream
    mirror,        \* the rows of every stream the archive holds
    acknowledged   \* the rows of every stream that will not be asked for again

vars == <<recorded, mirror, acknowledged>>

Init ==
    /\ recorded = [s \in Stream |-> 0]
    /\ mirror = [s \in Stream |-> {}]
    /\ acknowledged = [s \in Stream |-> 0]

Record(s) ==
    /\ recorded' = [recorded EXCEPT ![s] = @ + 1]
    /\ UNCHANGED <<mirror, acknowledged>>

\* Some recorded rows are copied.
Copy ==
    /\ mirror' \in [Stream -> SUBSET Nat]
    /\ \A s \in Stream : mirror[s] \subseteq mirror'[s]
    /\ \A s \in Stream : mirror'[s] \subseteq 1 .. recorded[s]
    /\ UNCHANGED <<recorded, acknowledged>>

\* Rows the archive holds are acknowledged, never fewer than before.
Acknowledge ==
    /\ acknowledged' \in [Stream -> Nat]
    /\ \A s \in Stream : acknowledged'[s] >= acknowledged[s]
    /\ \A s \in Stream : 1 .. acknowledged'[s] \subseteq mirror[s]
    /\ UNCHANGED <<recorded, mirror>>

Delete ==
    /\ mirror' = [s \in Stream |-> {}]
    /\ acknowledged' = [s \in Stream |-> 0]
    /\ UNCHANGED recorded

Next ==
    \/ \E s \in Stream : Record(s)
    \/ Copy
    \/ Acknowledge
    \/ Delete

Spec == Init /\ [][Next]_vars
=============================================================================
