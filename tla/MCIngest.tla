------------------------------ MODULE MCIngest ------------------------------
(***************************************************************************)
(* Instances of Ingest for TLC.                                            *)
(***************************************************************************)
EXTENDS Ingest, TLC

\* Two rows of each stream that heartbeats announce.
MCFewRows == [s \in Stream |-> IF s \in Slow THEN 1 ELSE 2]

\* The instance of the liveness properties: a page of three holds any tie of two.
MCTiedRows == [s \in Stream |-> IF s = Interaction THEN 3 ELSE 1]

RunSymmetry == Permutations(Run)
=============================================================================
