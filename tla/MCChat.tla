------------------------------- MODULE MCChat -------------------------------
(***************************************************************************)
(* Chat with a few Domias and messages.                                    *)
(***************************************************************************)
EXTENDS Chat, TLC

Symmetry == Permutations(Domia) \union Permutations(Turn)
=============================================================================
