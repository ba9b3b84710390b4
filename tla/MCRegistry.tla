----------------------------- MODULE MCRegistry -----------------------------
(***************************************************************************)
(* Registry on small fleets, in the scenarios each run is about.           *)
(***************************************************************************)
EXTENDS Registry, TLC

Scenario(kinds, n) == [kinds |-> kinds, left |-> n]

\* The fleet changes under one round, under two that overlap, and while a node
\* is added by its address; nodes list the Domias of others; heartbeats leave out
\* which node they are of.
SafetyPlans == {Scenario({"move", "power", "configure", "crash", "reconcile"}, 2),
                Scenario({"move", "reconcile", "overlap"}, 1),
                Scenario({"add", "power", "reconcile"}, 2),
                Scenario({"mesh", "peer", "power", "reconcile"}, 2),
                Scenario({"mesh", "move", "reconcile"}, 1),
                Scenario({"bare", "add"}, 1),
                Scenario({"bare", "reconcile"}, 0)}

\* Domias move and the collector dies; a node takes over the address of another
\* one, which goes on elsewhere; a node is added while Domias move, or are
\* configured.
ShownPlans == {Scenario({"move", "crash", "reconcile"}, 2),
               Scenario({"readdress", "power", "reconcile"}, 3),
               Scenario({"move", "add"}, 2),
               Scenario({"configure", "add"}, 2)}

\* Domias move between nodes that list only their own, or that list everybody and
\* forget who has gone.
RetiredPlans == {Scenario({"move", "reconcile"}, 2),
                 Scenario({"mesh", "peer", "move", "reconcile"}, 2)}

ReportPlans == {Scenario({"add", "configure", "reconcile"}, 2)}

Symmetry == Permutations(Domia) \union Permutations(Job)
=============================================================================
