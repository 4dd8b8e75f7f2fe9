--------------------------- MODULE MCDdosTracker ---------------------------
(* Values for the constants of DdosTracker.                               *)
EXTENDS DdosTracker, TLC

MCThreshold == [x \in Kinds |-> 1]

Symmetry == Permutations(Ips) \cup Permutations(Lcores) \cup Permutations(Kinds)
=============================================================================
