---------------------------- MODULE MCBlacklist ----------------------------
(* Symmetry for the runs of Blacklist: no address, position or forwarding *)
(* core is special.                                                       *)
EXTENDS Blacklist, TLC

Symmetry == Permutations(Ips) \cup Permutations(Positions) \cup Permutations(Lcores)
=============================================================================
