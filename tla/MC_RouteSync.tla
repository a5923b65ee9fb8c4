---------------------------- MODULE MC_RouteSync ----------------------------
EXTENDS RouteSync, TLC

MCFamilyOf == [r \in Routes |-> "v4"]

(* The goroutines of the server are alike.                                 *)
MCSymmetry == Permutations(Changers)
=============================================================================
