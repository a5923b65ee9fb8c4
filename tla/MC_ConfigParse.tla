-------------------------- MODULE MC_ConfigParse ---------------------------
EXTENDS ConfigParse

MCFamilyOf == [a \in Addresses |-> IF a = "sixA" THEN "v6" ELSE "v4"]

(* At the bounds, and one past them; 65534 is what fails another route.    *)
MCTables == {Unset, 0, 254, 300, 301}
MCMetrics == {Unset, 0, 1, 32764, 65534}
MCMinimums == {Unset, 0, 1, 2, 3}
=============================================================================
