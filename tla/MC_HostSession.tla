--------------------------- MODULE MC_HostSession ---------------------------
(* Up to two hosts of each family.  With MinimumUp = 2 either host of a    *)
(* family can cross the minimum, and the edge of one can overtake the edge *)
(* of the other.                                                           *)
EXTENDS HostSession

MCFamilyOf ==
    [m \in Monitors |-> IF m \in {"sixA", "sixB"} THEN "v6" ELSE "v4"]
MCTotal ==
    [f \in {"v4", "v6"} |-> Cardinality({m \in Monitors : MCFamilyOf[m] = f})]
=============================================================================
