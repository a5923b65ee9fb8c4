--------------------------- MODULE MC_LinkServer ---------------------------
EXTENDS LinkServer

MCHostFamily ==
    [h \in Hosts |-> IF h \in {"sixA", "sixB"} THEN "v6" ELSE "v4"]
SharedName == [h \in Hosts |-> "Cloudflare"]
OwnNames == [h \in Hosts |-> h]
=============================================================================
