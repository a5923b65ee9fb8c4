------------------------------ MODULE MC_Server ------------------------------
EXTENDS Server

MCHostFamily == [h \in Hosts |-> "v4"]
OwnNames == [h \in Hosts |-> h]
=============================================================================
