--------------------------- MODULE MC_IcmpMonitor ---------------------------
(* Two callers of Stop, linkDown and Server.Stop, and up to two bursts     *)
(* that could not open their socket.                                       *)
EXTENDS IcmpMonitor
=============================================================================
