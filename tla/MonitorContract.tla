--------------------------- MODULE MonitorContract ---------------------------
(***************************************************************************)
(* What the server relies on when it stops an ICMP monitor: once Stop has  *)
(* been called the monitor decides on no further callback, at most the one *)
(* already decided on still runs, and Stop returns only after it.          *)
(* HostSession!StopMonitor and LinkServer!StopMonitor take a monitor's     *)
(* Stop as one step; this is the contract that allows it.                  *)
(***************************************************************************)
VARIABLES
    phase,      \* the monitor's callback: none, decided on, running
    cancelled,  \* the monitor's context was cancelled
    returned    \* a call of Stop has returned

vars == <<phase, cancelled, returned>>

TypeOK ==
    /\ phase \in {"idle", "decided", "running"}
    /\ cancelled \in BOOLEAN
    /\ returned \in BOOLEAN

Init ==
    /\ phase = "idle"
    /\ cancelled = FALSE
    /\ returned = FALSE

(* A burst has ended and the context is still open.                        *)
Decide ==
    /\ phase = "idle"
    /\ ~cancelled
    /\ phase' = "decided"
    /\ UNCHANGED <<cancelled, returned>>

Begin ==
    /\ phase = "decided"
    /\ phase' = "running"
    /\ UNCHANGED <<cancelled, returned>>

End ==
    /\ phase = "running"
    /\ phase' = "idle"
    /\ UNCHANGED <<cancelled, returned>>

(* By Stop, or with the context of the server.                             *)
Cancel ==
    /\ cancelled' = TRUE
    /\ UNCHANGED <<phase, returned>>

Return ==
    /\ cancelled
    /\ phase = "idle"
    /\ returned' = TRUE
    /\ UNCHANGED <<phase, cancelled>>

Next ==
    \/ Decide
    \/ Begin
    \/ End
    \/ Cancel
    \/ Return

Spec == Init /\ [][Next]_vars
=============================================================================
