----------------------------- MODULE HostSession -----------------------------
(***************************************************************************)
(* The sessions of one interface: a session starts when its link comes up, *)
(* the monitors of a family are started once the interface has an address  *)
(* of that family, and the session ends when the link goes down.           *)
(*                                                                         *)
(* This is what the server is meant to do with an interface.  Here the     *)
(* goroutine that waits for addresses is between two of its rounds when    *)
(* the link goes down, and every monitor of a session has its own place in *)
(* the registry, so that linkDown stops all of them.  LinkServer has the   *)
(* goroutines and the registry of the code, and says when it implements    *)
(* this module.                                                            *)
(***************************************************************************)
EXTENDS NextHop, FiniteSets

ASSUME FiniteMonitorsAssumption == IsFiniteSet(Monitors)

HostsOf(f) == {m \in Monitors : FamilyOf[m] = f}

(* parseInterface counts the hosts of each family.                         *)
ASSUME TotalCountsHosts == \A f \in Families : Total[f] = Cardinality(HostsOf(f))

VARIABLES
    link,       \* where the link's goroutine is
    mon,        \* the monitors: not yet started, running, or stopped
    start,      \* the family whose monitors are being started, or "none"
    started     \* the families whose monitors have been started

sessionVars == <<link, mon, start, started>>

vars == <<hopVars, sessionVars>>

Links == {"up", "stopping", "zero4", "fail4", "zero6", "fail6", "down"}

(* No counter is ever below zero.                                          *)
TypeOK ==
    /\ HopTypeOK
    /\ upHosts \in [Families -> Nat]
    /\ link \in Links
    /\ mon \in [Monitors -> {"new", "running", "stopped"}]
    /\ start \in Families \cup {"none"}
    /\ started \in SUBSET Families

Init ==
    /\ HopInit
    /\ link = "down"
    /\ mon = [m \in Monitors |-> "new"]
    /\ start = "none"
    /\ started = {}

-----------------------------------------------------------------------------
(* linkUp: a goroutine starts to look for addresses.                       *)
LinkUp ==
    /\ link = "down"
    /\ link' = "up"
    /\ mon' = [m \in Monitors |-> "new"]
    /\ started' = {}
    /\ UNCHANGED <<hopVars, start>>

(* An address of family f was found: its ticker is stopped and its hosts   *)
(* are gone through.  The hosts of both families are started only on an    *)
(* interface that has an IPv4 host.                                        *)
FindAddress(f) ==
    /\ link = "up"
    /\ start = "none"
    /\ f \notin started
    /\ HostsOf(f) # {}
    /\ HostsOf("v4") # {}
    /\ start' = f
    /\ UNCHANGED <<hopVars, link, mon, started>>

(* addICMPMonitor: a monitor starts with its host down.                    *)
StartMonitor(m) ==
    /\ start = FamilyOf[m]
    /\ mon[m] = "new"
    /\ mon' = [mon EXCEPT ![m] = "running"]
    /\ isUp' = [isUp EXCEPT ![m] = FALSE]
    /\ UNCHANGED <<upHosts, cb, gateway, spoilt, link, start, started>>

(* "we start with everything down".  The monitors already run: the routes  *)
(* are failed after, or while, the first edge of the family is acted on    *)
(* when MinimumUp hosts answer first.                                      *)
FailStarted(f) ==
    /\ start = f
    /\ \A m \in HostsOf(f) : mon[m] # "new"
    /\ FailGateways(f)
    /\ start' = "none"
    /\ started' = started \cup {f}
    /\ UNCHANGED <<link, mon>>

-----------------------------------------------------------------------------
Up(m) ==
    /\ mon[m] = "running"
    /\ HostUp(m)
    /\ UNCHANGED sessionVars

Down(m) ==
    /\ mon[m] = "running"
    /\ HostDown(m)
    /\ UNCHANGED sessionVars

Act(m) ==
    /\ GatewayAction(m)
    /\ UNCHANGED sessionVars

-----------------------------------------------------------------------------
(* The link goes down: the first thing linkDown does is stop the monitors. *)
LinkDown ==
    /\ link = "up"
    /\ start = "none"
    /\ link' = "stopping"
    /\ UNCHANGED <<hopVars, mon, start, started>>

(* Mutant: Stop cancels the monitor and does not wait for its burst.       *)
StopWithoutWait(m) ==
    /\ link = "stopping"
    /\ mon[m] = "running"
    /\ mon' = [mon EXCEPT ![m] = "stopped"]
    /\ UNCHANGED <<hopVars, link, start, started>>

(* Monitor.Stop returns once the burst under way, if any, is over; the     *)
(* monitor runs no callback after that (MonitorContract).                  *)
StopMonitor(m) ==
    /\ link = "stopping"
    /\ mon[m] = "running"
    /\ ~InCallback(m)
    /\ mon' = [mon EXCEPT ![m] = "stopped"]
    /\ UNCHANGED <<hopVars, link, start, started>>

(* Mutant: the loop waits for the monitors that were never started too.    *)
AllStoppedOfConfig ==
    /\ link = "stopping"
    /\ \A m \in Monitors : mon[m] = "stopped"
    /\ link' = "zero4"
    /\ UNCHANGED <<hopVars, mon, start, started>>

(* The loop over the registry is done.                                     *)
AllStopped ==
    /\ link = "stopping"
    /\ \A m \in Monitors : mon[m] # "running"
    /\ link' = "zero4"
    /\ UNCHANGED <<hopVars, mon, start, started>>

(* nextHopFailLink: the counters, then the routes, of IPv4 then of IPv6.   *)
ZeroHosts ==
    /\ \/ link = "zero4" /\ link' = "fail4"
       \/ link = "zero6" /\ link' = "fail6"
    /\ ZeroCounters
    /\ UNCHANGED <<mon, start, started>>

FailLink(f) ==
    /\ \/ f = "v4" /\ link = "fail4" /\ link' = "zero6"
       \/ f = "v6" /\ link = "fail6" /\ link' = "down"
    /\ FailGateways(f)
    /\ UNCHANGED <<mon, start, started>>

-----------------------------------------------------------------------------
MonitorStep(m) ==
    \/ StartMonitor(m)
    \/ Up(m)
    \/ Down(m)
    \/ Act(m)
    \/ StopMonitor(m)

LinkStep ==
    \/ LinkUp
    \/ LinkDown
    \/ AllStopped
    \/ ZeroHosts

FamilyStep(f) ==
    \/ FindAddress(f)
    \/ FailStarted(f)
    \/ FailLink(f)

Next ==
    \/ LinkStep
    \/ \E f \in Families : FamilyStep(f)
    \/ \E m \in Monitors : MonitorStep(m)

Spec == Init /\ [][Next]_vars

(* The goroutine of linkDown runs on, scripts end, and a Stop that has     *)
(* cancelled its monitor waits for one callback at most: the monitor is    *)
(* idle again and again, and strong fairness has the Stop return then.     *)
Fairness ==
    /\ WF_vars(AllStopped)
    /\ WF_vars(ZeroHosts)
    /\ \A f \in Families : WF_vars(FailLink(f))
    /\ \A m \in Monitors : WF_vars(Act(m)) /\ SF_vars(StopMonitor(m))

FairSpec == Spec /\ Fairness

-----------------------------------------------------------------------------
(* The monitors whose host the counter of its family includes: the Up      *)
(* callback has counted it before isUp is set, the Down callback has       *)
(* discounted it before isUp is cleared.                                   *)
Counted(m) ==
    /\ mon[m] # "new"
    /\ IF InCallback(m) THEN cb[m].dir = "up" ELSE isUp[m]

CountedOf(f) == {m \in HostsOf(f) : Counted(m)}

Counting == link \in {"up", "stopping", "zero4"}

(* The counter of a family is the number of hosts of that family whose     *)
(* monitor holds them to be up, through every interleaving of callbacks,   *)
(* and it is zero from the moment the link's failure is handled.  A host   *)
(* counted twice, or one left over from the session before, would make     *)
(* MinimumUp mean something else (interface.go:143-196).                   *)
CountAgrees ==
    \A f \in Families :
        upHosts[f] = IF Counting THEN Cardinality(CountedOf(f)) ELSE 0

(* No callback finds the counter of its family out of range, so the stores *)
(* that clamp it (interface.go:164-166, 173-175) never run: the one that   *)
(* clears the wrong family's counter is never reached in such a session.   *)
CountInRange ==
    /\ \A f \in Families : upHosts[f] \in 0 .. Total[f]
    /\ \A m \in Monitors : cb[m].at # "clamp"

(* What the gateway routes of a family should be.                          *)
Wanted(f) == IF upHosts[f] >= MinimumUp THEN "up" ELSE "down"

(* Once no change is under way, the gateway routes of a family are where   *)
(* its counter says they should be, unless the last changes of that family *)
(* overlapped or failed: edges are reported for exactly the callbacks that *)
(* cross MinimumUp (interface.go:168,177), once each, so none is lost.     *)
GatewayAgrees ==
    \A f \in Families :
        spoilt[f] = "no" /\ ~Pending(f) /\ (Counting \/ link = "down")
            => gateway[f] = Wanted(f)

(* While a link is down nothing of the session before still changes the    *)
(* counters or the routes: linkDown has waited for the callbacks of every  *)
(* monitor (link.go:29-31, icmp.go:182-186) before it zeroes and fails.    *)
DownIsQuiet ==
    [][link = "down" => UNCHANGED <<upHosts, isUp, cb, gateway>>]_vars

(* A link that goes down is handled to the end: no monitor's callbacks can *)
(* keep linkDown (link.go:27-54) in its loop.                              *)
LinkDownEnds == link = "stopping" ~> link = "down"

(* "minimum amount of hosts to be up for this interface to be considered   *)
(* up" (config.go:66).  When the routes of a started family have been      *)
(* changed by edges alone, without an error, and no change is under way,   *)
(* they are used exactly if that many hosts are up.                        *)
MinimumUpDecides ==
    \A f \in started :
        link = "up" /\ ~Pending(f) /\ spoilt[f] \in {"no", "edge"}
            => gateway[f] = Wanted(f)
=============================================================================
