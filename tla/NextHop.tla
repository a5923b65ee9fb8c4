------------------------------- MODULE NextHop -------------------------------
(***************************************************************************)
(* The availability of one interface's next hops: the counters of hosts    *)
(* that answer (internal/config/interface.go), the callbacks of the ICMP   *)
(* monitors that move them (internal/server/icmp.go), and what the server  *)
(* does with the gateway routes when a counter crosses MinimumUp           *)
(* (internal/server/nexthop.go).                                           *)
(*                                                                         *)
(* A callback runs on the goroutine of its monitor, so the callbacks of    *)
(* different monitors interleave.  Its steps are the atomic operations of  *)
(* the code: the AddInt32 with the edge it reports, the store that clamps  *)
(* the counter, and the script with the route changes that follow it.     *)
(*                                                                         *)
(* This module has no initial state or next-state relation of its own:     *)
(* HostSession and LinkServer compose its actions.                         *)
(***************************************************************************)
EXTENDS Integers

CONSTANTS
    Monitors,   \* the ICMP monitors of the interface
    FamilyOf,   \* the address family of each monitor's host
    Total,      \* totalHostsv4 and totalHostsv6
    MinimumUp,  \* the hosts that must answer for the gateway to be used
    RoutesFail  \* whether the kernel may refuse a change of a route

Families == {"v4", "v6"}

ASSUME FamilyOfAssumption == FamilyOf \in [Monitors -> Families]
ASSUME TotalAssumption == Total \in [Families -> Nat]
ASSUME MinimumUpAssumption == MinimumUp \in Nat \ {0}
ASSUME RoutesFailAssumption == RoutesFail \in BOOLEAN

VARIABLES
    upHosts,    \* upHostsv4 and upHostsv6
    isUp,       \* the debounce flag captured by each monitor's callbacks
    cb,         \* how far the callback of each monitor has got
    gateway,    \* where the gateway routes of a family are in the main table
    spoilt      \* history: what last kept a family's routes from being
                \* changed by one change at a time, to the end

hopVars == <<upHosts, isUp, cb, gateway, spoilt>>

(* "clamp": the counter left its range and the store is still to come.     *)
(* "action": the edge was reported; the script or the routes are pending.  *)
Callbacks == [at : {"idle", "clamp", "action"}, dir : {"up", "down"},
              edge : BOOLEAN]

Idle == [at |-> "idle", dir |-> "down", edge |-> FALSE]

(* "up": every gateway route has the interface's metric.  "down": every    *)
(* one has the failure metric.  "mixed": an error returned from            *)
(* addGatewaysFor or failGatewaysFor between two routes.                   *)
Gateways == {"up", "down", "mixed"}

(* "edge": an edge was acted on while another one was.  "late": the routes *)
(* were failed after, or while, an edge of the session was acted on.       *)
(* "error": the last change returned early.                                *)
Spoilt == {"no", "edge", "late", "error"}

HopTypeOK ==
    /\ upHosts \in [Families -> Int]
    /\ isUp \in [Monitors -> BOOLEAN]
    /\ cb \in [Monitors -> Callbacks]
    /\ gateway \in [Families -> Gateways]
    /\ spoilt \in [Families -> Spoilt]

(* The routes of the main table are whatever the system set them to.       *)
HopInit ==
    /\ upHosts = [f \in Families |-> 0]
    /\ isUp = [m \in Monitors |-> FALSE]
    /\ cb = [m \in Monitors |-> Idle]
    /\ gateway \in [Families -> Gateways]
    /\ spoilt = [f \in Families |-> "error"]

InCallback(m) == cb[m].at # "idle"

(* A monitor of family f has reported an edge it has not acted on in full. *)
Pending(f) == \E m \in Monitors :
    FamilyOf[m] = f /\ InCallback(m) /\ cb[m].edge

-----------------------------------------------------------------------------
(* An edge spoils another when that one's change is still under way.       *)
Report(m) ==
    LET f == FamilyOf[m]
    IN  spoilt' = IF cb'[m].edge
                  THEN [spoilt EXCEPT ![f] = IF Pending(f) THEN "edge" ELSE "no"]
                  ELSE spoilt

(* The rest of a callback after its AddInt32: the clamp, then the edge's   *)
(* action, then the debounce flag.                                         *)
Continue(m, dir, outOfRange, edge) ==
    \/ /\ outOfRange \/ edge
       /\ cb' = [cb EXCEPT ![m] =
                    [at |-> IF outOfRange THEN "clamp" ELSE "action",
                     dir |-> dir, edge |-> edge]]
       /\ UNCHANGED isUp
    \/ /\ ~outOfRange /\ ~edge
       /\ cb' = [cb EXCEPT ![m] = Idle]
       /\ isUp' = [isUp EXCEPT ![m] = (dir = "up")]

(* Mutant: the Up callback without its debounce.                           *)
HostUpAgain(m) ==
    LET f == FamilyOf[m]
        up == upHosts[f] + 1
    IN  /\ ~InCallback(m)
        /\ upHosts' = [upHosts EXCEPT ![f] = up]
        /\ Continue(m, "up", up > Total[f], up = MinimumUp)
        /\ Report(m)
        /\ UNCHANGED gateway

(* The Up callback: a burst lost at most 75% of its packets.               *)
HostUp(m) ==
    LET f == FamilyOf[m]
        up == upHosts[f] + 1
    IN  /\ ~InCallback(m)
        /\ ~isUp[m]
        /\ upHosts' = [upHosts EXCEPT ![f] = up]
        /\ Continue(m, "up", up > Total[f], up = MinimumUp)
        /\ Report(m)
        /\ UNCHANGED gateway

(* Mutant: the Down callback without its debounce.                         *)
HostDownAgain(m) ==
    LET f == FamilyOf[m]
        up == upHosts[f] - 1
    IN  /\ ~InCallback(m)
        /\ upHosts' = [upHosts EXCEPT ![f] = up]
        /\ Continue(m, "down", up < 0, up = MinimumUp - 1)
        /\ Report(m)
        /\ UNCHANGED gateway

(* Mutant: the down edge is looked for at the minimum, not one below it.   *)
HostDownAtMinimum(m) ==
    LET f == FamilyOf[m]
        up == upHosts[f] - 1
    IN  /\ ~InCallback(m)
        /\ isUp[m]
        /\ upHosts' = [upHosts EXCEPT ![f] = up]
        /\ Continue(m, "down", up < 0, up = MinimumUp)
        /\ Report(m)
        /\ UNCHANGED gateway

(* The Down callback: a burst lost more than 75% of its packets.           *)
HostDown(m) ==
    LET f == FamilyOf[m]
        up == upHosts[f] - 1
    IN  /\ ~InCallback(m)
        /\ isUp[m]
        /\ upHosts' = [upHosts EXCEPT ![f] = up]
        /\ Continue(m, "down", up < 0, up = MinimumUp - 1)
        /\ Report(m)
        /\ UNCHANGED gateway

(* The store that follows an AddInt32 that left the range.  Above the      *)
(* total it is the family's own counter; below zero it is the IPv6 counter *)
(* in hostDownv4 as much as in hostDownv6.                                 *)
Clamp(m) ==
    LET f == FamilyOf[m]
    IN  /\ cb[m].at = "clamp"
        /\ upHosts' = IF cb[m].dir = "up"
                      THEN [upHosts EXCEPT ![f] = Total[f]]
                      ELSE [upHosts EXCEPT !["v6"] = 0]
        /\ Continue(m, cb[m].dir, FALSE, cb[m].edge)
        /\ UNCHANGED <<gateway, spoilt>>

(* What addGatewaysFor or failGatewaysFor may leave behind: both return at *)
(* the first error, which their callers only log.                          *)
Moved(f, dir, why) ==
    \/ /\ gateway' = [gateway EXCEPT ![f] = dir]
       /\ spoilt' = [spoilt EXCEPT ![f] = why]
    \/ /\ RoutesFail
       /\ gateway' = [gateway EXCEPT ![f] = "mixed"]
       /\ spoilt' = [spoilt EXCEPT ![f] = "error"]

(* The script and the gateway routes of an edge, and the callback's return.*)
GatewayAction(m) ==
    /\ cb[m].at = "action"
    /\ LET f == FamilyOf[m] IN Moved(f, cb[m].dir, spoilt[f])
    /\ cb' = [cb EXCEPT ![m] = Idle]
    /\ isUp' = [isUp EXCEPT ![m] = (cb[m].dir = "up")]
    /\ UNCHANGED upHosts

-----------------------------------------------------------------------------
(* Mutant: the IPv6 counter is left as it was.                             *)
ZeroIPv4Only ==
    /\ upHosts' = [upHosts EXCEPT !["v4"] = 0]
    /\ UNCHANGED <<isUp, cb, gateway, spoilt>>

(* nextHopFail for a link that went down: both counters are stored zero,   *)
(* whatever the family, ...                                                *)
ZeroCounters ==
    /\ upHosts' = [f \in Families |-> 0]
    /\ UNCHANGED <<isUp, cb, gateway, spoilt>>

(* ... then the script runs and the gateway routes of the family are       *)
(* failed.  linkUp's failGatewaysFor is the same change.                   *)
FailGateways(f) ==
    /\ Moved(f, "down",
             IF Pending(f) \/ upHosts[f] >= MinimumUp THEN "late" ELSE "no")
    /\ UNCHANGED <<upHosts, isUp, cb>>
=============================================================================
