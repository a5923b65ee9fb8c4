----------------------------- MODULE LinkServer -----------------------------
(***************************************************************************)
(* The server's handling of one interface (internal/server/link.go,        *)
(* icmp.go, server.go and internal/linkstate/link.go), with the goroutines *)
(* of the code:                                                            *)
(*   - the link monitor's, which receives the link's state and runs linkUp *)
(*     and linkDown;                                                       *)
(*   - one for every time the link came up, an epoch, which waits for an   *)
(*     address of either family and then starts the hosts' ICMP monitors,  *)
(*     until its shutdown channel is closed;                               *)
(*   - one for every ICMP monitor, with the callbacks of NextHop.          *)
(* They share the registry s.icmpMonitors[ifi.Name], keyed by host name,   *)
(* the rules of the interface's table and the counters, without a lock.    *)
(***************************************************************************)
EXTENDS Integers, FiniteSets, FiniteSetsExt

CONSTANTS
    Hosts,          \* ifi.Hosts
    HostFamily,     \* the address family of each
    HostName,       \* the name of each, which need not be unique
    MinimumUp,      \* ifi.MinimumUp
    RoutesFail,     \* whether the kernel may refuse a change of a route
    HasTable,       \* ifi.Table # 0, and a route sync runs for it
    MaxEpoch        \* bound on how often the link comes up

ASSUME HostFamilyAssumption == HostFamily \in [Hosts -> {"v4", "v6"}]
ASSUME MinimumUpAssumption == MinimumUp \in Nat \ {0}
ASSUME RoutesFailAssumption == RoutesFail \in BOOLEAN
ASSUME MaxEpochAssumption == MaxEpoch \in Nat \ {0}
ASSUME HasTableAssumption == HasTable \in BOOLEAN
ASSUME HostsAssumption == "none" \notin Hosts /\ IsFiniteSet(Hosts)

Epochs == 1 .. MaxEpoch
Names == {HostName[h] : h \in Hosts}

(* Every epoch makes monitors of its own for the hosts.                    *)
Monitors == Epochs \X Hosts
EpochOf(m) == m[1]
HostOf(m) == m[2]
FamilyOf == [m \in Monitors |-> HostFamily[HostOf(m)]]

HostsOf(f) == {h \in Hosts : HostFamily[h] = f}
Total == [f \in {"v4", "v6"} |-> Cardinality(HostsOf(f))]

NoMonitor == <<0, "none">>

VARIABLES
    upHosts, isUp, cb, gateway, spoilt,     \* those of NextHop
    link,       \* where the link monitor's goroutine is
    epoch,      \* how often the link has come up
    closed,     \* the epochs whose shutdown channel is closed
    watcher,    \* the goroutine of each epoch
    registry,   \* the monitor registered under each name
    life,       \* how far the life of each monitor has got
    unvisited,  \* the names linkDown's loop has still to go through
    visited,    \* the monitor whose Stop it waits for
    rules,      \* the hosts with a rule for the interface's table
    kept,       \* history: the rules that could not be deleted, until the
                \* link comes up again
    late,       \* history: monitors started when their link was not up, and
                \* those they took the place of in the registry
    clean,      \* history: no watcher was busy while its link went down
    crashed     \* the process died

hopVars == <<upHosts, isUp, cb, gateway, spoilt>>
linkVars == <<link, epoch, closed>>
monVars == <<registry, life, rules, kept>>
loopVars == <<unvisited, visited>>
vars == <<hopVars, linkVars, watcher, monVars, loopVars, late, clean, crashed>>

Hop == INSTANCE NextHop

Families == Hop!Families

(* "select": waits for a tick or the shutdown.  "hosts": goes through the  *)
(* hosts of fam.  "rule": has added the rule of host.  "fail": has started *)
(* every monitor.  ticking: the families whose ticker was not stopped.     *)
Watchers == [pc : {"none", "select", "hosts", "rule", "fail", "ended"},
             fam : Families, todo : SUBSET Hosts, host : Hosts \cup {"none"},
             ticking : SUBSET Families, served : SUBSET Families]

(* "last": cancelled, with a callback decided on before.  "cancelled": the *)
(* one it is in is the last.  "stopped": a Stop has returned.              *)
Lives == {"none", "running", "last", "cancelled", "stopped"}

Alive(m) == life[m] \in {"running", "last", "cancelled"}

Links == {"down", "up", "stopping", "rules", "zero4", "fail4", "zero6",
          "fail6", "close"}

TypeOK ==
    /\ Hop!HopTypeOK
    /\ link \in Links
    /\ epoch \in 0 .. MaxEpoch
    /\ closed \in SUBSET Epochs
    /\ watcher \in [Epochs -> Watchers]
    /\ registry \in [Names -> Monitors \cup {NoMonitor}]
    /\ life \in [Monitors -> Lives]
    /\ unvisited \in SUBSET Names
    /\ visited \in Monitors \cup {NoMonitor}
    /\ rules \in SUBSET Hosts
    /\ kept \in SUBSET Hosts
    /\ late \in SUBSET Monitors
    /\ clean \in BOOLEAN
    /\ crashed \in BOOLEAN

NoWatcher == [pc |-> "none", fam |-> "v4", todo |-> {}, host |-> "none",
              ticking |-> {}, served |-> {}]

Init ==
    /\ Hop!HopInit
    /\ gateway = [f \in Families |-> "up"]
    /\ link = "down"
    /\ epoch = 0
    /\ closed = {}
    /\ watcher = [e \in Epochs |-> NoWatcher]
    /\ registry = [n \in Names |-> NoMonitor]
    /\ life = [m \in Monitors |-> "none"]
    /\ unvisited = {}
    /\ visited = NoMonitor
    /\ rules = {}
    /\ kept = {}
    /\ late = {}
    /\ clean = TRUE
    /\ crashed = FALSE

(* addGatewaysFor and failGatewaysFor set the metric of the interface's    *)
(* route sync first; without a table there is none, and the nil pointer is *)
(* dereferenced.                                                           *)
Gated(A) == IF HasTable THEN A /\ UNCHANGED crashed
                        ELSE crashed' = TRUE /\ UNCHANGED hopVars

-----------------------------------------------------------------------------
(* The link monitor's goroutine.  Messages that repeat the link's state    *)
(* are debounced, and so are no steps.                                     *)

(* linkUp: a new shutdown channel and a new watcher, whose tickers run for *)
(* the families the interface has hosts of.                                *)
RecvUp ==
    /\ link = "down"
    /\ epoch < MaxEpoch
    /\ epoch' = epoch + 1
    /\ link' = "up"
    /\ watcher' = [watcher EXCEPT ![epoch + 1].pc = "select",
                                  ![epoch + 1].ticking =
                                      {f \in Families : HostsOf(f) # {}}]
    /\ kept' = {}
    /\ UNCHANGED <<hopVars, closed, registry, life, rules, loopVars, late, clean,
                   crashed>>

Busy(e) == watcher[e].pc \in {"hosts", "rule", "fail"}

(* Mutant: a repeated message is not debounced.                            *)
RecvDownAgain ==
    /\ link \in {"up", "down"}
    /\ link' = "stopping"
    /\ unvisited' = {n \in Names : registry[n] # NoMonitor}
    /\ UNCHANGED <<hopVars, epoch, closed, watcher, monVars, visited, late, clean,
                   crashed>>

(* linkDown begins: it goes through the registry.                          *)
RecvDown ==
    /\ link = "up"
    /\ link' = "stopping"
    /\ unvisited' = {n \in Names : registry[n] # NoMonitor}
    /\ clean' = (clean /\ ~Busy(epoch))
    /\ UNCHANGED <<hopVars, epoch, closed, watcher, monVars, visited, late, crashed>>

(* Stop cancels the monitor's context.                                     *)
Cancel(m) ==
    life' = [life EXCEPT ![m] =
                 IF @ # "running" THEN @
                 ELSE IF Hop!InCallback(m) THEN "cancelled" ELSE "last"]

(* The loop comes to a name and calls Stop of the monitor registered there.*)
(* A monitor of an earlier epoch may be the one.                           *)
VisitMonitor(n) ==
    /\ link = "stopping"
    /\ visited = NoMonitor
    /\ n \in unvisited
    /\ visited' = registry[n]
    /\ Cancel(registry[n])
    /\ unvisited' = unvisited \ {n}
    /\ UNCHANGED <<hopVars, linkVars, watcher, registry, rules, kept, late,
                   clean, crashed>>

(* Mutant: Stop does not wait.                                             *)
StopMonitorNoWait ==
    /\ visited # NoMonitor
    /\ life' = [life EXCEPT ![visited] = "stopped"]
    /\ visited' = NoMonitor
    /\ UNCHANGED <<hopVars, linkVars, watcher, registry, unvisited, rules, kept,
                   late, clean, crashed>>

(* Stop returns once no callback runs (MonitorContract).                   *)
StopMonitor ==
    /\ visited # NoMonitor
    /\ ~Hop!InCallback(visited)
    /\ life' = [life EXCEPT ![visited] = "stopped"]
    /\ visited' = NoMonitor
    /\ UNCHANGED <<hopVars, linkVars, watcher, registry, unvisited, rules, kept,
                   late, clean, crashed>>

AllStopped ==
    /\ link = "stopping"
    /\ unvisited = {} /\ visited = NoMonitor
    /\ link' = IF HasTable THEN "rules" ELSE "zero4"
    /\ UNCHANGED <<hopVars, epoch, closed, watcher, monVars, loopVars, late,
                   clean, crashed>>

(* Mutant: the rules stay.                                                 *)
DeleteNoRules ==
    /\ link = "rules"
    /\ link' = "zero4"
    /\ UNCHANGED <<hopVars, epoch, closed, watcher, monVars, loopVars, late,
                   clean, crashed>>

(* Every rule of the table is deleted, whatever family.  Without a listing *)
(* no rule is, and an error of a deletion is only logged.                  *)
DeleteRules ==
    /\ link = "rules"
    /\ rules' \in SUBSET rules
    /\ kept' = rules'
    /\ link' = "zero4"
    /\ UNCHANGED <<hopVars, epoch, closed, watcher, registry, life, loopVars,
                   late, clean, crashed>>

(* rtnetlink.Dial fails: the error is logged, and the nil connection used. *)
DialFails ==
    /\ link = "rules"
    /\ crashed' = TRUE
    /\ UNCHANGED <<hopVars, linkVars, watcher, monVars, loopVars, late, clean>>

(* nextHopFailLink, IPv4 then IPv6: the counters, ...                      *)
ZeroHosts ==
    /\ \/ link = "zero4" /\ link' = "fail4"
       \/ link = "zero6" /\ link' = "fail6"
    /\ Hop!ZeroCounters
    /\ UNCHANGED <<epoch, closed, watcher, monVars, loopVars, late, clean,
                   crashed>>

(* ... the script and the routes.                                          *)
FailLink(f) ==
    /\ \/ f = "v4" /\ link = "fail4" /\ link' = "zero6"
       \/ f = "v6" /\ link = "fail6" /\ link' = "close"
    /\ Gated(Hop!FailGateways(f))
    /\ UNCHANGED <<epoch, closed, watcher, monVars, loopVars, late, clean>>

(* Mutant: the channel stays open.                                         *)
CloseNothing ==
    /\ link = "close"
    /\ link' = "down"
    /\ UNCHANGED <<hopVars, epoch, closed, watcher, monVars, loopVars, late, clean,
                   crashed>>

(* The Down callback closes the channel when linkDown has returned.        *)
CloseShutdown ==
    /\ link = "close"
    /\ link' = "down"
    /\ closed' = closed \cup {epoch}
    /\ UNCHANGED <<hopVars, epoch, watcher, monVars, loopVars, late, clean,
                   crashed>>

-----------------------------------------------------------------------------
(* The watcher of an epoch.                                                *)

InSession(e) == e = epoch /\ link = "up"

Acts(e) == clean' = (clean /\ InSession(e))

(* Mutant: both tickers are stopped when an address is found.              *)
FindAnyAddress(e, f) ==
    /\ watcher[e].pc = "select"
    /\ f \in watcher[e].ticking
    /\ watcher' = [watcher EXCEPT
           ![e].ticking = {},
           ![e].fam = f,
           ![e].todo = IF HostsOf("v4") # {} THEN HostsOf(f) ELSE {},
           ![e].pc = IF HostsOf("v4") # {} THEN "hosts" ELSE "select"]
    /\ Acts(e)
    /\ UNCHANGED <<hopVars, linkVars, monVars, loopVars, late, crashed>>

(* A tick, and an address of its family on the interface: the ticker is    *)
(* stopped, and the hosts come next if the interface has an IPv4 host.     *)
(* A tick without an address changes nothing but the ticker's period.      *)
FindAddress(e, f) ==
    /\ watcher[e].pc = "select"
    /\ f \in watcher[e].ticking
    /\ watcher' = [watcher EXCEPT
           ![e].ticking = @ \ {f},
           ![e].fam = f,
           ![e].todo = IF HostsOf("v4") # {} THEN HostsOf(f) ELSE {},
           ![e].pc = IF HostsOf("v4") # {} THEN "hosts" ELSE "select"]
    /\ Acts(e)
    /\ UNCHANGED <<hopVars, linkVars, monVars, loopVars, late, crashed>>

(* ruleAdd for the next host; an error, as for a rule that exists, is only *)
(* logged.                                                                 *)
AddRule(e) ==
    /\ watcher[e].pc = "hosts"
    /\ \E h \in watcher[e].todo :
        /\ rules' \in {rules} \cup (IF HasTable THEN {rules \cup {h}} ELSE {})
        /\ watcher' = [watcher EXCEPT ![e].todo = @ \ {h}, ![e].host = h,
                                      ![e].pc = "rule"]
    /\ Acts(e)
    /\ UNCHANGED <<hopVars, linkVars, registry, life, kept, loopVars, late,
                   crashed>>

(* Mutant: the monitor is started and not registered.                      *)
AddUnregistered(e) ==
    LET m == <<e, watcher[e].host>>
    IN  /\ watcher[e].pc = "rule"
        /\ life' = [life EXCEPT ![m] = "running"]
        /\ watcher' = [watcher EXCEPT ![e].host = "none",
               ![e].pc = IF watcher[e].todo = {} THEN "fail" ELSE "hosts"]
        /\ late' = IF InSession(e) THEN late ELSE late \cup {m}
        /\ Acts(e)
        /\ UNCHANGED <<hopVars, linkVars, registry, loopVars, rules, kept,
                       crashed>>

(* addICMPMonitor: register the monitor under its host's name and start it.*)
(* linkDown may be ranging over the registry.  A name that is new to it is *)
(* visited or not, and a write during the iteration may be detected, which *)
(* is fatal.                                                               *)
AddMonitor(e) ==
    LET h == watcher[e].host
        m == <<e, h>>
        n == HostName[h]
    IN  /\ watcher[e].pc = "rule"
        /\ registry' = [registry EXCEPT ![n] = m]
        /\ life' = [life EXCEPT ![m] = "running"]
        /\ watcher' = [watcher EXCEPT ![e].host = "none",
               ![e].pc = IF watcher[e].todo = {} THEN "fail" ELSE "hosts"]
        /\ late' = IF InSession(e) THEN late
                   ELSE late \cup ({m, registry[n]} \ {NoMonitor})
        /\ \/ UNCHANGED unvisited
           \/ /\ link = "stopping"
              /\ registry[n] = NoMonitor
              /\ unvisited' = unvisited \cup {n}
        /\ crashed' \in IF link = "stopping" THEN BOOLEAN ELSE {FALSE}
        /\ Acts(e)
        /\ UNCHANGED <<hopVars, linkVars, visited, rules, kept>>

(* "we start with everything down"                                         *)
FailStarted(e) ==
    /\ watcher[e].pc = "fail"
    /\ Gated(Hop!FailGateways(watcher[e].fam))
    /\ watcher' = [watcher EXCEPT ![e].pc = "select",
                                  ![e].served = @ \cup {watcher[e].fam}]
    /\ Acts(e)
    /\ UNCHANGED <<linkVars, monVars, loopVars, late>>

(* The closed channel is received from; a ticker may be taken before it.   *)
WatcherEnds(e) ==
    /\ watcher[e].pc = "select"
    /\ e \in closed
    /\ watcher' = [watcher EXCEPT ![e].pc = "ended"]
    /\ UNCHANGED <<hopVars, linkVars, monVars, loopVars, late, clean, crashed>>

-----------------------------------------------------------------------------
(* The callbacks of the monitors.                                          *)
callFrame == <<linkVars, watcher, registry, rules, kept, loopVars, late, clean>>

(* Mutant: a cancelled monitor begins another callback.                    *)
MayStillCall(m) ==
    /\ Alive(m)
    /\ UNCHANGED life

(* A monitor that is cancelled begins the callback it had decided on, if   *)
(* any, and no other (MonitorContract).                                    *)
MayCall(m) ==
    /\ life[m] \in {"running", "last"}
    /\ life' = [life EXCEPT ![m] = IF @ = "last" THEN "cancelled" ELSE @]

Up(m) ==
    /\ MayCall(m)
    /\ Hop!HostUp(m)
    /\ UNCHANGED <<callFrame, crashed>>

Down(m) ==
    /\ MayCall(m)
    /\ Hop!HostDown(m)
    /\ UNCHANGED <<callFrame, crashed>>

Clamp(m) ==
    /\ Hop!Clamp(m)
    /\ UNCHANGED <<callFrame, life, crashed>>

Act(m) ==
    /\ cb[m].at = "action"
    /\ Gated(Hop!GatewayAction(m))
    /\ UNCHANGED <<callFrame, life>>

-----------------------------------------------------------------------------
LinkRuns ==
    \/ \E n \in Names : VisitMonitor(n)
    \/ StopMonitor
    \/ AllStopped
    \/ DeleteRules
    \/ ZeroHosts
    \/ \E f \in Families : FailLink(f)
    \/ CloseShutdown

StartsHosts(e) ==
    \/ AddRule(e)
    \/ AddMonitor(e)
    \/ FailStarted(e)

Next ==
    /\ ~crashed
    /\ \/ RecvUp
       \/ RecvDown
       \/ DialFails
       \/ LinkRuns
       \/ \E e \in Epochs, f \in Families : FindAddress(e, f)
       \/ \E e \in Epochs : StartsHosts(e) \/ WatcherEnds(e)
       \/ \E m \in Monitors : Up(m) \/ Down(m) \/ Clamp(m) \/ Act(m)

Spec == Init /\ [][Next]_vars

(* Goroutines run on and scripts end.  select chooses at random between a  *)
(* tick and the closed channel, so it takes the channel in the end: strong *)
(* fairness of WatcherEnds.  That of FindAddress is about the system: an   *)
(* interface whose link stays up is given an address of each family.       *)
Fairness ==
    /\ WF_vars(~crashed /\ LinkRuns)
    /\ \A e \in Epochs :
        /\ WF_vars(~crashed /\ StartsHosts(e))
        /\ SF_vars(~crashed /\ WatcherEnds(e))
        /\ \A f \in Families : SF_vars(~crashed /\ FindAddress(e, f))
    /\ \A m \in Monitors : WF_vars(~crashed /\ (Clamp(m) \/ Act(m)))

FairSpec == Spec /\ Fairness

-----------------------------------------------------------------------------
(* The session HostSession describes, as far as it has got: its monitors   *)
(* are those of the last epoch.                                            *)
Made(h) == {e \in Epochs : life[<<e, h>>] # "none"}
LastOf(h) == IF Made(h) = {} THEN 1 ELSE Max(Made(h))

Current(h) == IF epoch = 0 THEN "none" ELSE life[<<epoch, h>>]

SessionIsUp == [h \in Hosts |-> isUp[<<LastOf(h), h>>]]
SessionCb == [h \in Hosts |-> cb[<<LastOf(h), h>>]]

(* The rules and the channel of the code are none of the session's.        *)
SessionLink ==
    IF link = "rules" THEN "zero4" ELSE IF link = "close" THEN "down" ELSE link

SessionMonOf(h) ==
    IF Current(h) \in {"running", "last", "cancelled"} THEN "running"
    ELSE IF Current(h) = "none" THEN "new" ELSE "stopped"

SessionMon == [h \in Hosts |-> SessionMonOf(h)]
SessionStart == IF epoch > 0 /\ Busy(epoch) THEN watcher[epoch].fam ELSE "none"
SessionStarted == IF epoch = 0 THEN {} ELSE watcher[epoch].served

Session == INSTANCE HostSession WITH
    Monitors <- Hosts,
    FamilyOf <- HostFamily,
    isUp <- SessionIsUp,
    cb <- SessionCb,
    link <- SessionLink,
    mon <- SessionMon,
    start <- SessionStart,
    started <- SessionStarted

(* As long as no watcher was busy while its link went down, and none acted *)
(* after that, the goroutines, the registry and the shutdown channels do   *)
(* what HostSession describes, and its properties are theirs: the counters *)
(* agree with the monitors and the routes with the counters.               *)
ImplementsSession ==
    Session!Init /\ [][clean' => Session!Next]_(Session!vars)

LoopDone == {"zero4", "fail4", "zero6", "fail6", "close", "down"}

(* linkDown leaves no monitor running (link.go:29-31) but those started by *)
(* a watcher of an earlier epoch, or by any watcher once the loop has      *)
(* begun, and those one of these took the place of in the registry,        *)
(* whatever happens to the registry under the loop; and no rule            *)
(* (link.go:33-51) but those that could not be deleted, unless a watcher   *)
(* was busy.                                                               *)
DownLeavesNothing ==
    link \in LoopDone =>
        /\ \A m \in Monitors : Alive(m) => m \in late
        /\ clean => rules \subseteq kept

Over(e) == e < epoch \/ (e = epoch /\ link = "down")

(* The watcher of an epoch that is over ends, though its tickers may be    *)
(* taken before the closed channel, and start monitors (link.go:151-153).  *)
WatchersEnd ==
    \A e \in Epochs : Over(e) ~> watcher[e].pc = "ended" \/ crashed

(* linkDown comes to its end, though watchers may add to the registry it   *)
(* goes through, and monitors call back while they are stopped.            *)
LinkDownEnds == link = "stopping" ~> link = "down" \/ crashed

Monitored(h) ==
    link = "up" ~> link # "up" \/ crashed \/ life[<<epoch, h>>] = "running"

(* "we need to wait untill we have a valid ip address on the interface     *)
(* before we can start an icmp monitor" (link.go:74-75): each host of an   *)
(* interface whose link stays up is monitored once the interface has an    *)
(* address of its family.                                                  *)
HostsGetMonitored == \A h \in Hosts : Monitored(h)

(* So it is on an interface with an IPv4 host (link.go:102,132), though    *)
(* one watcher serves both families, whichever gets its address first.     *)
FourHostBringsAll ==
    HostsOf("v4") # {} => \A h \in Hosts : Monitored(h)

(* "called as a safe measure to prevent stale monitors to startup"         *)
(* (link.go:152): no monitor runs of an epoch whose channel is closed.     *)
NoStaleMonitor ==
    \A m \in Monitors : Alive(m) => EpochOf(m) \notin closed

(* The Down callback "is generally used to stop running route and icmp     *)
(* monitors" (linkstate/link.go:76): when no watcher was busy, it stops    *)
(* every one of them.                                                      *)
DownStopsMonitors ==
    link = "down" /\ clean => \A m \in Monitors : ~Alive(m)
=============================================================================
