-------------------------- MODULE LinkServerProofs --------------------------
(***************************************************************************)
(* Proofs about LinkServer, for any interface and any number of epochs.    *)
(*                                                                         *)
(* Which monitors linkDown leaves running is told by AliveInv: a monitor   *)
(* that runs, and is no exception, is the one registered under its host's  *)
(* name, and once the loop has begun, the loop has still to come to that   *)
(* name or waits for that very monitor.  It needs names that are the       *)
(* hosts' own, which the configuration does not ask for.                   *)
(***************************************************************************)
EXTENDS LinkServer, FiniteSetTheorems, TLAPS

Distinct == \A g, h \in Hosts : HostName[g] = HostName[h] => g = h

(* The watcher has a host at hand exactly between its rule and its monitor.*)
WatcherInv == \A e \in Epochs : watcher[e].pc = "rule" <=> watcher[e].host # "none"

(* While clean, only the watcher of a session that goes on is busy.        *)
BusyInv == clean => \A e \in Epochs : Busy(e) => InSession(e)

RuleInv ==
    /\ ~HasTable => rules = {}
    /\ clean /\ link \in LoopDone => rules \subseteq kept

CleanInv == BusyInv /\ RuleInv

NameOf(m) == HostName[HostOf(m)]

(* What the loop of linkDown still has to do for a monitor.                *)
StillToStop(m) ==
    \/ link = "up"
    \/ link = "stopping" /\ (NameOf(m) \in unvisited \/ visited = m)

AliveInv ==
    \A m \in Monitors :
        Alive(m) /\ m \notin late =>
            EpochOf(m) = epoch /\ registry[NameOf(m)] = m /\ StillToStop(m)

-----------------------------------------------------------------------------
LEMMA TotalType == Total \in [Families -> Nat]
  <1>1. \A f \in Families : IsFiniteSet(HostsOf(f))
    BY HostsAssumption, FS_Subset DEF HostsOf
  <1> QED
    BY <1>1, FS_CardinalityType DEF Total, Families, Hop!Families

LEMMA FamilyType == FamilyOf \in [Monitors -> Families]
  BY HostFamilyAssumption DEF FamilyOf, Monitors, HostOf, Families, Hop!Families

(* The rest of a callback keeps the callbacks and the flags in their types.*)
LEMMA ContinueType ==
    ASSUME Hop!HopTypeOK, NEW m \in Monitors, NEW dir \in {"up", "down"},
           NEW out, NEW edge, out \in BOOLEAN, edge \in BOOLEAN,
           Hop!Continue(m, dir, out, edge)
    PROVE  /\ cb' \in [Monitors -> Hop!Callbacks]
           /\ isUp' \in [Monitors -> BOOLEAN]
  <1> USE DEF Hop!HopTypeOK, Hop!Callbacks
  <1>1. CASE out \/ edge
    <2> DEFINE c == [at |-> IF out THEN "clamp" ELSE "action",
                     dir |-> dir, edge |-> edge]
    <2>1. c \in Hop!Callbacks
      OBVIOUS
    <2>2. cb' = [cb EXCEPT ![m] = c] /\ UNCHANGED isUp
      BY <1>1 DEF Hop!Continue
    <2> HIDE DEF c
    <2> QED
      BY <2>1, <2>2
  <1>2. CASE ~out /\ ~edge
    <2>1. Hop!Idle \in Hop!Callbacks
      BY DEF Hop!Idle
    <2>2. cb' = [cb EXCEPT ![m] = Hop!Idle] /\ isUp' = [isUp EXCEPT ![m] = (dir = "up")]
      BY <1>2 DEF Hop!Continue
    <2> QED
      BY <2>1, <2>2
  <1> QED
    BY <1>1, <1>2

(* Every change of the counters and the routes keeps them in their types.  *)
LEMMA MovedType ==
    ASSUME Hop!HopTypeOK, NEW f \in Families, NEW dir \in Hop!Gateways,
           NEW why \in Hop!Spoilt, Hop!Moved(f, dir, why)
    PROVE  gateway' \in [Families -> Hop!Gateways] /\ spoilt' \in [Families -> Hop!Spoilt]
  BY DEF Hop!Moved, Hop!HopTypeOK, Hop!Gateways, Hop!Spoilt, Families

LEMMA HostStepType ==
    ASSUME Hop!HopTypeOK, NEW m \in Monitors, Hop!HostUp(m) \/ Hop!HostDown(m)
    PROVE  Hop!HopTypeOK'
  <1> USE DEF Hop!HopTypeOK
  <1>0. FamilyOf[m] \in Families
    BY FamilyType
  <1>1. PICK up \in Int, dir \in {"up", "down"}, out \in BOOLEAN, edge \in BOOLEAN :
           /\ upHosts' = [upHosts EXCEPT ![FamilyOf[m]] = up]
           /\ Hop!Continue(m, dir, out, edge)
           /\ Hop!Report(m)
           /\ UNCHANGED gateway
    <2>1. CASE Hop!HostUp(m)
      <3> DEFINE up == upHosts[FamilyOf[m]] + 1
      <3>1. up \in Int /\ (up > Total[FamilyOf[m]]) \in BOOLEAN /\ (up = MinimumUp) \in BOOLEAN
        BY <1>0 DEF Families
      <3>2. /\ upHosts' = [upHosts EXCEPT ![FamilyOf[m]] = up]
            /\ Hop!Continue(m, "up", up > Total[FamilyOf[m]], up = MinimumUp)
            /\ Hop!Report(m)
            /\ UNCHANGED gateway
        BY <2>1, Zenon DEF Hop!HostUp
      <3> HIDE DEF up
      <3> QED
        BY <3>1, <3>2, Zenon
    <2>2. CASE Hop!HostDown(m)
      <3> DEFINE up == upHosts[FamilyOf[m]] - 1
      <3>1. up \in Int /\ (up < 0) \in BOOLEAN /\ (up = MinimumUp - 1) \in BOOLEAN
        BY <1>0 DEF Families
      <3>2. /\ upHosts' = [upHosts EXCEPT ![FamilyOf[m]] = up]
            /\ Hop!Continue(m, "down", up < 0, up = MinimumUp - 1)
            /\ Hop!Report(m)
            /\ UNCHANGED gateway
        BY <2>2, Zenon DEF Hop!HostDown
      <3> HIDE DEF up
      <3> QED
        BY <3>1, <3>2, Zenon
    <2> QED
      BY <2>1, <2>2
  <1>2. cb' \in [Monitors -> Hop!Callbacks] /\ isUp' \in [Monitors -> BOOLEAN]
    BY <1>1, ContinueType
  <1>3. upHosts' \in [Hop!Families -> Int]
    BY <1>0, <1>1 DEF Families
  <1>4. spoilt' \in [Hop!Families -> Hop!Spoilt]
    BY <1>0, <1>1 DEF Hop!Report, Hop!Spoilt, Families
  <1> QED
    BY <1>1, <1>2, <1>3, <1>4

LEMMA ClampType ==
    ASSUME Hop!HopTypeOK, NEW m \in Monitors, Hop!Clamp(m)
    PROVE  Hop!HopTypeOK'
  <1> USE DEF Hop!HopTypeOK
  <1>1. FamilyOf[m] \in Families /\ Total[FamilyOf[m]] \in Nat
    BY FamilyType, TotalType
  <1>2. upHosts' \in [Hop!Families -> Int]
    BY <1>1 DEF Hop!Clamp, Families, Hop!Families
  <1>3. cb[m].dir \in {"up", "down"} /\ cb[m].edge \in BOOLEAN
    BY DEF Hop!Callbacks
  <1>4. Hop!Continue(m, cb[m].dir, FALSE, cb[m].edge)
    BY DEF Hop!Clamp
  <1>5. cb' \in [Monitors -> Hop!Callbacks] /\ isUp' \in [Monitors -> BOOLEAN]
    BY <1>3, <1>4, ContinueType
  <1> QED
    BY <1>2, <1>5 DEF Hop!Clamp

LEMMA ActionType ==
    ASSUME Hop!HopTypeOK, NEW m \in Monitors, Hop!GatewayAction(m)
    PROVE  Hop!HopTypeOK'
  <1> USE DEF Hop!HopTypeOK
  <1>1. FamilyOf[m] \in Families /\ spoilt[FamilyOf[m]] \in Hop!Spoilt
    BY FamilyType DEF Families
  <1>2. cb[m].dir \in Hop!Gateways
    BY DEF Hop!Callbacks, Hop!Gateways
  <1>3. Hop!Moved(FamilyOf[m], cb[m].dir, spoilt[FamilyOf[m]])
    BY DEF Hop!GatewayAction
  <1>4. /\ gateway' \in [Families -> Hop!Gateways]
        /\ spoilt' \in [Families -> Hop!Spoilt]
    BY <1>1, <1>2, <1>3, MovedType
  <1>5. cb' \in [Monitors -> Hop!Callbacks]
    BY DEF Hop!GatewayAction, Hop!Callbacks, Hop!Idle
  <1>6. isUp' \in [Monitors -> BOOLEAN]
    BY Zenon DEF Hop!GatewayAction
  <1> QED
    BY <1>4, <1>5, <1>6 DEF Hop!GatewayAction, Families

LEMMA FailType ==
    ASSUME Hop!HopTypeOK, NEW f \in Families, Hop!FailGateways(f)
    PROVE  Hop!HopTypeOK'
  <1>1. PICK why \in Hop!Spoilt : Hop!Moved(f, "down", why)
    BY DEF Hop!FailGateways, Hop!Spoilt
  <1>2. /\ gateway' \in [Families -> Hop!Gateways]
        /\ spoilt' \in [Families -> Hop!Spoilt]
    BY <1>1, MovedType DEF Hop!Gateways
  <1> QED
    BY <1>2 DEF Hop!FailGateways, Hop!HopTypeOK, Families

LEMMA ZeroType ==
    ASSUME Hop!HopTypeOK, Hop!ZeroCounters PROVE Hop!HopTypeOK'
  BY DEF Hop!ZeroCounters, Hop!HopTypeOK

-----------------------------------------------------------------------------
LEMMA HopSame ==
    ASSUME Hop!HopTypeOK, UNCHANGED hopVars PROVE Hop!HopTypeOK'
  BY DEF Hop!HopTypeOK, hopVars

(* Stop of a monitor neither starts nor ends any.                          *)
LEMMA CancelKeeps ==
    ASSUME life \in [Monitors -> Lives], NEW k, Cancel(k)
    PROVE  /\ life' \in [Monitors -> Lives]
           /\ \A m \in Monitors : Alive(m)' <=> Alive(m)
  <1> DEFINE next == IF life[k] # "running" THEN life[k]
                     ELSE IF Hop!InCallback(k) THEN "cancelled" ELSE "last"
  <1>1. life' = [life EXCEPT ![k] = next]
    BY DEF Cancel
  <1>2. k \in Monitors =>
            /\ next \in Lives
            /\ next \in {"running", "last", "cancelled"}
                 <=> life[k] \in {"running", "last", "cancelled"}
    BY DEF Lives
  <1> HIDE DEF next
  <1> QED
    BY <1>1, <1>2 DEF Alive

LEMMA CallKeeps ==
    ASSUME life \in [Monitors -> Lives], NEW k \in Monitors, MayCall(k)
    PROVE  /\ life' \in [Monitors -> Lives]
           /\ \A m \in Monitors : Alive(m)' <=> Alive(m)
  BY DEF MayCall, Alive, Lives

(* A change of the routes, or the crash that takes its place.              *)
LEMMA GatedFail ==
    ASSUME Hop!HopTypeOK, NEW f \in Families, Gated(Hop!FailGateways(f)),
           crashed \in BOOLEAN
    PROVE  Hop!HopTypeOK' /\ crashed' \in BOOLEAN
  BY FailType, HopSame DEF Gated

LEMMA GatedAction ==
    ASSUME Hop!HopTypeOK, NEW m \in Monitors, Gated(Hop!GatewayAction(m)),
           crashed \in BOOLEAN
    PROVE  Hop!HopTypeOK' /\ crashed' \in BOOLEAN
  BY ActionType, HopSame DEF Gated

(* Only epochs the link has come up in have a watcher.                     *)
EpochInv ==
    /\ link # "down" => epoch \in Epochs
    /\ \A e \in Epochs : e > epoch => watcher[e].pc = "none"

TypeInv == TypeOK /\ WatcherInv /\ EpochInv

LEMMA TypeInit == Init => TypeInv
  <1> SUFFICES ASSUME Init PROVE TypeInv
    OBVIOUS
  <1>1. Hop!HopTypeOK
    BY DEF Init, Hop!HopInit, Hop!HopTypeOK, Hop!Callbacks, Hop!Idle,
           Hop!Gateways, Hop!Spoilt
  <1>2. NoWatcher \in Watchers
    BY DEF NoWatcher, Watchers, Families, Hop!Families
  <1>3. TypeOK
    <2>1. /\ watcher \in [Epochs -> Watchers]
          /\ epoch \in 0 .. MaxEpoch
      BY <1>2, MaxEpochAssumption DEF Init
    <2>2. /\ registry \in [Names -> Monitors \cup {NoMonitor}]
          /\ life \in [Monitors -> Lives]
      BY DEF Init, Lives
    <2> QED
      BY <1>1, <2>1, <2>2 DEF Init, TypeOK, Links
  <1> QED
    BY <1>3 DEF Init, TypeInv, WatcherInv, EpochInv, NoWatcher

LEMMA LinkType ==
    ASSUME TypeInv,
           \/ RecvUp \/ RecvDown \/ DialFails \/ LinkRuns
    PROVE  TypeInv'
  <1> USE DEF TypeInv, TypeOK, linkVars, monVars, loopVars
  <1>1. CASE RecvUp
    <2>1. epoch + 1 \in Epochs
      BY <1>1, MaxEpochAssumption DEF RecvUp, Epochs
    <2> DEFINE w == [watcher[epoch + 1] EXCEPT
                        !.pc = "select",
                        !.ticking = {f \in Families : HostsOf(f) # {}}]
    <2>2. watcher[epoch + 1] \in Watchers
      BY <2>1
    <2>3. w \in Watchers /\ w.pc = "select" /\ w.host = watcher[epoch + 1].host
      BY <2>2 DEF Watchers
    <2>4. watcher' = [watcher EXCEPT ![epoch + 1] = w]
      BY <1>1, <2>1 DEF RecvUp
    <2> HIDE DEF w
    <2>6. watcher' \in [Epochs -> Watchers]
      BY <2>3, <2>4
    <2>5. w.host = "none"
      BY <2>1, <2>3 DEF WatcherInv, EpochInv, Epochs
    <2>7. WatcherInv' /\ EpochInv'
      BY <1>1, <2>1, <2>3, <2>4, <2>5 DEF RecvUp, WatcherInv, EpochInv, Watchers, Epochs
    <2> QED
      BY <1>1, <2>1, <2>6, <2>7, HopSame DEF RecvUp, Links, Epochs
  <1>2. CASE RecvDown
    BY <1>2, HopSame DEF RecvDown, Links, WatcherInv, EpochInv
  <1>3. CASE DialFails
    BY <1>3, HopSame DEF DialFails, WatcherInv, EpochInv
  <1>4. ASSUME NEW n \in Names, VisitMonitor(n) PROVE TypeInv'
    <2>1. life' \in [Monitors -> Lives]
      BY <1>4, CancelKeeps DEF VisitMonitor
    <2> QED
      BY <1>4, <2>1, HopSame DEF VisitMonitor, WatcherInv, EpochInv
  <1>5. CASE StopMonitor
    <2>1. life' \in [Monitors -> Lives]
      BY <1>5 DEF StopMonitor, Lives
    <2> QED
      BY <1>5, <2>1, HopSame DEF StopMonitor, WatcherInv, EpochInv
  <1>6. CASE AllStopped \/ DeleteRules \/ CloseShutdown
    <2>1. closed' \in SUBSET Epochs
      BY <1>6 DEF AllStopped, DeleteRules, CloseShutdown, EpochInv
    <2> QED
      BY <1>6, <2>1, HopSame
      DEF AllStopped, DeleteRules, CloseShutdown, Links, WatcherInv, EpochInv
  <1>7. CASE ZeroHosts
    BY <1>7, ZeroType DEF ZeroHosts, Links, WatcherInv, EpochInv
  <1>8. ASSUME NEW f \in Families, FailLink(f) PROVE TypeInv'
    BY <1>8, GatedFail DEF FailLink, Links, WatcherInv, EpochInv
  <1> QED
    BY <1>1, <1>2, <1>3, <1>4, <1>5, <1>6, <1>7, <1>8 DEF LinkRuns

LEMMA WatcherType ==
    ASSUME TypeInv, NEW e \in Epochs,
           \/ \E f \in Families : FindAddress(e, f)
           \/ StartsHosts(e)
           \/ WatcherEnds(e)
    PROVE  TypeInv'
  <1> USE DEF TypeInv, TypeOK, linkVars, monVars, loopVars
  <1>0. watcher[e] \in Watchers /\ clean \in BOOLEAN
    OBVIOUS
  <1>1. ASSUME NEW f \in Families, FindAddress(e, f) PROVE TypeInv'
    <2>1. HostsOf(f) \in SUBSET Hosts
      BY DEF HostsOf
    <2> DEFINE w == [watcher[e] EXCEPT
                        !.ticking = @ \ {f}, !.fam = f,
                        !.todo = IF HostsOf("v4") # {} THEN HostsOf(f) ELSE {},
                        !.pc = IF HostsOf("v4") # {} THEN "hosts" ELSE "select"]
    <2>2. watcher' = [watcher EXCEPT ![e] = w] /\ watcher[e].pc = "select"
      BY <1>1 DEF FindAddress
    <2>3. /\ w \in Watchers
          /\ w.pc \in {"hosts", "select"} /\ w.host = watcher[e].host
      BY <1>0, <2>1 DEF Watchers
    <2> HIDE DEF w
    <2>4. watcher' \in [Epochs -> Watchers]
      BY <2>2, <2>3
    <2>3a. \A d \in Epochs : watcher'[d] = IF d = e THEN w ELSE watcher[d]
      BY <2>2
    <2>3b. UNCHANGED <<link, epoch>>
      BY <1>1 DEF FindAddress
    <2>5. WatcherInv'
      BY <2>2, <2>3, <2>3a DEF WatcherInv
    <2>6. EpochInv'
      BY <2>2, <2>3, <2>3a, <2>3b DEF EpochInv
    <2> QED
      BY <1>1, <2>4, <2>5, <2>6, HopSame DEF FindAddress, Acts
  <1>2. CASE AddRule(e)
    <2>1. PICK h \in watcher[e].todo :
             /\ rules' \in {rules} \cup (IF HasTable THEN {rules \cup {h}} ELSE {})
             /\ watcher' = [watcher EXCEPT ![e].todo = @ \ {h}, ![e].host = h,
                                           ![e].pc = "rule"]
      BY <1>2 DEF AddRule
    <2>2. h \in Hosts /\ h # "none"
      BY <1>0, HostsAssumption DEF Watchers
    <2>3. watcher' \in [Epochs -> Watchers]
      BY <1>0, <2>1, <2>2 DEF Watchers
    <2>4. WatcherInv' /\ EpochInv'
      BY <1>0, <1>2, <2>1, <2>2 DEF AddRule, WatcherInv, EpochInv, Watchers
    <2> QED
      BY <1>2, <2>1, <2>2, <2>3, <2>4, HopSame DEF AddRule, Acts
  <1>3. CASE AddMonitor(e)
    <2> DEFINE h == watcher[e].host
               m == <<e, h>>
    <2>1. h \in Hosts
      BY <1>0, <1>3 DEF AddMonitor, WatcherInv, Watchers
    <2>2. m \in Monitors /\ HostName[h] \in Names
      BY <2>1 DEF Monitors, Names
    <2>3. /\ registry' = [registry EXCEPT ![HostName[h]] = m]
          /\ life' = [life EXCEPT ![m] = "running"]
          /\ late' \in {late, late \cup ({m, registry[HostName[h]]} \ {NoMonitor})}
          /\ unvisited' \in {unvisited, unvisited \cup {HostName[h]}}
          /\ crashed' \in BOOLEAN
      BY <1>3 DEF AddMonitor
    <2>4. /\ registry' \in [Names -> Monitors \cup {NoMonitor}]
          /\ life' \in [Monitors -> Lives]
          /\ late' \in SUBSET Monitors
          /\ unvisited' \in SUBSET Names
      BY <2>2, <2>3 DEF Lives
    <2>5. watcher' \in [Epochs -> Watchers]
      BY <1>0, <1>3 DEF AddMonitor, Watchers
    <2>6. WatcherInv' /\ EpochInv'
      BY <1>0, <1>3 DEF AddMonitor, WatcherInv, EpochInv, Watchers
    <2> QED
      BY <1>3, <2>3, <2>4, <2>5, <2>6, HopSame DEF AddMonitor, Acts
  <1>4. CASE FailStarted(e)
    <2>1. watcher[e].fam \in Families
      BY <1>0 DEF Watchers
    <2>2. Hop!HopTypeOK' /\ crashed' \in BOOLEAN
      BY <1>4, <2>1, GatedFail DEF FailStarted
    <2>3. watcher' \in [Epochs -> Watchers]
      BY <1>0, <1>4, <2>1 DEF FailStarted, Watchers
    <2>4. WatcherInv' /\ EpochInv'
      BY <1>0, <1>4 DEF FailStarted, WatcherInv, EpochInv, Watchers
    <2> QED
      BY <1>4, <2>2, <2>3, <2>4 DEF FailStarted, Acts
  <1>5. CASE WatcherEnds(e)
    <2>1. watcher' \in [Epochs -> Watchers]
      BY <1>0, <1>5 DEF WatcherEnds, Watchers
    <2>2. WatcherInv' /\ EpochInv'
      BY <1>0, <1>5 DEF WatcherEnds, WatcherInv, EpochInv, Watchers
    <2> QED
      BY <1>5, <2>1, <2>2, HopSame DEF WatcherEnds
  <1> QED
    BY <1>1, <1>2, <1>3, <1>4, <1>5 DEF StartsHosts

LEMMA MonitorType ==
    ASSUME TypeInv, NEW m \in Monitors, Up(m) \/ Down(m) \/ Clamp(m) \/ Act(m)
    PROVE  TypeInv'
  <1> USE DEF TypeInv, TypeOK, callFrame, linkVars, loopVars
  <1>1. CASE Up(m) \/ Down(m)
    <2>1. Hop!HopTypeOK'
      BY <1>1, HostStepType DEF Up, Down
    <2>2. life' \in [Monitors -> Lives]
      BY <1>1, CallKeeps DEF Up, Down
    <2> QED
      BY <1>1, <2>1, <2>2 DEF Up, Down, WatcherInv, EpochInv
  <1>2. CASE Clamp(m)
    BY <1>2, ClampType DEF Clamp, WatcherInv, EpochInv
  <1>3. CASE Act(m)
    BY <1>3, GatedAction DEF Act, WatcherInv, EpochInv
  <1> QED
    BY <1>1, <1>2, <1>3

LEMMA TypeSame == TypeInv /\ UNCHANGED vars => TypeInv'
  BY HopSame DEF TypeInv, TypeOK, WatcherInv, EpochInv, vars, linkVars, monVars, loopVars

LEMMA TypeStep == TypeInv /\ [Next]_vars => TypeInv'
  BY LinkType, WatcherType, MonitorType, TypeSame DEF Next

(* Every variable of an interface's goroutines keeps its type, whatever    *)
(* the interface, for any number of epochs (link.go, icmp.go).             *)
THEOREM LinkServerTypeCorrect == Spec => []TypeOK
  <1>1. TypeInv => TypeOK
    BY DEF TypeInv
  <1> QED
    BY <1>1, TypeInit, TypeStep, PTL DEF Spec

-----------------------------------------------------------------------------
LEMMA CleanInit == Init => CleanInv
  BY DEF Init, CleanInv, BusyInv, RuleInv, Busy, NoWatcher

LEMMA LinkClean ==
    ASSUME TypeInv, CleanInv,
           \/ RecvUp \/ RecvDown \/ DialFails \/ LinkRuns
    PROVE  CleanInv'
  <1> USE DEF CleanInv, BusyInv, RuleInv, LoopDone, linkVars, monVars, loopVars
  <1>1. CASE RecvUp
    <2>1. epoch + 1 \in Epochs
      BY <1>1, MaxEpochAssumption DEF RecvUp, TypeInv, TypeOK, Epochs
    <2>2. ASSUME NEW e \in Epochs, Busy(e)' PROVE Busy(e)
      BY <1>1, <2>1, <2>2 DEF RecvUp, Busy, TypeInv, TypeOK, Watchers
    <2> QED
      BY <1>1, <2>2 DEF RecvUp, InSession
  <1>2. CASE RecvDown
    BY <1>2 DEF RecvDown, Busy, InSession
  <1>3. CASE DialFails
    BY <1>3 DEF DialFails, Busy, InSession
  <1>4. ASSUME NEW n \in Names, VisitMonitor(n) PROVE CleanInv'
    BY <1>4 DEF VisitMonitor, Busy, InSession
  <1>5. CASE StopMonitor
    BY <1>5 DEF StopMonitor, Busy, InSession
  <1>6. CASE AllStopped \/ DeleteRules \/ CloseShutdown
    BY <1>6 DEF AllStopped, DeleteRules, CloseShutdown, Busy, InSession
  <1>7. CASE ZeroHosts
    BY <1>7 DEF ZeroHosts, Busy, InSession
  <1>8. ASSUME NEW f \in Families, FailLink(f) PROVE CleanInv'
    BY <1>8 DEF FailLink, Busy, InSession
  <1> QED
    BY <1>1, <1>2, <1>3, <1>4, <1>5, <1>6, <1>7, <1>8 DEF LinkRuns

(* While clean, a watcher that acts acts in its session.                   *)
LEMMA WatcherClean ==
    ASSUME TypeInv, CleanInv, NEW e \in Epochs,
           \/ \E f \in Families : FindAddress(e, f)
           \/ StartsHosts(e)
           \/ WatcherEnds(e)
    PROVE  CleanInv'
  <1> USE DEF CleanInv, BusyInv, RuleInv, LoopDone, linkVars, monVars, Acts,
              InSession
  <1>1. CASE WatcherEnds(e)
    BY <1>1 DEF WatcherEnds, Busy, TypeInv, TypeOK, Watchers
  <1>2. CASE ~WatcherEnds(e)
    <2>1. UNCHANGED linkVars /\ Acts(e)
      BY <1>2 DEF StartsHosts, FindAddress, AddRule, AddMonitor, FailStarted
    <2>2. \A d \in Epochs \ {e} : watcher'[d] = watcher[d]
      BY <1>2 DEF StartsHosts, FindAddress, AddRule, AddMonitor, FailStarted,
                  TypeInv, TypeOK
    <2>3. BusyInv'
      BY <2>1, <2>2 DEF Busy
    <2>4. /\ rules' = rules \/ (HasTable /\ AddRule(e))
          /\ kept' = kept
      BY <1>2 DEF StartsHosts, FindAddress, AddRule, AddMonitor, FailStarted
    <2>5. RuleInv'
      BY <2>1, <2>4
    <2> QED
      BY <2>3, <2>5
  <1> QED
    BY <1>1, <1>2

LEMMA MonitorClean ==
    ASSUME CleanInv, NEW m \in Monitors, Up(m) \/ Down(m) \/ Clamp(m) \/ Act(m)
    PROVE  CleanInv'
  BY DEF CleanInv, BusyInv, RuleInv, Busy, InSession, Up, Down, Clamp, Act,
         callFrame, linkVars

LEMMA CleanSame == CleanInv /\ UNCHANGED vars => CleanInv'
  BY DEF CleanInv, BusyInv, RuleInv, Busy, InSession, vars, linkVars, monVars

-----------------------------------------------------------------------------
LEMMA AliveInit == Init => AliveInv
  BY DEF Init, AliveInv, Alive

LEMMA LinkAlive ==
    ASSUME TypeInv, AliveInv,
           \/ RecvUp \/ RecvDown \/ DialFails \/ LinkRuns
    PROVE  AliveInv'
  <1> USE DEF AliveInv, StillToStop, NameOf, linkVars, monVars, loopVars
  <1>0. \A m \in Monitors : NameOf(m) \in Names /\ m # NoMonitor /\ HostOf(m) \in Hosts
    BY HostsAssumption DEF Monitors, Names, HostOf, NoMonitor
  <1>1. CASE RecvUp
    BY <1>1 DEF RecvUp, Alive
  <1>2. CASE RecvDown
    <2> SUFFICES ASSUME NEW m \in Monitors, Alive(m)', m \notin late'
                 PROVE  /\ EpochOf(m) = epoch' /\ registry'[NameOf(m)] = m
                        /\ NameOf(m) \in unvisited'
      BY <1>2 DEF RecvDown
    <2>1. EpochOf(m) = epoch /\ registry[NameOf(m)] = m
      BY <1>2 DEF RecvDown, Alive
    <2> QED
      BY <1>0, <1>2, <2>1 DEF RecvDown
  <1>3. CASE DialFails
    BY <1>3 DEF DialFails, Alive
  <1>4. ASSUME NEW n \in Names, VisitMonitor(n) PROVE AliveInv'
    <2>1. \A m \in Monitors : Alive(m)' <=> Alive(m)
      BY <1>4, CancelKeeps DEF VisitMonitor, TypeInv, TypeOK
    <2> QED
      BY <1>0, <1>4, <2>1 DEF VisitMonitor
  <1>5. CASE StopMonitor
    <2>1. \A m \in Monitors : Alive(m)' => Alive(m) /\ m # visited
      BY <1>5 DEF StopMonitor, Alive, TypeInv, TypeOK
    <2> QED
      BY <1>5, <2>1 DEF StopMonitor
  <1>6. CASE AllStopped \/ DeleteRules \/ CloseShutdown
    BY <1>0, <1>6 DEF AllStopped, DeleteRules, CloseShutdown, Alive
  <1>7. CASE ZeroHosts
    BY <1>7 DEF ZeroHosts, Alive
  <1>8. ASSUME NEW f \in Families, FailLink(f) PROVE AliveInv'
    BY <1>8 DEF FailLink, Alive
  <1> QED
    BY <1>1, <1>2, <1>3, <1>4, <1>5, <1>6, <1>7, <1>8 DEF LinkRuns

(* A monitor that is registered outside its session is an exception, and   *)
(* so is the one whose place it takes.                                     *)
LEMMA AddMonitorAlive ==
    ASSUME Distinct, TypeInv, AliveInv, NEW e \in Epochs, AddMonitor(e)
    PROVE  AliveInv'
  <1> DEFINE h == watcher[e].host
             k == <<e, h>>
             n == HostName[h]
  <1>1. h \in Hosts /\ k \in Monitors /\ n \in Names /\ k # NoMonitor
    <2>1. h \in Hosts
      BY DEF AddMonitor, TypeInv, TypeOK, WatcherInv, Watchers
    <2> QED
      BY <2>1, HostsAssumption DEF Monitors, Names, NoMonitor
  <1>2. /\ registry' = [registry EXCEPT ![n] = k]
        /\ life' = [life EXCEPT ![k] = "running"]
        /\ late' = IF InSession(e) THEN late
                   ELSE late \cup ({k, registry[n]} \ {NoMonitor})
        /\ unvisited \subseteq unvisited'
        /\ UNCHANGED <<link, epoch, visited>>
    BY DEF AddMonitor, linkVars
  <1> SUFFICES ASSUME NEW m \in Monitors, Alive(m)', m \notin late'
               PROVE  EpochOf(m) = epoch /\ registry'[NameOf(m)] = m /\ StillToStop(m)'
    BY <1>2 DEF AliveInv
  <1>3. m \notin late
    BY <1>2
  <1>4. registry \in [Names -> Monitors \cup {NoMonitor}] /\ life \in [Monitors -> Lives]
    BY DEF TypeInv, TypeOK
  <1>5. NameOf(m) \in Names /\ HostOf(m) \in Hosts /\ m = <<EpochOf(m), HostOf(m)>>
    BY DEF NameOf, Names, Monitors, HostOf, EpochOf
  <1>6. CASE m = k
    <2>1. InSession(e)
      BY <1>1, <1>2, <1>6
    <2>2. EpochOf(m) = e /\ NameOf(m) = n
      BY <1>6 DEF EpochOf, NameOf, HostOf
    <2> QED
      BY <1>1, <1>2, <1>4, <1>6, <2>1, <2>2 DEF InSession, StillToStop
  <1>7. CASE m # k
    <2>1. Alive(m)
      BY <1>2, <1>4, <1>7 DEF Alive
    <2>2. EpochOf(m) = epoch /\ registry[NameOf(m)] = m /\ StillToStop(m)
      BY <1>3, <2>1 DEF AliveInv
    <2>3. NameOf(m) # n
      <3> SUFFICES ASSUME NameOf(m) = n PROVE FALSE
        OBVIOUS
      <3>1. HostOf(m) = h
        BY <1>1, <1>5 DEF Distinct, NameOf
      <3>2. InSession(e)
        BY <1>2, <1>5, <2>2, HostsAssumption DEF NoMonitor
      <3> QED
        BY <1>5, <1>7, <2>2, <3>1, <3>2 DEF InSession
    <2> QED
      BY <1>2, <1>4, <1>5, <2>2, <2>3 DEF StillToStop
  <1> QED
    BY <1>6, <1>7

LEMMA WatcherAlive ==
    ASSUME Distinct, TypeInv, AliveInv, NEW e \in Epochs,
           \/ \E f \in Families : FindAddress(e, f)
           \/ StartsHosts(e)
           \/ WatcherEnds(e)
    PROVE  AliveInv'
  <1>1. CASE AddMonitor(e)
    BY <1>1, AddMonitorAlive
  <1>2. CASE ~AddMonitor(e)
    BY <1>2 DEF StartsHosts, FindAddress, AddRule, FailStarted, WatcherEnds,
                AliveInv, StillToStop, Alive, linkVars, monVars, loopVars
  <1> QED
    BY <1>1, <1>2

LEMMA MonitorAlive ==
    ASSUME TypeInv, AliveInv, NEW k \in Monitors,
           Up(k) \/ Down(k) \/ Clamp(k) \/ Act(k)
    PROVE  AliveInv'
  <1> USE DEF AliveInv, StillToStop, callFrame, linkVars, loopVars
  <1>1. CASE Up(k) \/ Down(k)
    <2>1. \A m \in Monitors : Alive(m)' <=> Alive(m)
      BY <1>1, CallKeeps DEF Up, Down, TypeInv, TypeOK
    <2> QED
      BY <1>1, <2>1 DEF Up, Down
  <1>2. CASE Clamp(k) \/ Act(k)
    BY <1>2 DEF Clamp, Act, Alive
  <1> QED
    BY <1>1, <1>2

LEMMA AliveSame == AliveInv /\ UNCHANGED vars => AliveInv'
  BY DEF AliveInv, StillToStop, Alive, vars, linkVars, monVars, loopVars

-----------------------------------------------------------------------------
Inv == TypeInv /\ CleanInv /\ AliveInv

LEMMA InvInit == Init => Inv
  BY TypeInit, CleanInit, AliveInit DEF Inv

LEMMA InvStep == Distinct /\ Inv /\ [Next]_vars => Inv'
  <1>1. Inv /\ [Next]_vars => TypeInv'
    BY TypeStep DEF Inv
  <1>2. Inv /\ [Next]_vars => CleanInv'
    BY LinkClean, WatcherClean, MonitorClean, CleanSame DEF Inv, Next
  <1>3. Distinct /\ Inv /\ [Next]_vars => AliveInv'
    BY LinkAlive, WatcherAlive, MonitorAlive, AliveSame DEF Inv, Next
  <1> QED
    BY <1>1, <1>2, <1>3 DEF Inv

LEMMA InvLeaves == Inv => DownLeavesNothing
  BY DEF Inv, CleanInv, RuleInv, AliveInv, StillToStop, DownLeavesNothing, LoopDone

(* When linkDown's loop is done, whatever runs was started by a watcher    *)
(* out of its session or had its place taken by such a one, and a rule is  *)
(* left only if a watcher was busy (link.go:29-51), for any number of      *)
(* hosts with names of their own and any number of epochs.                 *)
THEOREM LoopLeavesNothing ==
    ASSUME Distinct PROVE Spec => []DownLeavesNothing
  <1>1. Inv /\ [Next]_vars => Inv'
    BY InvStep
  <1> QED
    BY <1>1, InvInit, InvLeaves, PTL DEF Spec
=============================================================================
