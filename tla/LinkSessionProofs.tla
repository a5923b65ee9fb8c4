------------------------- MODULE LinkSessionProofs -------------------------
(***************************************************************************)
(* LinkServer implements HostSession, for any interface and any number of  *)
(* epochs, as long as no watcher was busy while its link went down: every  *)
(* step of the code's goroutines is one of the session, or changes nothing *)
(* the session has.                                                        *)
(*                                                                         *)
(* HostSession has no step for the stores that clamp a counter.  That none *)
(* happens is an invariant of the session, so the two are shown together:  *)
(* the steps so far were the session's, its invariant holds of them, and   *)
(* the next step is one of the session's too.                              *)
(***************************************************************************)
EXTENDS LinkServerProofs

(* The session, with what HostSessionProofs says of it.                    *)
Proved == INSTANCE HostSessionProofs WITH
    Monitors <- Hosts,
    FamilyOf <- HostFamily,
    isUp <- SessionIsUp,
    cb <- SessionCb,
    link <- SessionLink,
    mon <- SessionMon,
    start <- SessionStart,
    started <- SessionStarted

(* A Stop is of a monitor that was started.                                *)
RegistryInv ==
    /\ \A n \in Names : registry[n] # NoMonitor => life[registry[n]] # "none"
    /\ visited # NoMonitor => link = "stopping" /\ life[visited] # "none"

(* A monitor calls back only while it is alive, and starts with its host   *)
(* down.                                                                   *)
CallInv ==
    \A m \in Monitors :
        /\ Hop!InCallback(m) => Alive(m)
        /\ ~Hop!InCallback(m) => cb[m] = Hop!Idle
        /\ life[m] = "none" => ~isUp[m]

(* The hosts whose monitors a busy watcher has still to start, ...         *)
ToStart(e) == watcher[e].todo \cup ({watcher[e].host} \ {"none"})

(* ... which are those of its family that it has not started.              *)
PlanOf(e) ==
    /\ e > epoch => watcher[e] = NoWatcher /\ \A h \in Hosts : life[<<e, h>>] = "none"
    /\ watcher[e].ticking \cap watcher[e].served = {}
    /\ \A f \in watcher[e].ticking :
           HostsOf(f) # {} /\ \A h \in HostsOf(f) : life[<<e, h>>] = "none"
    /\ Busy(e) =>
           /\ watcher[e].fam \notin watcher[e].ticking \cup watcher[e].served
           /\ ToStart(e) \subseteq HostsOf(watcher[e].fam)
           /\ \A h \in HostsOf(watcher[e].fam) :
                  life[<<e, h>>] = "none" <=> h \in ToStart(e)
           /\ watcher[e].host \notin watcher[e].todo
           /\ watcher[e].pc = "fail" => watcher[e].todo = {}

PlanInv == \A e \in Epochs : PlanOf(e)

(* The epochs in which a host's monitor was made have a last one.          *)
LatestInv ==
    \A h \in Hosts :
        Made(h) # {} => \E e \in Made(h) : \A d \in Made(h) : d <= e

SideInv == late = {} /\ RegistryInv /\ CallInv /\ PlanInv /\ LatestInv

-----------------------------------------------------------------------------
(* What a watcher's epoch, a registered monitor and the like are.          *)
LEMMA InitSide == Init => SideInv
  <1> SUFFICES ASSUME Init PROVE SideInv
    OBVIOUS
  <1> USE DEF Init, Hop!HopInit
  <1>1. RegistryInv
    BY DEF RegistryInv
  <1>2. CallInv
    BY DEF CallInv, Hop!InCallback, Hop!Idle
  <1>3. PlanInv
    BY HostsAssumption DEF PlanInv, PlanOf, Busy, NoWatcher, Monitors
  <1>4. LatestInv
    BY DEF LatestInv, Made, Monitors
  <1> QED
    BY <1>1, <1>2, <1>3, <1>4 DEF SideInv

(* A step that makes no monitor.                                           *)
MakesNone == \A m \in Monitors : life'[m] = "none" <=> life[m] = "none"

LEMMA MadeSame ==
    ASSUME MakesNone, NEW h \in Hosts
    PROVE  Made(h)' = Made(h) /\ LastOf(h)' = LastOf(h)
  <1>1. Made(h)' = Made(h)
    BY DEF MakesNone, Made, Monitors
  <1> QED
    BY <1>1 DEF LastOf

LEMMA LatestSame == LatestInv /\ MakesNone => LatestInv'
  BY MadeSame DEF LatestInv

LEMMA PlanSame ==
    ASSUME PlanInv, MakesNone, UNCHANGED <<watcher, epoch>>
    PROVE  PlanInv'
  <1> SUFFICES ASSUME NEW e \in Epochs PROVE PlanOf(e)'
    BY DEF PlanInv
  <1>1. \A h \in Hosts : life'[<<e, h>>] = "none" <=> life[<<e, h>>] = "none"
    BY DEF MakesNone, Monitors
  <1>2. \A f : HostsOf(f) \subseteq Hosts
    BY DEF HostsOf
  <1> QED
    BY <1>1, <1>2 DEF PlanInv, PlanOf, Busy, ToStart

(* A step that only moves the life of monitors.                            *)
LEMMA SideSame ==
    ASSUME TypeInv, SideInv, MakesNone,
           UNCHANGED <<hopVars, watcher, epoch, registry, late>>,
           \A m \in Monitors : Hop!InCallback(m) /\ Alive(m) => Alive(m)',
           visited' # NoMonitor => link' = "stopping" /\ life'[visited'] # "none"
    PROVE  SideInv'
  <1>1. PlanInv' /\ LatestInv'
    BY PlanSame, LatestSame DEF SideInv
  <1>2. \A n \in Names : registry[n] # NoMonitor => registry[n] \in Monitors
    BY DEF TypeInv, TypeOK
  <1>3. RegistryInv'
    BY <1>2 DEF SideInv, RegistryInv, MakesNone
  <1>4. CallInv'
    BY DEF SideInv, CallInv, MakesNone, hopVars, Hop!InCallback
  <1> QED
    BY <1>1, <1>3, <1>4 DEF SideInv

LEMMA LinkSide ==
    ASSUME TypeInv, CleanInv, AliveInv, SideInv, clean, clean',
           \/ RecvUp \/ RecvDown \/ DialFails \/ LinkRuns
    PROVE  SideInv'
  <1> USE DEF linkVars, monVars, loopVars
  <1>0. /\ \A n \in Names : registry[n] # NoMonitor => registry[n] \in Monitors
        /\ life \in [Monitors -> Lives]
        /\ NoMonitor \notin Monitors
    BY HostsAssumption DEF TypeInv, TypeOK, NoMonitor, Monitors
  <1>1. CASE RecvUp
    <2>1. epoch + 1 \in Epochs /\ epoch \in Nat
      BY <1>1, MaxEpochAssumption DEF RecvUp, TypeInv, TypeOK, Epochs
    <2>2. UNCHANGED <<hopVars, registry, life, visited, late>> /\ epoch' = epoch + 1
      BY <1>1 DEF RecvUp
    <2>3. MakesNone
      BY <2>2 DEF MakesNone
    <2>4. visited = NoMonitor
      BY <1>1 DEF RecvUp, SideInv, RegistryInv
    <2>5. RegistryInv' /\ CallInv' /\ LatestInv'
      BY <2>2, <2>3, <2>4, LatestSame
      DEF SideInv, RegistryInv, CallInv, hopVars, Hop!InCallback, Alive
    <2>6. PlanInv'
      <3> SUFFICES ASSUME NEW e \in Epochs PROVE PlanOf(e)'
        BY DEF PlanInv
      <3>1. PlanOf(e)
        BY DEF SideInv, PlanInv
      <3>2. CASE e = epoch + 1
        <4>1. watcher[e] = NoWatcher /\ \A h \in Hosts : life[<<e, h>>] = "none"
          BY <2>1, <3>1, <3>2 DEF PlanOf, Epochs
        <4>2. watcher'[e] = [NoWatcher EXCEPT !.pc = "select",
                                !.ticking = {f \in Families : HostsOf(f) # {}}]
          BY <1>1, <3>2, <4>1 DEF RecvUp, TypeInv, TypeOK
        <4>3. /\ watcher'[e].pc = "select" /\ watcher'[e].served = {}
              /\ watcher'[e].ticking = {f \in Families : HostsOf(f) # {}}
          BY <4>2 DEF NoWatcher
        <4>4. \A f \in Families : HostsOf(f) \subseteq Hosts
          BY DEF HostsOf
        <4> QED
          BY <2>1, <2>2, <3>2, <4>1, <4>3, <4>4 DEF PlanOf, Busy
      <3>3. CASE e # epoch + 1
        <4>1. watcher'[e] = watcher[e]
          BY <1>1, <3>3 DEF RecvUp, TypeInv, TypeOK
        <4> QED
          BY <2>1, <2>2, <3>1, <3>3, <4>1 DEF PlanOf, Busy, ToStart, Epochs
      <3> QED
        BY <3>2, <3>3
    <2> QED
      BY <2>2, <2>5, <2>6 DEF SideInv
  <1>2. CASE RecvDown
    BY <1>2, SideSame DEF RecvDown, MakesNone, Alive, SideInv, RegistryInv
  <1>3. CASE DialFails
    BY <1>3, SideSame DEF DialFails, MakesNone, Alive, SideInv, RegistryInv
  <1>4. ASSUME NEW n \in Names, VisitMonitor(n) PROVE SideInv'
    <2>1. \A m \in Monitors : Alive(m)' <=> Alive(m)
      BY <1>0, <1>4, CancelKeeps DEF VisitMonitor
    <2>2. MakesNone
      BY <1>0, <1>4 DEF VisitMonitor, Cancel, MakesNone
    <2>3. visited' # NoMonitor => link' = "stopping" /\ life'[visited'] # "none"
      BY <1>0, <1>4, <2>2 DEF VisitMonitor, SideInv, RegistryInv, MakesNone
    <2> QED
      BY <1>4, <2>1, <2>2, <2>3, SideSame DEF VisitMonitor
  <1>5. CASE StopMonitor
    <2>1. life[visited] # "none" /\ life' = [life EXCEPT ![visited] = "stopped"]
      BY <1>5 DEF StopMonitor, SideInv, RegistryInv
    <2>2. MakesNone
      BY <1>0, <2>1 DEF MakesNone
    <2>3. \A m \in Monitors : Hop!InCallback(m) /\ Alive(m) => Alive(m)'
      BY <1>0, <1>5, <2>1 DEF StopMonitor, Alive
    <2> QED
      BY <1>5, <2>2, <2>3, SideSame DEF StopMonitor
  <1>6. CASE AllStopped \/ DeleteRules \/ CloseShutdown
    BY <1>6, SideSame
    DEF AllStopped, DeleteRules, CloseShutdown, MakesNone, Alive, SideInv, RegistryInv
  <1>7. CASE ZeroHosts \/ \E f \in Families : FailLink(f)
    <2>1. /\ UNCHANGED <<isUp, cb, watcher, epoch, registry, life, visited, late>>
          /\ link # "stopping"
      BY <1>7 DEF ZeroHosts, FailLink, Gated, Hop!ZeroCounters, Hop!FailGateways, hopVars
    <2>2. MakesNone
      BY <2>1 DEF MakesNone
    <2>3. PlanInv' /\ LatestInv'
      BY <2>1, <2>2, PlanSame, LatestSame DEF SideInv
    <2> QED
      BY <2>1, <2>3 DEF SideInv, RegistryInv, CallInv, Hop!InCallback, Alive
  <1> QED
    BY <1>1, <1>2, <1>3, <1>4, <1>5, <1>6, <1>7 DEF LinkRuns

-----------------------------------------------------------------------------
LEMMA PlanOther ==
    ASSUME NEW e \in Epochs, PlanOf(e), watcher'[e] = watcher[e], UNCHANGED epoch,
           \A h \in Hosts : life'[<<e, h>>] = "none" <=> life[<<e, h>>] = "none"
    PROVE  PlanOf(e)'
  <1>1. \A f : HostsOf(f) \subseteq Hosts
    BY DEF HostsOf
  <1> QED
    BY <1>1 DEF PlanOf, Busy, ToStart

(* The watcher of epoch e goes on, and makes no monitor.                   *)
LEMMA PlanOnly ==
    ASSUME PlanInv, NEW e \in Epochs, UNCHANGED <<epoch, life>>,
           \A d \in Epochs \ {e} : watcher'[d] = watcher[d],
           PlanOf(e)'
    PROVE  PlanInv'
  BY PlanOther DEF PlanInv

LEMMA FindPlan ==
    ASSUME TypeInv, SideInv, NEW e \in Epochs, NEW f \in Families, FindAddress(e, f)
    PROVE  PlanInv'
  <1> DEFINE hosts == IF HostsOf("v4") # {} THEN HostsOf(f) ELSE {}
             pc == IF HostsOf("v4") # {} THEN "hosts" ELSE "select"
  <1>1. watcher[e] \in Watchers /\ WatcherInv /\ PlanOf(e)
    BY DEF TypeInv, TypeOK, SideInv, PlanInv
  <1>2. /\ watcher' = [watcher EXCEPT ![e].ticking = @ \ {f}, ![e].fam = f,
                                      ![e].todo = hosts, ![e].pc = pc]
        /\ watcher[e].pc = "select" /\ f \in watcher[e].ticking
        /\ UNCHANGED <<epoch, life>>
    BY DEF FindAddress, linkVars, monVars
  <1>3. /\ \A d \in Epochs \ {e} : watcher'[d] = watcher[d]
        /\ watcher'[e].ticking = watcher[e].ticking \ {f}
        /\ watcher'[e].served = watcher[e].served
        /\ watcher'[e].fam = f /\ watcher'[e].todo = hosts /\ watcher'[e].pc = pc
        /\ watcher'[e].host = "none"
    BY <1>1, <1>2 DEF Watchers, WatcherInv, TypeInv, TypeOK
  <1>4. ~(e > epoch) /\ f \notin watcher[e].served
    <2>1. watcher[e].pc = "select" /\ f \in watcher[e].ticking
      BY <1>2
    <2> QED
      BY <1>1, <2>1 DEF PlanOf, NoWatcher
  <1>5. HostsOf(f) \subseteq Hosts /\ "none" \notin HostsOf(f)
    BY HostsAssumption DEF HostsOf
  <1> HIDE DEF hosts, pc
  <1>6. pc \in {"hosts", "select"} /\ (pc = "hosts" => hosts = HostsOf(f))
    BY DEF pc, hosts
  <1>7. PlanOf(e)'
    BY <1>1, <1>2, <1>3, <1>4, <1>5, <1>6 DEF PlanOf, Busy, ToStart
  <1> QED
    BY <1>2, <1>3, <1>7, PlanOnly DEF SideInv

LEMMA RulePlan ==
    ASSUME TypeInv, SideInv, NEW e \in Epochs, AddRule(e)
    PROVE  PlanInv'
  <1>1. watcher[e] \in Watchers /\ WatcherInv /\ PlanOf(e)
    BY DEF TypeInv, TypeOK, SideInv, PlanInv
  <1>2. PICK h \in watcher[e].todo :
           watcher' = [watcher EXCEPT ![e].todo = @ \ {h}, ![e].host = h,
                                      ![e].pc = "rule"]
    BY DEF AddRule
  <1>3. watcher[e].pc = "hosts" /\ UNCHANGED <<epoch, life>>
    BY DEF AddRule, linkVars
  <1>4. /\ \A d \in Epochs \ {e} : watcher'[d] = watcher[d]
        /\ watcher'[e].ticking = watcher[e].ticking
        /\ watcher'[e].served = watcher[e].served
        /\ watcher'[e].fam = watcher[e].fam
        /\ watcher'[e].todo = watcher[e].todo \ {h}
        /\ watcher'[e].host = h /\ watcher'[e].pc = "rule"
    BY <1>1, <1>2 DEF Watchers, TypeInv, TypeOK
  <1>5. ~(e > epoch) /\ Busy(e)
    BY <1>1, <1>3 DEF PlanOf, NoWatcher, Busy
  <1>6. watcher[e].host = "none" /\ h # "none"
    BY <1>1, <1>3, HostsAssumption DEF WatcherInv, Watchers
  <1>7. ToStart(e)' = ToStart(e)
    BY <1>4, <1>6 DEF ToStart
  <1>8. PlanOf(e)'
    BY <1>1, <1>3, <1>4, <1>5, <1>7 DEF PlanOf, Busy
  <1> QED
    BY <1>3, <1>4, <1>8, PlanOnly DEF SideInv

LEMMA StartPlan ==
    ASSUME TypeInv, SideInv, NEW e \in Epochs, AddMonitor(e)
    PROVE  /\ PlanInv'
           /\ life[<<e, watcher[e].host>>] = "none"
           /\ watcher[e].host \in HostsOf(watcher[e].fam)
  <1> DEFINE h == watcher[e].host
             m == <<e, h>>
             w == watcher[e]
  <1>1. /\ watcher[e] \in Watchers /\ WatcherInv /\ PlanOf(e)
        /\ life \in [Monitors -> Lives]
    BY DEF TypeInv, TypeOK, SideInv, PlanInv
  <1>2. /\ watcher' = [watcher EXCEPT ![e].host = "none",
               ![e].pc = IF watcher[e].todo = {} THEN "fail" ELSE "hosts"]
        /\ life' = [life EXCEPT ![m] = "running"]
        /\ w.pc = "rule" /\ UNCHANGED epoch
    BY DEF AddMonitor, linkVars
  <1>3. /\ \A d \in Epochs \ {e} : watcher'[d] = watcher[d]
        /\ watcher'[e].ticking = w.ticking /\ watcher'[e].served = w.served
        /\ watcher'[e].fam = w.fam /\ watcher'[e].todo = w.todo
        /\ watcher'[e].host = "none" /\ watcher'[e].pc \in {"hosts", "fail"}
        /\ watcher'[e].pc = "fail" => w.todo = {}
    BY <1>1, <1>2 DEF Watchers, TypeInv, TypeOK
  <1>4. ~(e > epoch) /\ Busy(e) /\ h # "none" /\ h \in Hosts /\ "none" \notin Hosts
    BY <1>1, <1>2, HostsAssumption DEF PlanOf, NoWatcher, Busy, WatcherInv, Watchers
  <1>5. h \in ToStart(e) /\ ToStart(e) = w.todo \cup {h} /\ h \notin w.todo
    BY <1>1, <1>4 DEF ToStart, PlanOf
  <1>6. h \in HostsOf(w.fam) /\ life[m] = "none"
    BY <1>1, <1>4, <1>5 DEF PlanOf
  <1>7. ToStart(e)' = w.todo
    BY <1>1, <1>3, <1>4 DEF ToStart, Watchers
  <1>8. \A g \in Hosts : life'[<<e, g>>] = IF g = h THEN "running" ELSE life[<<e, g>>]
    BY <1>1, <1>2 DEF Monitors
  <1>9. \A d \in Epochs \ {e} : \A g \in Hosts : life'[<<d, g>>] = life[<<d, g>>]
    BY <1>1, <1>2 DEF Monitors
  <1>10. \A f \in w.ticking : h \notin HostsOf(f)
    BY <1>1, <1>4, <1>6 DEF PlanOf, HostsOf
  <1>11. \A f : HostsOf(f) \subseteq Hosts
    BY DEF HostsOf
  <1>12. PlanOf(e)'
    <2>1. \A g \in HostsOf(w.fam) : life'[<<e, g>>] = "none" <=> g \in w.todo
      BY <1>1, <1>4, <1>5, <1>8, <1>11 DEF PlanOf
    <2>2. \A f \in w.ticking :
             HostsOf(f) # {} /\ \A g \in HostsOf(f) : life'[<<e, g>>] = "none"
      BY <1>1, <1>8, <1>10, <1>11 DEF PlanOf
    <2>3. w.fam \notin w.ticking \cup w.served /\ w.todo \subseteq HostsOf(w.fam)
      BY <1>1, <1>4, <1>5 DEF PlanOf
    <2>4. w.todo \subseteq Hosts /\ w.ticking \cap w.served = {}
      BY <1>1 DEF PlanOf, Watchers
    <2> QED
      BY <1>2, <1>3, <1>4, <1>7, <2>1, <2>2, <2>3, <2>4 DEF PlanOf, Busy
  <1>13. \A d \in Epochs \ {e} : PlanOf(d)'
    BY <1>2, <1>3, <1>9, PlanOther DEF SideInv, PlanInv
  <1> QED
    BY <1>6, <1>12, <1>13 DEF PlanInv

LEMMA FailPlan ==
    ASSUME TypeInv, SideInv, NEW e \in Epochs, FailStarted(e)
    PROVE  PlanInv'
  <1>1. watcher[e] \in Watchers /\ PlanOf(e)
    BY DEF TypeInv, TypeOK, SideInv, PlanInv
  <1>2. /\ watcher' = [watcher EXCEPT ![e].pc = "select",
                                      ![e].served = @ \cup {watcher[e].fam}]
        /\ watcher[e].pc = "fail" /\ UNCHANGED <<epoch, life>>
    BY DEF FailStarted, linkVars, monVars
  <1>3. /\ \A d \in Epochs \ {e} : watcher'[d] = watcher[d]
        /\ watcher'[e].ticking = watcher[e].ticking
        /\ watcher'[e].served = watcher[e].served \cup {watcher[e].fam}
        /\ watcher'[e].pc = "select"
    BY <1>1, <1>2 DEF Watchers, TypeInv, TypeOK
  <1>4. ~(e > epoch) /\ Busy(e)
    BY <1>1, <1>2 DEF PlanOf, NoWatcher, Busy
  <1>5. PlanOf(e)'
    BY <1>1, <1>2, <1>3, <1>4 DEF PlanOf, Busy
  <1> QED
    BY <1>2, <1>3, <1>5, PlanOnly DEF SideInv

LEMMA EndPlan ==
    ASSUME TypeInv, SideInv, NEW e \in Epochs, WatcherEnds(e)
    PROVE  PlanInv'
  <1>1. watcher[e] \in Watchers /\ PlanOf(e)
    BY DEF TypeInv, TypeOK, SideInv, PlanInv
  <1>2. /\ watcher' = [watcher EXCEPT ![e].pc = "ended"]
        /\ watcher[e].pc = "select" /\ UNCHANGED <<epoch, life>>
    BY DEF WatcherEnds, linkVars, monVars
  <1>3. /\ \A d \in Epochs \ {e} : watcher'[d] = watcher[d]
        /\ watcher'[e].ticking = watcher[e].ticking
        /\ watcher'[e].served = watcher[e].served
        /\ watcher'[e].pc = "ended"
    BY <1>1, <1>2 DEF Watchers, TypeInv, TypeOK
  <1>4. ~(e > epoch)
    BY <1>1, <1>2 DEF PlanOf, NoWatcher
  <1>5. PlanOf(e)'
    BY <1>1, <1>2, <1>3, <1>4 DEF PlanOf, Busy
  <1> QED
    BY <1>2, <1>3, <1>5, PlanOnly DEF SideInv

LEMMA StartSide ==
    ASSUME TypeInv, SideInv, NEW e \in Epochs, InSession(e), AddMonitor(e)
    PROVE  SideInv'
  <1> DEFINE h == watcher[e].host
             m == <<e, h>>
  <1>1. PlanInv' /\ life[m] = "none" /\ h \in Hosts /\ m \in Monitors
    BY StartPlan DEF HostsOf, Monitors
  <1>2. /\ registry' = [registry EXCEPT ![HostName[h]] = m]
        /\ life' = [life EXCEPT ![m] = "running"]
        /\ late' = late /\ UNCHANGED <<hopVars, link, epoch, visited>>
    BY DEF AddMonitor, InSession, linkVars
  <1>3. /\ registry \in [Names -> Monitors \cup {NoMonitor}]
        /\ life \in [Monitors -> Lives]
        /\ visited \in Monitors \cup {NoMonitor}
    BY DEF TypeInv, TypeOK
  <1>4. RegistryInv'
    BY <1>1, <1>2, <1>3 DEF SideInv, RegistryInv
  <1>5. CallInv'
    BY <1>1, <1>2, <1>3 DEF SideInv, CallInv, hopVars, Hop!InCallback, Alive
  <1>6. LatestInv'
    <2> SUFFICES ASSUME NEW g \in Hosts, Made(g)' # {}
                 PROVE  \E d \in Made(g)' : \A c \in Made(g)' : c <= d
      BY DEF LatestInv
    <2>1. CASE g = h
      <3>1. \A d \in Made(g)' : d <= e
        BY <1>1, <1>2, <1>3 DEF Made, InSession, PlanInv, PlanOf, Epochs, TypeInv, TypeOK
      <3>2. e \in Made(g)'
        BY <1>1, <1>2, <1>3, <2>1 DEF Made
      <3> QED
        BY <3>1, <3>2
    <2>2. CASE g # h
      <3>1. Made(g)' = Made(g)
        BY <1>1, <1>2, <1>3, <2>2 DEF Made, Monitors
      <3> QED
        BY <2>2, <3>1 DEF SideInv, LatestInv
    <2> QED
      BY <2>1, <2>2 DEF SideInv, LatestInv
  <1> QED
    BY <1>1, <1>2, <1>4, <1>5, <1>6 DEF SideInv

LEMMA WatcherSide ==
    ASSUME TypeInv, SideInv, clean', NEW e \in Epochs,
           \/ \E f \in Families : FindAddress(e, f)
           \/ StartsHosts(e)
           \/ WatcherEnds(e)
    PROVE  SideInv'
  <1> USE DEF linkVars, monVars, loopVars
  <1>1. CASE AddMonitor(e)
    BY <1>1, StartSide DEF AddMonitor, Acts
  <1>2. CASE ~AddMonitor(e)
    <2>1. PlanInv'
      BY <1>2, FindPlan, RulePlan, FailPlan, EndPlan DEF StartsHosts
    <2>2. UNCHANGED <<isUp, cb, link, registry, life, visited, late>>
      BY <1>2 DEF StartsHosts, FindAddress, AddRule, FailStarted, WatcherEnds,
                  Gated, Hop!FailGateways, hopVars
    <2>3. LatestInv'
      BY <2>2, LatestSame DEF SideInv, MakesNone
    <2> QED
      BY <2>1, <2>2, <2>3 DEF SideInv, RegistryInv, CallInv, Hop!InCallback, Alive
  <1> QED
    BY <1>1, <1>2

-----------------------------------------------------------------------------
(* The callbacks.                                                          *)
LEMMA ContinueCall ==
    ASSUME TypeInv, NEW m \in Monitors, NEW dir, NEW out, NEW edge,
           Hop!Continue(m, dir, out, edge)
    PROVE  /\ \A k \in Monitors \ {m} : cb'[k] = cb[k] /\ isUp'[k] = isUp[k]
           /\ ~Hop!InCallback(m)' => cb'[m] = Hop!Idle
  BY DEF Hop!Continue, Hop!InCallback, TypeInv, TypeOK, Hop!HopTypeOK

LEMMA MonitorSide ==
    ASSUME TypeInv, SideInv, NEW m \in Monitors, Up(m) \/ Down(m) \/ Clamp(m) \/ Act(m)
    PROVE  SideInv'
  <1> USE DEF callFrame, linkVars, loopVars
  <1>1. life \in [Monitors -> Lives]
    BY DEF TypeInv, TypeOK
  <1>2. /\ \A k \in Monitors \ {m} : life'[k] = life[k]
        /\ Alive(m) /\ Alive(m)'
        /\ UNCHANGED <<link, watcher, epoch, registry, visited, late>>
    <2>1. CASE Up(m) \/ Down(m)
      BY <1>1, <2>1 DEF Up, Down, MayCall, Alive
    <2>2. CASE Clamp(m) \/ Act(m)
      <3>1. Hop!InCallback(m)
        BY <2>2 DEF Clamp, Act, Hop!Clamp, Hop!InCallback
      <3> QED
        BY <2>2, <3>1 DEF Clamp, Act, SideInv, CallInv, Alive
    <2> QED
      BY <2>1, <2>2
  <1>3. MakesNone
    BY <1>2 DEF MakesNone, Alive
  <1>4. /\ \A k \in Monitors \ {m} : cb'[k] = cb[k] /\ isUp'[k] = isUp[k]
        /\ ~Hop!InCallback(m)' => cb'[m] = Hop!Idle
    <2>1. CASE Up(m) \/ Down(m) \/ Clamp(m)
      <3>1. PICK dir, out, edge : Hop!Continue(m, dir, out, edge)
        BY <2>1 DEF Up, Down, Clamp, Hop!HostUp, Hop!HostDown, Hop!Clamp
      <3> QED
        BY <3>1, ContinueCall
    <2>2. CASE Act(m)
      BY <2>2 DEF Act, Gated, Hop!GatewayAction, Hop!InCallback, hopVars, SideInv,
                  CallInv, TypeInv, TypeOK, Hop!HopTypeOK
    <2> QED
      BY <2>1, <2>2
  <1>5. CallInv'
    BY <1>2, <1>4 DEF SideInv, CallInv, Alive, Hop!InCallback
  <1>6. PlanInv' /\ LatestInv'
    BY <1>2, <1>3, PlanSame, LatestSame DEF SideInv
  <1>7. RegistryInv'
    <2>1. \A k : k # NoMonitor /\ life[k] # "none" /\ k \in Monitors => life'[k] # "none"
      BY <1>3 DEF MakesNone
    <2> QED
      BY <1>2, <2>1 DEF SideInv, RegistryInv, TypeInv, TypeOK
  <1> QED
    BY <1>2, <1>5, <1>6, <1>7 DEF SideInv

LEMMA SideStep ==
    ASSUME TypeInv, CleanInv, AliveInv, SideInv, clean, clean', [Next]_vars
    PROVE  SideInv'
  <1>1. CASE UNCHANGED vars
    <2>1. UNCHANGED <<hopVars, link, watcher, epoch, registry, life, visited, late>>
      BY <1>1 DEF vars, linkVars, monVars, loopVars
    <2>2. MakesNone
      BY <2>1 DEF MakesNone
    <2> QED
      BY <2>1, <2>2, SideSame DEF Alive, SideInv, RegistryInv
  <1>2. CASE Next
    BY <1>2, LinkSide, WatcherSide, MonitorSide DEF Next
  <1> QED
    BY <1>1, <1>2

-----------------------------------------------------------------------------
(* The session's monitor of a host is the last one that was made.          *)
LEMMA LastIn ==
    ASSUME SideInv, NEW h \in Hosts
    PROVE  LastOf(h) \in Epochs /\ <<LastOf(h), h>> \in Monitors
  <1>1. CASE Made(h) = {}
    BY <1>1, MaxEpochAssumption DEF LastOf, Epochs, Monitors
  <1>2. CASE Made(h) # {}
    <2>1. PICK e \in Made(h) : \A d \in Made(h) : d <= e
      BY <1>2 DEF SideInv, LatestInv
    <2>2. Max(Made(h)) \in Made(h)
      BY <2>1 DEF Max, Made, Epochs
    <2> QED
      BY <1>2, <2>2 DEF LastOf, Made, Monitors
  <1> QED
    BY <1>1, <1>2

LEMMA LastNow ==
    ASSUME TypeInv, SideInv, NEW h \in Hosts, epoch \in Epochs,
           life[<<epoch, h>>] # "none"
    PROVE  LastOf(h) = epoch
  <1>1. epoch \in Made(h)
    BY DEF Made
  <1>2. \A d \in Made(h) : d <= epoch
    BY DEF Made, SideInv, PlanInv, PlanOf, Epochs
  <1>3. \A d \in Made(h) : d \in Int
    BY DEF Made, Epochs
  <1>4. Max(Made(h)) = epoch
    BY <1>1, <1>2, <1>3 DEF Max
  <1> QED
    BY <1>1, <1>4 DEF LastOf

LEMMA AliveNow ==
    ASSUME TypeInv, AliveInv, SideInv, NEW m \in Monitors, Alive(m)
    PROVE  /\ HostOf(m) \in Hosts /\ epoch \in Epochs
           /\ m = <<epoch, HostOf(m)>> /\ LastOf(HostOf(m)) = epoch
           /\ registry[NameOf(m)] = m /\ StillToStop(m)
  <1>1. EpochOf(m) = epoch /\ registry[NameOf(m)] = m /\ StillToStop(m)
    BY DEF AliveInv, SideInv
  <1>2. HostOf(m) \in Hosts /\ epoch \in Epochs /\ m = <<epoch, HostOf(m)>>
    BY <1>1 DEF Monitors, HostOf, EpochOf
  <1>3. life[<<epoch, HostOf(m)>>] # "none"
    BY <1>2 DEF Alive
  <1> QED
    BY <1>1, <1>2, <1>3, LastNow

(* So every callback is the session's.                                     *)
LEMMA CallsNow ==
    ASSUME TypeInv, AliveInv, SideInv, NEW m \in Monitors, Hop!InCallback(m)
    PROVE  /\ HostOf(m) \in Hosts /\ m = <<LastOf(HostOf(m)), HostOf(m)>>
           /\ Alive(m)
  BY AliveNow DEF SideInv, CallInv

LEMMA FamilyNow ==
    ASSUME NEW m \in Monitors
    PROVE  FamilyOf[m] = HostFamily[HostOf(m)] /\ FamilyOf[m] \in Families
  BY FamilyType DEF FamilyOf

LEMMA PendingNow ==
    ASSUME TypeInv, AliveInv, SideInv, NEW f
    PROVE  Session!Pending(f) <=> Hop!Pending(f)
  <1>1. ASSUME Session!Pending(f) PROVE Hop!Pending(f)
    <2>1. PICK h \in Hosts : HostFamily[h] = f /\ Session!InCallback(h) /\ SessionCb[h].edge
      BY <1>1 DEF Session!Pending
    <2>2. <<LastOf(h), h>> \in Monitors /\ HostOf(<<LastOf(h), h>>) = h
      BY LastIn DEF HostOf
    <2> QED
      BY <2>1, <2>2, FamilyNow
      DEF Hop!Pending, Hop!InCallback, Session!InCallback, SessionCb
  <1>2. ASSUME Hop!Pending(f) PROVE Session!Pending(f)
    <2>1. PICK m \in Monitors : FamilyOf[m] = f /\ Hop!InCallback(m) /\ cb[m].edge
      BY <1>2 DEF Hop!Pending
    <2> QED
      BY <2>1, CallsNow, FamilyNow
      DEF Session!Pending, Hop!InCallback, Session!InCallback, SessionCb
  <1> QED
    BY <1>1, <1>2

-----------------------------------------------------------------------------
(* What steps do to the session's variables.                               *)
Stays == UNCHANGED Session!vars

LEMMA CallsSame ==
    ASSUME MakesNone, UNCHANGED <<isUp, cb>>
    PROVE  SessionIsUp' = SessionIsUp /\ SessionCb' = SessionCb
  BY MadeSame DEF SessionIsUp, SessionCb

LEMMA MonSame ==
    ASSUME TypeInv, MakesNone, UNCHANGED epoch,
           \A m \in Monitors : Alive(m)' <=> Alive(m)
    PROVE  SessionMon' = SessionMon
  <1> SUFFICES ASSUME NEW h \in Hosts PROVE SessionMonOf(h)' = SessionMonOf(h)
    BY DEF SessionMon
  <1>1. CASE epoch = 0
    BY <1>1 DEF SessionMonOf, Current
  <1>2. CASE epoch # 0
    <2>1. <<epoch, h>> \in Monitors
      BY <1>2 DEF TypeInv, TypeOK, Monitors, Epochs
    <2> QED
      BY <1>2, <2>1 DEF SessionMonOf, Current, MakesNone, Alive
  <1> QED
    BY <1>1, <1>2

LEMMA StartSame ==
    ASSUME UNCHANGED <<watcher, epoch>>
    PROVE  SessionStart' = SessionStart /\ SessionStarted' = SessionStarted
  BY DEF SessionStart, SessionStarted, Busy

LEMMA StaysSame ==
    ASSUME UNCHANGED <<upHosts, SessionIsUp, SessionCb, gateway, spoilt, SessionLink,
                       SessionMon, SessionStart, SessionStarted>>
    PROVE  Stays
  BY DEF Stays, Session!vars, Session!hopVars, Session!sessionVars

(* The rest of a callback is the same, seen from the session.              *)
LEMMA ContinueSession ==
    ASSUME TypeInv, SideInv, MakesNone, NEW h \in Hosts, NEW m \in Monitors,
           m = <<LastOf(h), h>>, NEW dir, NEW out, NEW edge,
           Hop!Continue(m, dir, out, edge)
    PROVE  Session!Continue(h, dir, out, edge) /\ SessionCb'[h] = cb'[m]
  <1>1. \A g \in Hosts : LastOf(g)' = LastOf(g) /\ <<LastOf(g), g>> \in Monitors
    BY MadeSame, LastIn
  <1>2. SessionCb' = [g \in Hosts |-> cb'[<<LastOf(g), g>>]]
    BY <1>1 DEF SessionCb
  <1>3. SessionIsUp' = [g \in Hosts |-> isUp'[<<LastOf(g), g>>]]
    BY <1>1 DEF SessionIsUp
  <1>4. cb \in [Monitors -> Hop!Callbacks] /\ isUp \in [Monitors -> BOOLEAN]
    BY DEF TypeInv, TypeOK, Hop!HopTypeOK
  <1>5. ASSUME NEW c, cb' = [cb EXCEPT ![m] = c]
        PROVE  SessionCb' = [SessionCb EXCEPT ![h] = c]
    <2>1. \A g \in Hosts : <<LastOf(g), g>> = m <=> g = h
      OBVIOUS
    <2>2. \A g \in Hosts : cb'[<<LastOf(g), g>>] = IF g = h THEN c ELSE cb[<<LastOf(g), g>>]
      BY <1>1, <1>4, <1>5, <2>1
    <2> QED
      BY <1>2, <2>2 DEF SessionCb
  <1>6. ASSUME NEW c, isUp' = [isUp EXCEPT ![m] = c]
        PROVE  SessionIsUp' = [SessionIsUp EXCEPT ![h] = c]
    <2>1. \A g \in Hosts : <<LastOf(g), g>> = m <=> g = h
      OBVIOUS
    <2>2. \A g \in Hosts : isUp'[<<LastOf(g), g>>] = IF g = h THEN c ELSE isUp[<<LastOf(g), g>>]
      BY <1>1, <1>4, <1>6, <2>1
    <2> QED
      BY <1>3, <2>2 DEF SessionIsUp
  <1>7. isUp' = isUp => SessionIsUp' = SessionIsUp
    BY <1>3 DEF SessionIsUp
  <1>8. Session!Continue(h, dir, out, edge)
    <2>1. CASE out \/ edge
      BY <1>5, <1>7, <2>1 DEF Hop!Continue, Session!Continue
    <2>2. CASE ~out /\ ~edge
      BY <1>5, <1>6, <2>2 DEF Hop!Continue, Session!Continue, Hop!Idle, Session!Idle
    <2> QED
      BY <2>1, <2>2 DEF Hop!Continue
  <1> QED
    BY <1>2, <1>8

-----------------------------------------------------------------------------
(* The constants are what the session asks for.                            *)
LEMMA SessionConstants ==
    /\ HostFamily \in [Hosts -> Proved!Families]
    /\ Total \in [Proved!Families -> Nat]
    /\ MinimumUp \in Nat \ {0}
    /\ RoutesFail \in BOOLEAN
    /\ Proved!IsFiniteSet(Hosts)
    /\ \A f \in Proved!Families : Total[f] = Proved!Cardinality(Proved!HostsOf(f))
  <1>1. HostFamily \in [Hosts -> Proved!Families]
    BY HostFamilyAssumption DEF Proved!Families
  <1>2. Total \in [Proved!Families -> Nat]
    BY TotalType DEF Proved!Families, Families, Hop!Families
  <1>3. Proved!IsFiniteSet(Hosts)
    BY HostsAssumption DEF Proved!IsFiniteSet, IsFiniteSet
  <1>4. \A f \in Proved!Families : Total[f] = Proved!Cardinality(Proved!HostsOf(f))
    BY DEF Proved!Families, Total, HostsOf, Proved!HostsOf, Proved!Cardinality, Cardinality
  <1> QED
    BY <1>1, <1>2, <1>3, <1>4, MinimumUpAssumption, RoutesFailAssumption

(* No counter is out of range in a session.                                *)
LEMMA NoClamp ==
    ASSUME TypeInv, AliveInv, SideInv, Proved!IInv, NEW m \in Monitors
    PROVE  cb[m].at # "clamp"
  <1>1. \A h \in Hosts : SessionCb[h].at # "clamp"
    BY Proved!InRange, SessionConstants DEF Proved!CountInRange
  <1> SUFFICES ASSUME cb[m].at = "clamp" PROVE FALSE
    OBVIOUS
  <1>2. HostOf(m) \in Hosts /\ m = <<LastOf(HostOf(m)), HostOf(m)>>
    BY CallsNow DEF Hop!InCallback
  <1>3. SessionCb[HostOf(m)] = cb[m]
    BY <1>2 DEF SessionCb
  <1> QED
    BY <1>1, <1>2, <1>3

-----------------------------------------------------------------------------
(* The steps of the monitors.                                              *)
LEMMA CallSession ==
    ASSUME TypeInv, AliveInv, SideInv, NEW m \in Monitors, Up(m) \/ Down(m)
    PROVE  \E h \in Hosts : Session!Up(h) \/ Session!Down(h)
  <1> DEFINE h == HostOf(m)
  <1>1. life \in [Monitors -> Lives] /\ cb \in [Monitors -> Hop!Callbacks]
    BY DEF TypeInv, TypeOK, Hop!HopTypeOK
  <1>2. Alive(m)
    BY DEF Up, Down, MayCall, Alive
  <1>3. h \in Hosts /\ epoch \in Epochs /\ m = <<LastOf(h), h>> /\ LastOf(h) = epoch
    BY <1>2, AliveNow
  <1>4. /\ UNCHANGED <<watcher, epoch, link>>
        /\ \A k \in Monitors : Alive(k)' <=> Alive(k)
        /\ MayCall(m)
    BY <1>1, CallKeeps DEF Up, Down, callFrame, linkVars
  <1>5. MakesNone
    BY <1>1, <1>4 DEF MayCall, MakesNone
  <1>6. UNCHANGED Session!sessionVars
    BY <1>4, <1>5, MonSame, StartSame DEF Session!sessionVars, SessionLink
  <1>7. SessionMon[h] = "running"
    BY <1>2, <1>3 DEF SessionMon, SessionMonOf, Current, Alive, Epochs
  <1>8. SessionCb[h] = cb[m] /\ SessionIsUp[h] = isUp[m] /\ HostFamily[h] = FamilyOf[m]
    BY <1>3, FamilyNow DEF SessionCb, SessionIsUp
  <1>9. Hop!InCallback(m) <=> Session!InCallback(h)
    BY <1>8 DEF Hop!InCallback, Session!InCallback
  <1>10. ASSUME SessionCb'[h] = cb'[m], Hop!Report(m) PROVE Session!Report(h)
    BY <1>8, <1>10, PendingNow DEF Hop!Report, Session!Report
  <1>11. CASE Up(m)
    <2> DEFINE up == upHosts[HostFamily[h]] + 1
    <2>1. /\ ~Hop!InCallback(m) /\ ~isUp[m]
          /\ upHosts' = [upHosts EXCEPT ![HostFamily[h]] = up]
          /\ Hop!Continue(m, "up", up > Total[HostFamily[h]], up = MinimumUp)
          /\ Hop!Report(m) /\ UNCHANGED gateway
      BY <1>8, <1>11 DEF Up, Hop!HostUp
    <2> HIDE DEF h
    <2>2. /\ Session!Continue(h, "up", up > Total[HostFamily[h]], up = MinimumUp)
          /\ SessionCb'[h] = cb'[m]
      BY <1>3, <1>5, <2>1, ContinueSession
    <2>3. Session!HostUp(h)
      BY <1>8, <1>9, <1>10, <2>1, <2>2 DEF Session!HostUp
    <2> QED
      BY <1>3, <1>6, <1>7, <2>3 DEF Session!Up
  <1>12. CASE Down(m)
    <2> DEFINE up == upHosts[HostFamily[h]] - 1
    <2>1. /\ ~Hop!InCallback(m) /\ isUp[m]
          /\ upHosts' = [upHosts EXCEPT ![HostFamily[h]] = up]
          /\ Hop!Continue(m, "down", up < 0, up = MinimumUp - 1)
          /\ Hop!Report(m) /\ UNCHANGED gateway
      BY <1>8, <1>12 DEF Down, Hop!HostDown
    <2> HIDE DEF h
    <2>2. /\ Session!Continue(h, "down", up < 0, up = MinimumUp - 1)
          /\ SessionCb'[h] = cb'[m]
      BY <1>3, <1>5, <2>1, ContinueSession
    <2>3. Session!HostDown(h)
      BY <1>8, <1>9, <1>10, <2>1, <2>2 DEF Session!HostDown
    <2> QED
      BY <1>3, <1>6, <1>7, <2>3 DEF Session!Down
  <1> QED
    BY <1>11, <1>12

(* A change of the routes without a table is none: the process dies.       *)
LEMMA MovedSession ==
    ASSUME NEW f, NEW dir, NEW why, Hop!Moved(f, dir, why)
    PROVE  Session!Moved(f, dir, why)
  BY DEF Hop!Moved, Session!Moved

LEMMA ActSession ==
    ASSUME TypeInv, AliveInv, SideInv, HasTable, NEW m \in Monitors, Act(m)
    PROVE  \E h \in Hosts : Session!Act(h)
  <1> DEFINE h == HostOf(m)
  <1>1. /\ Hop!GatewayAction(m) /\ Hop!InCallback(m)
        /\ UNCHANGED <<watcher, epoch, link, life>>
    BY DEF Act, Gated, Hop!InCallback, callFrame, linkVars
  <1>2. h \in Hosts /\ m = <<LastOf(h), h>>
    BY <1>1, CallsNow
  <1>3. MakesNone /\ \A k \in Monitors : Alive(k)' <=> Alive(k)
    BY <1>1 DEF MakesNone, Alive
  <1>4. UNCHANGED Session!sessionVars
    BY <1>1, <1>3, MonSame, StartSame DEF Session!sessionVars, SessionLink
  <1>5. SessionCb[h] = cb[m] /\ HostFamily[h] = FamilyOf[m]
    BY <1>2, FamilyNow DEF SessionCb
  <1>6. Hop!Continue(m, cb[m].dir, FALSE, FALSE)
    BY <1>1 DEF Hop!GatewayAction, Hop!Continue
  <1> HIDE DEF h
  <1>7. Session!Continue(h, cb[m].dir, FALSE, FALSE)
    BY <1>2, <1>3, <1>6, ContinueSession
  <1>8. Session!GatewayAction(h)
    BY <1>1, <1>5, <1>7, MovedSession
    DEF Hop!GatewayAction, Session!GatewayAction, Session!Continue
  <1> QED
    BY <1>2, <1>4, <1>8 DEF Session!Act

LEMMA MonitorSession ==
    ASSUME TypeInv, AliveInv, SideInv, HasTable, Proved!IInv, NEW m \in Monitors,
           Up(m) \/ Down(m) \/ Clamp(m) \/ Act(m)
    PROVE  \E h \in Hosts : Session!MonitorStep(h)
  <1>1. ~Clamp(m)
    BY NoClamp DEF Clamp, Hop!Clamp
  <1> QED
    BY <1>1, CallSession, ActSession DEF Session!MonitorStep

-----------------------------------------------------------------------------
(* The steps of a watcher, in its session.                                 *)
LEMMA InEpoch ==
    ASSUME TypeInv, NEW e \in Epochs, InSession(e)
    PROVE  /\ epoch \in Epochs /\ epoch > 0 /\ epoch # 0 /\ e = epoch
           /\ SessionLink = "up"
           /\ SessionStart = IF Busy(e) THEN watcher[e].fam ELSE "none"
           /\ SessionStarted = watcher[e].served
           /\ watcher[e] \in Watchers
  BY DEF InSession, Epochs, SessionLink, SessionStart, SessionStarted, TypeInv, TypeOK

LEMMA StaysHop ==
    ASSUME MakesNone, UNCHANGED hopVars
    PROVE  UNCHANGED Session!hopVars
  BY CallsSame DEF hopVars, Session!hopVars

LEMMA HostsSame == \A f : Session!HostsOf(f) = HostsOf(f)
  BY DEF Session!HostsOf, HostsOf

LEMMA FindSession ==
    ASSUME TypeInv, SideInv, clean', NEW e \in Epochs, NEW f \in Families,
           FindAddress(e, f)
    PROVE  Session!FindAddress(f) \/ Stays
  <1> DEFINE hosts == IF HostsOf("v4") # {} THEN HostsOf(f) ELSE {}
             pc == IF HostsOf("v4") # {} THEN "hosts" ELSE "select"
  <1>1. /\ InSession(e) /\ UNCHANGED <<hopVars, link, epoch, life>>
        /\ watcher[e].pc = "select" /\ f \in watcher[e].ticking
        /\ watcher' = [watcher EXCEPT ![e].ticking = @ \ {f}, ![e].fam = f,
                                      ![e].todo = hosts, ![e].pc = pc]
    BY DEF FindAddress, Acts, linkVars, monVars
  <1>2. /\ epoch > 0 /\ e = epoch /\ SessionLink = "up" /\ watcher[e] \in Watchers
        /\ SessionStart = "none" /\ SessionStarted = watcher[e].served
    BY <1>1, InEpoch DEF Busy
  <1>3. /\ watcher'[e].served = watcher[e].served
        /\ watcher'[e].fam = f /\ watcher'[e].pc = pc
    BY <1>1, <1>2 DEF Watchers, TypeInv, TypeOK
  <1>4. SessionStarted' = SessionStarted /\ SessionLink' = SessionLink
    BY <1>1, <1>2, <1>3 DEF SessionStarted, SessionLink
  <1>5. MakesNone /\ \A k \in Monitors : Alive(k)' <=> Alive(k)
    BY <1>1 DEF MakesNone, Alive
  <1>6. SessionMon' = SessionMon /\ UNCHANGED Session!hopVars
    BY <1>1, <1>5, MonSame, StaysHop
  <1>7. f \notin SessionStarted /\ HostsOf(f) # {}
    <2>1. PlanOf(e)
      BY DEF SideInv, PlanInv
    <2>2. f \in watcher[e].ticking
      BY <1>1
    <2> QED
      BY <1>2, <2>1, <2>2 DEF PlanOf
  <1> HIDE DEF hosts
  <1>8. CASE HostsOf("v4") # {}
    <2>1. SessionStart' = f
      BY <1>1, <1>2, <1>3, <1>8 DEF SessionStart, Busy
    <2> QED
      BY <1>2, <1>4, <1>6, <1>7, <1>8, <2>1, HostsSame DEF Session!FindAddress
  <1>9. CASE HostsOf("v4") = {}
    <2>1. SessionStart' = "none"
      BY <1>1, <1>2, <1>3, <1>9 DEF SessionStart, Busy
    <2> QED
      BY <1>2, <1>4, <1>6, <2>1 DEF Stays, Session!vars, Session!sessionVars
  <1> QED
    BY <1>8, <1>9

LEMMA RuleSession ==
    ASSUME TypeInv, SideInv, clean', NEW e \in Epochs, AddRule(e)
    PROVE  Stays
  <1>1. PICK h \in watcher[e].todo :
           watcher' = [watcher EXCEPT ![e].todo = @ \ {h}, ![e].host = h,
                                      ![e].pc = "rule"]
    BY DEF AddRule
  <1>2. /\ InSession(e) /\ UNCHANGED <<hopVars, link, epoch, life>>
        /\ watcher[e].pc = "hosts"
    BY DEF AddRule, Acts, linkVars, monVars
  <1>3. /\ epoch > 0 /\ e = epoch /\ watcher[e] \in Watchers
        /\ SessionStart = watcher[e].fam /\ SessionStarted = watcher[e].served
    BY <1>2, InEpoch DEF Busy
  <1>4. /\ watcher'[e].served = watcher[e].served
        /\ watcher'[e].fam = watcher[e].fam /\ watcher'[e].pc = "rule"
    BY <1>1, <1>3 DEF Watchers, TypeInv, TypeOK
  <1>5. UNCHANGED <<SessionStart, SessionStarted, SessionLink>>
    BY <1>2, <1>3, <1>4 DEF SessionStart, SessionStarted, SessionLink, Busy
  <1>6. MakesNone /\ \A k \in Monitors : Alive(k)' <=> Alive(k)
    BY <1>2 DEF MakesNone, Alive
  <1>7. SessionMon' = SessionMon /\ UNCHANGED Session!hopVars
    BY <1>2, <1>6, MonSame, StaysHop
  <1> QED
    BY <1>5, <1>7 DEF Stays, Session!vars, Session!sessionVars

LEMMA StartSession ==
    ASSUME TypeInv, AliveInv, SideInv, clean', NEW e \in Epochs, AddMonitor(e)
    PROVE  \E h \in Hosts : Session!StartMonitor(h)
  <1>0. watcher[e].host \in Hosts /\ life[<<e, watcher[e].host>>] = "none"
    BY StartPlan DEF HostsOf
  <1> PICK h \in Hosts : h = watcher[e].host
    BY <1>0
  <1> DEFINE m == <<e, h>>
  <1>1. /\ InSession(e) /\ UNCHANGED <<hopVars, link, epoch>>
        /\ life' = [life EXCEPT ![m] = "running"]
        /\ watcher' = [watcher EXCEPT ![e].host = "none",
               ![e].pc = IF watcher[e].todo = {} THEN "fail" ELSE "hosts"]
        /\ watcher[e].pc = "rule"
    BY DEF AddMonitor, Acts, linkVars
  <1>2. /\ epoch > 0 /\ epoch # 0 /\ epoch \in Epochs /\ e = epoch
        /\ watcher[e] \in Watchers
        /\ SessionStart = watcher[e].fam /\ SessionStarted = watcher[e].served
    BY <1>1, InEpoch DEF Busy
  <1>3. /\ watcher'[e].served = watcher[e].served
        /\ watcher'[e].fam = watcher[e].fam /\ watcher'[e].pc \in {"hosts", "fail"}
    BY <1>1, <1>2 DEF Watchers, TypeInv, TypeOK
  <1>4. UNCHANGED <<SessionStart, SessionStarted, SessionLink>>
    BY <1>1, <1>2, <1>3 DEF SessionStart, SessionStarted, SessionLink, Busy
  <1>5. life[m] = "none" /\ h \in Hosts /\ m \in Monitors /\ SessionStart = HostFamily[h]
    BY <1>0, <1>2, StartPlan DEF HostsOf, Monitors
  <1>6. SideInv' /\ TypeInv'
    BY <1>1, StartSide, WatcherType DEF StartsHosts
  <1>7. life \in [Monitors -> Lives]
    BY DEF TypeInv, TypeOK
  <1>8. LastOf(h)' = epoch
    <2>1. epoch \in Made(h)'
      BY <1>1, <1>2, <1>5, <1>7 DEF Made
    <2>2. \A d \in Made(h)' : d <= epoch
      <3>1. \A d \in Epochs : d > epoch => life'[<<d, h>>] = "none"
        BY <1>1, <1>6 DEF SideInv, PlanInv, PlanOf
      <3> QED
        BY <1>2, <3>1 DEF Made, Epochs
    <2>3. \A d \in Made(h)' : d \in Int
      BY DEF Made, Epochs
    <2>4. Max(Made(h)') = epoch
      BY <2>1, <2>2, <2>3 DEF Max
    <2> QED
      BY <2>1, <2>4 DEF LastOf
  <1>9. \A g \in Hosts \ {h} : LastOf(g)' = LastOf(g)
    <2>1. \A g \in Hosts \ {h} : Made(g)' = Made(g)
      BY <1>1, <1>7 DEF Made, Monitors
    <2> QED
      BY <2>1 DEF LastOf
  <1>10. \A k \in Monitors : ~Alive(k) => cb[k] = Hop!Idle
    BY DEF SideInv, CallInv
  <1>11. ~Alive(<<LastOf(h), h>>) /\ ~Alive(m) /\ <<LastOf(h), h>> \in Monitors
    <2>1. <<LastOf(h), h>> \in Monitors
      BY <1>5, LastIn
    <2>2. ~Alive(m)
      BY <1>5 DEF Alive
    <2>3. Alive(<<LastOf(h), h>>) => LastOf(h) = epoch
      BY <2>1, AliveNow
    <2> QED
      BY <1>2, <2>1, <2>2, <2>3
  <1>12. cb[m] = cb[<<LastOf(h), h>>] /\ ~isUp[m]
    BY <1>5, <1>10, <1>11 DEF SideInv, CallInv
  <1>13. SessionCb' = SessionCb
    <2>1. \A g \in Hosts : cb'[<<LastOf(g)', g>>] = cb[<<LastOf(g), g>>]
      BY <1>1, <1>2, <1>8, <1>9, <1>12 DEF hopVars
    <2> QED
      BY <2>1 DEF SessionCb
  <1>14. SessionIsUp' = [SessionIsUp EXCEPT ![h] = FALSE]
    <2>1. isUp'[<<LastOf(h)', h>>] = FALSE
      BY <1>1, <1>2, <1>5, <1>8, <1>12 DEF hopVars, TypeInv, TypeOK, Hop!HopTypeOK
    <2>2. \A g \in Hosts \ {h} : isUp'[<<LastOf(g)', g>>] = isUp[<<LastOf(g), g>>]
      BY <1>1, <1>9 DEF hopVars
    <2> QED
      BY <2>1, <2>2 DEF SessionIsUp
  <1>15. SessionMon[h] = "new" /\ SessionMon' = [SessionMon EXCEPT ![h] = "running"]
    <2>1. \A g \in Hosts \ {h} : SessionMonOf(g)' = SessionMonOf(g)
      BY <1>1, <1>2, <1>7 DEF SessionMonOf, Current, Monitors
    <2>2. SessionMonOf(h) = "new" /\ SessionMonOf(h)' = "running"
      BY <1>1, <1>2, <1>5, <1>7 DEF SessionMonOf, Current
    <2> QED
      BY <1>5, <2>1, <2>2 DEF SessionMon
  <1> QED
    BY <1>1, <1>4, <1>5, <1>13, <1>14, <1>15 DEF Session!StartMonitor, hopVars

(* The routes are failed, in the session as in the code.                   *)
LEMMA FailSession ==
    ASSUME TypeInv, AliveInv, SideInv, HasTable, NEW f,
           UNCHANGED life, Gated(Hop!FailGateways(f))
    PROVE  Session!FailGateways(f)
  <1>1. MakesNone
    BY DEF MakesNone
  <1>2. UNCHANGED <<isUp, cb, upHosts>>
    BY DEF Gated, Hop!FailGateways
  <1>3. Hop!Moved(f, "down",
            IF Hop!Pending(f) \/ upHosts[f] >= MinimumUp THEN "late" ELSE "no")
    BY DEF Gated, Hop!FailGateways
  <1>4. Session!Moved(f, "down",
            IF Session!Pending(f) \/ upHosts[f] >= MinimumUp THEN "late" ELSE "no")
    BY <1>3, PendingNow DEF Session!Moved, Hop!Moved
  <1> QED
    BY <1>1, <1>2, <1>4, CallsSame DEF Session!FailGateways

LEMMA FailStartedSession ==
    ASSUME TypeInv, AliveInv, SideInv, HasTable, clean', NEW e \in Epochs,
           FailStarted(e)
    PROVE  \E f \in Families : Session!FailStarted(f)
  <1> DEFINE f == watcher[e].fam
  <1>1. /\ InSession(e) /\ UNCHANGED <<link, epoch, life>>
        /\ watcher' = [watcher EXCEPT ![e].pc = "select", ![e].served = @ \cup {f}]
        /\ watcher[e].pc = "fail" /\ Gated(Hop!FailGateways(f))
    BY DEF FailStarted, Acts, linkVars, monVars
  <1>2. /\ epoch > 0 /\ epoch # 0 /\ epoch \in Epochs /\ e = epoch
        /\ watcher[e] \in Watchers
        /\ SessionStart = f /\ SessionStarted = watcher[e].served
    BY <1>1, InEpoch DEF Busy
  <1>3. /\ watcher'[e].served = watcher[e].served \cup {f}
        /\ watcher'[e].pc = "select"
    BY <1>1, <1>2 DEF Watchers, TypeInv, TypeOK
  <1>4. /\ SessionStart' = "none" /\ SessionStarted' = SessionStarted \cup {f}
        /\ SessionLink' = SessionLink
    BY <1>1, <1>2, <1>3 DEF SessionStart, SessionStarted, SessionLink, Busy
  <1>5. MakesNone /\ \A k \in Monitors : Alive(k)' <=> Alive(k)
    BY <1>1 DEF MakesNone, Alive
  <1>6. SessionMon' = SessionMon
    BY <1>1, <1>5, MonSame
  <1>7. f \in Families
    BY <1>2 DEF Watchers
  <1>8. \A h \in HostsOf(f) : SessionMon[h] # "new"
    <2>1. \A h \in HostsOf(f) : h \in Hosts /\ life[<<epoch, h>>] # "none"
      <3>1. PlanOf(e) /\ Busy(e) /\ ToStart(e) = {}
        BY <1>1 DEF SideInv, PlanInv, PlanOf, Busy, ToStart, TypeInv, WatcherInv
      <3> QED
        BY <1>2, <3>1 DEF PlanOf, HostsOf
    <2> QED
      BY <1>2, <2>1 DEF SessionMon, SessionMonOf, Current
  <1>9. Session!FailGateways(f)
    BY <1>1, FailSession
  <1> QED
    BY <1>2, <1>4, <1>6, <1>7, <1>8, <1>9, HostsSame DEF Session!FailStarted

LEMMA EndSession ==
    ASSUME TypeInv, SideInv, NEW e \in Epochs, WatcherEnds(e)
    PROVE  Stays
  <1>1. /\ UNCHANGED <<hopVars, link, epoch, life>>
        /\ watcher' = [watcher EXCEPT ![e].pc = "ended"]
        /\ watcher[e].pc = "select" /\ watcher[e] \in Watchers
    BY DEF WatcherEnds, linkVars, monVars, TypeInv, TypeOK
  <1>2. \A d \in Epochs :
            /\ watcher'[d].served = watcher[d].served
            /\ watcher'[d].fam = watcher[d].fam
            /\ Busy(d)' <=> Busy(d)
    BY <1>1 DEF Busy, Watchers, TypeInv, TypeOK
  <1>3. epoch # 0 => epoch \in Epochs
    BY DEF Epochs, TypeInv, TypeOK
  <1>4. UNCHANGED <<SessionStart, SessionStarted, SessionLink>>
    BY <1>1, <1>2, <1>3 DEF SessionStart, SessionStarted, SessionLink
  <1>5. MakesNone /\ \A k \in Monitors : Alive(k)' <=> Alive(k)
    BY <1>1 DEF MakesNone, Alive
  <1>6. SessionMon' = SessionMon /\ UNCHANGED Session!hopVars
    BY <1>1, <1>5, MonSame, StaysHop
  <1> QED
    BY <1>4, <1>6 DEF Stays, Session!vars, Session!sessionVars

LEMMA WatcherSession ==
    ASSUME TypeInv, AliveInv, SideInv, HasTable, clean', NEW e \in Epochs,
           \/ \E f \in Families : FindAddress(e, f)
           \/ StartsHosts(e)
           \/ WatcherEnds(e)
    PROVE  Session!Next \/ Stays
  <1>1. Session!Families = Families
    BY DEF Session!Families, Families, Hop!Families
  <1>2. ASSUME NEW f \in Families, FindAddress(e, f) PROVE Session!Next \/ Stays
    BY <1>1, <1>2, FindSession DEF Session!Next, Session!FamilyStep
  <1>3. CASE AddRule(e) \/ WatcherEnds(e)
    BY <1>3, RuleSession, EndSession
  <1>4. CASE AddMonitor(e)
    BY <1>4, StartSession DEF Session!Next, Session!MonitorStep
  <1>5. CASE FailStarted(e)
    BY <1>1, <1>5, FailStartedSession DEF Session!Next, Session!FamilyStep
  <1> QED
    BY <1>2, <1>3, <1>4, <1>5 DEF StartsHosts

-----------------------------------------------------------------------------
(* The steps of the link monitor's goroutine.                              *)

(* A step that changes the link alone, or nothing of the session.          *)
LEMMA LinkOnly ==
    ASSUME TypeInv, MakesNone, UNCHANGED <<hopVars, watcher, epoch>>,
           \A m \in Monitors : Alive(m)' <=> Alive(m)
    PROVE  /\ UNCHANGED <<Session!hopVars, SessionMon, SessionStart, SessionStarted>>
           /\ SessionLink' = SessionLink => Stays
  BY MonSame, StartSame, StaysHop DEF Stays, Session!vars, Session!sessionVars

LEMMA QuietStart ==
    ASSUME TypeInv, BusyInv, clean, link # "up"
    PROVE  SessionStart = "none"
  BY DEF BusyInv, InSession, SessionStart, TypeInv, TypeOK, Epochs

LEMMA UpSession ==
    ASSUME TypeInv, BusyInv, SideInv, clean, RecvUp
    PROVE  Session!LinkUp
  <1>1. /\ UNCHANGED <<hopVars, life>> /\ epoch' = epoch + 1
        /\ link = "down" /\ link' = "up"
        /\ watcher' = [watcher EXCEPT ![epoch + 1].pc = "select",
               ![epoch + 1].ticking = {f \in Families : HostsOf(f) # {}}]
    BY DEF RecvUp, monVars
  <1>2. epoch \in Nat /\ epoch + 1 \in Epochs
    BY MaxEpochAssumption DEF RecvUp, TypeInv, TypeOK, Epochs
  <1>3. /\ watcher[epoch + 1] = NoWatcher
        /\ \A h \in Hosts : life[<<epoch + 1, h>>] = "none"
    BY <1>2 DEF SideInv, PlanInv, PlanOf
  <1>4. watcher'[epoch + 1].pc = "select" /\ watcher'[epoch + 1].served = {}
    BY <1>1, <1>2, <1>3 DEF NoWatcher, TypeInv, TypeOK
  <1>5. SessionStart = "none" /\ SessionStart' = "none" /\ SessionStarted' = {}
    BY <1>1, <1>2, <1>4, QuietStart DEF SessionStart, SessionStarted, Busy
  <1>6. SessionLink = "down" /\ SessionLink' = "up"
    BY <1>1 DEF SessionLink
  <1>7. SessionMon' = [m \in Hosts |-> "new"]
    BY <1>1, <1>2, <1>3 DEF SessionMon, SessionMonOf, Current
  <1>8. UNCHANGED Session!hopVars
    BY <1>1, StaysHop DEF MakesNone
  <1> QED
    BY <1>5, <1>6, <1>7, <1>8 DEF Session!LinkUp

LEMMA DownSession ==
    ASSUME TypeInv, clean', RecvDown
    PROVE  Session!LinkDown
  <1>1. /\ UNCHANGED <<hopVars, watcher, epoch, life>> /\ ~Busy(epoch)
        /\ link = "up" /\ link' = "stopping"
    BY DEF RecvDown, monVars
  <1>2. MakesNone /\ \A m \in Monitors : Alive(m)' <=> Alive(m)
    BY <1>1 DEF MakesNone, Alive
  <1>3. UNCHANGED <<Session!hopVars, SessionMon, SessionStart, SessionStarted>>
    BY <1>1, <1>2, LinkOnly
  <1>4. SessionLink = "up" /\ SessionLink' = "stopping" /\ SessionStart = "none"
    BY <1>1 DEF SessionLink, SessionStart
  <1> QED
    BY <1>3, <1>4 DEF Session!LinkDown

LEMMA VisitSession ==
    ASSUME TypeInv, NEW n \in Names, VisitMonitor(n)
    PROVE  Stays
  <1>1. /\ UNCHANGED <<hopVars, link, watcher, epoch>> /\ Cancel(registry[n])
        /\ life \in [Monitors -> Lives]
    BY DEF VisitMonitor, linkVars, TypeInv, TypeOK
  <1>2. MakesNone /\ \A m \in Monitors : Alive(m)' <=> Alive(m)
    BY <1>1, CancelKeeps DEF Cancel, MakesNone
  <1> QED
    BY <1>1, <1>2, LinkOnly DEF SessionLink

(* Stop returns of a monitor of the session, or of one stopped before.     *)
LEMMA StopSession ==
    ASSUME TypeInv, AliveInv, SideInv, StopMonitor
    PROVE  Stays \/ \E h \in Hosts : Session!StopMonitor(h)
  <1>1. /\ UNCHANGED <<hopVars, link, watcher, epoch>> /\ link = "stopping"
        /\ visited \in Monitors /\ life[visited] # "none"
        /\ ~Hop!InCallback(visited)
        /\ life' = [life EXCEPT ![visited] = "stopped"]
        /\ life \in [Monitors -> Lives]
    BY DEF StopMonitor, linkVars, TypeInv, TypeOK, SideInv, RegistryInv
  <1>2. MakesNone
    BY <1>1 DEF MakesNone
  <1>3. CASE ~Alive(visited)
    <2>1. \A m \in Monitors : Alive(m)' <=> Alive(m)
      BY <1>1, <1>3 DEF Alive
    <2> QED
      BY <1>1, <1>2, <2>1, LinkOnly DEF SessionLink
  <1>4. CASE Alive(visited)
    <2>1. PICK h \in Hosts : /\ visited = <<epoch, h>> /\ LastOf(h) = epoch
                             /\ epoch \in Epochs
      BY <1>1, <1>4, AliveNow
    <2>2. epoch # 0
      BY <2>1 DEF Epochs
    <2>3. /\ SessionMonOf(h) = "running" /\ SessionMonOf(h)' = "stopped"
          /\ \A g \in Hosts \ {h} : SessionMonOf(g)' = SessionMonOf(g)
      BY <1>1, <1>4, <2>1, <2>2 DEF SessionMonOf, Current, Alive, Monitors
    <2>4. SessionMon[h] = "running" /\ SessionMon' = [SessionMon EXCEPT ![h] = "stopped"]
      BY <2>3 DEF SessionMon
    <2>5. ~Session!InCallback(h)
      BY <1>1, <2>1 DEF Session!InCallback, SessionCb, Hop!InCallback
    <2>6. SessionLink = "stopping" /\ SessionLink' = SessionLink
      BY <1>1 DEF SessionLink
    <2>7. UNCHANGED <<Session!hopVars, SessionStart, SessionStarted>>
      BY <1>1, <1>2, StartSame, StaysHop
    <2> QED
      BY <2>4, <2>5, <2>6, <2>7 DEF Session!StopMonitor
  <1> QED
    BY <1>3, <1>4

(* The loop is done when every monitor of the session is stopped.          *)
LEMMA AllStoppedSession ==
    ASSUME TypeInv, AliveInv, SideInv, HasTable, AllStopped
    PROVE  Session!AllStopped
  <1>1. /\ UNCHANGED <<hopVars, watcher, epoch, life>>
        /\ link = "stopping" /\ link' = "rules"
        /\ unvisited = {} /\ visited = NoMonitor
    BY DEF AllStopped, monVars
  <1>2. MakesNone /\ \A m \in Monitors : Alive(m)' <=> Alive(m)
    BY <1>1 DEF MakesNone, Alive
  <1>3. UNCHANGED <<Session!hopVars, SessionMon, SessionStart, SessionStarted>>
    BY <1>1, <1>2, LinkOnly
  <1>4. \A m \in Monitors : ~Alive(m)
    <2>1. \A m \in Monitors : m # NoMonitor
      BY HostsAssumption DEF Monitors, NoMonitor
    <2> QED
      BY <1>1, <2>1, AliveNow DEF StillToStop
  <1>5. \A h \in Hosts : SessionMon[h] # "running"
    BY <1>1, <1>4 DEF SessionMon, SessionMonOf, Current, Alive, Monitors, TypeInv,
                      TypeOK, EpochInv
  <1>6. SessionLink = "stopping" /\ SessionLink' = "zero4"
    BY <1>1 DEF SessionLink
  <1> QED
    BY <1>3, <1>5, <1>6 DEF Session!AllStopped

LEMMA ZeroSession ==
    ASSUME TypeInv, ZeroHosts PROVE Session!ZeroHosts
  <1>1. UNCHANGED <<isUp, cb, gateway, spoilt, watcher, epoch, life>>
    BY DEF ZeroHosts, Hop!ZeroCounters, monVars
  <1>2. MakesNone /\ \A m \in Monitors : Alive(m)' <=> Alive(m)
    BY <1>1 DEF MakesNone, Alive
  <1>3. UNCHANGED <<SessionIsUp, SessionCb, SessionMon, SessionStart, SessionStarted>>
    BY <1>1, <1>2, CallsSame, MonSame, StartSame
  <1>4. \/ SessionLink = "zero4" /\ SessionLink' = "fail4"
        \/ SessionLink = "zero6" /\ SessionLink' = "fail6"
    BY DEF ZeroHosts, SessionLink
  <1>5. upHosts' = [f \in Session!Families |-> 0]
    BY DEF ZeroHosts, Hop!ZeroCounters, Session!Families, Hop!Families
  <1> QED
    BY <1>1, <1>3, <1>4, <1>5 DEF Session!ZeroHosts, Session!ZeroCounters

LEMMA FailLinkSession ==
    ASSUME TypeInv, AliveInv, SideInv, HasTable, NEW f \in Families, FailLink(f)
    PROVE  Session!FailLink(f)
  <1>1. UNCHANGED <<watcher, epoch, life>> /\ Gated(Hop!FailGateways(f))
    BY DEF FailLink, monVars
  <1>2. MakesNone /\ \A m \in Monitors : Alive(m)' <=> Alive(m)
    BY <1>1 DEF MakesNone, Alive
  <1>3. UNCHANGED <<SessionMon, SessionStart, SessionStarted>>
    BY <1>1, <1>2, MonSame, StartSame
  <1>4. \/ f = "v4" /\ SessionLink = "fail4" /\ SessionLink' = "zero6"
        \/ f = "v6" /\ SessionLink = "fail6" /\ SessionLink' = "down"
    BY DEF FailLink, SessionLink
  <1> QED
    BY <1>1, <1>3, <1>4, FailSession DEF Session!FailLink

(* Rules and shutdown channels are none of the session's.                  *)
LEMMA BesideSession ==
    ASSUME TypeInv, DialFails \/ DeleteRules \/ CloseShutdown
    PROVE  Stays
  <1>1. /\ UNCHANGED <<hopVars, watcher, epoch, life>>
        /\ SessionLink' = SessionLink
    BY DEF DialFails, DeleteRules, CloseShutdown, linkVars, monVars, SessionLink
  <1>2. MakesNone /\ \A m \in Monitors : Alive(m)' <=> Alive(m)
    BY <1>1 DEF MakesNone, Alive
  <1> QED
    BY <1>1, <1>2, LinkOnly

LEMMA LinkSession ==
    ASSUME TypeInv, CleanInv, AliveInv, SideInv, HasTable, clean, clean',
           \/ RecvUp \/ RecvDown \/ DialFails \/ LinkRuns
    PROVE  Session!Next \/ Stays
  <1>1. Session!Families = Families
    BY DEF Session!Families, Families, Hop!Families
  <1>2. CASE RecvUp \/ RecvDown
    BY <1>2, UpSession, DownSession DEF CleanInv, Session!Next, Session!LinkStep
  <1>3. ASSUME NEW n \in Names, VisitMonitor(n) PROVE Stays
    BY <1>3, VisitSession
  <1>4. CASE StopMonitor
    BY <1>4, StopSession DEF Session!Next, Session!MonitorStep
  <1>5. CASE AllStopped \/ ZeroHosts
    BY <1>5, AllStoppedSession, ZeroSession DEF Session!Next, Session!LinkStep
  <1>6. ASSUME NEW f \in Families, FailLink(f) PROVE Session!Next
    BY <1>1, <1>6, FailLinkSession DEF Session!Next, Session!FamilyStep
  <1>7. CASE DialFails \/ DeleteRules \/ CloseShutdown
    BY <1>7, BesideSession
  <1> QED
    BY <1>2, <1>3, <1>4, <1>5, <1>6, <1>7 DEF LinkRuns

-----------------------------------------------------------------------------
(* A step of the session, as HostSessionProofs has it.                     *)
LEMMA SameSession ==
    /\ Session!Init => Proved!Init
    /\ Session!Next => Proved!Next
    /\ Stays => UNCHANGED Proved!vars
  <1> USE DEF Session!Families, Proved!Families, Session!hopVars, Proved!hopVars,
              Session!sessionVars, Proved!sessionVars, Session!HostsOf, Proved!HostsOf,
              Session!InCallback, Proved!InCallback, Session!Idle, Proved!Idle
  <1>1. Session!Init => Proved!Init
    BY DEF Session!Init, Proved!Init, Session!HopInit, Proved!HopInit,
           Session!Gateways, Proved!Gateways
  <1>2. Session!LinkStep => Proved!LinkStep
    BY DEF Session!LinkStep, Proved!LinkStep, Session!LinkUp, Proved!LinkUp,
           Session!LinkDown, Proved!LinkDown, Session!AllStopped, Proved!AllStopped,
           Session!ZeroHosts, Proved!ZeroHosts, Session!ZeroCounters,
           Proved!ZeroCounters
  <1>3. \A f : Session!Pending(f) = Proved!Pending(f)
    BY DEF Session!Pending, Proved!Pending
  <1>4. \A f, dir, why : Session!Moved(f, dir, why) = Proved!Moved(f, dir, why)
    BY DEF Session!Moved, Proved!Moved
  <1>5. \A f : Session!FailGateways(f) => Proved!FailGateways(f)
    BY <1>3, <1>4 DEF Session!FailGateways, Proved!FailGateways
  <1>6. \A f : Session!FamilyStep(f) => Proved!FamilyStep(f)
    BY <1>5 DEF Session!FamilyStep, Proved!FamilyStep, Session!FindAddress,
           Proved!FindAddress, Session!FailStarted, Proved!FailStarted,
           Session!FailLink, Proved!FailLink
  <1>7. \A h, dir, out, edge :
            Session!Continue(h, dir, out, edge) => Proved!Continue(h, dir, out, edge)
    BY DEF Session!Continue, Proved!Continue
  <1>8. \A h : Session!Report(h) => Proved!Report(h)
    BY <1>3 DEF Session!Report, Proved!Report
  <1>9. \A h : Session!MonitorStep(h) => Proved!MonitorStep(h)
    BY <1>4, <1>7, <1>8
    DEF Session!MonitorStep, Proved!MonitorStep, Session!StartMonitor,
        Proved!StartMonitor, Session!Up, Proved!Up, Session!HostUp, Proved!HostUp,
        Session!Down, Proved!Down, Session!HostDown, Proved!HostDown,
        Session!Act, Proved!Act, Session!GatewayAction, Proved!GatewayAction,
        Session!StopMonitor, Proved!StopMonitor
  <1>10. Session!Next => Proved!Next
    BY <1>2, <1>6, <1>9 DEF Session!Next, Proved!Next
  <1>11. Stays => UNCHANGED Proved!vars
    BY DEF Stays, Session!vars, Proved!vars
  <1> QED
    BY <1>1, <1>10, <1>11

LEMMA InitSession == Init => Session!Init
  <1> SUFFICES ASSUME Init PROVE Session!Init
    OBVIOUS
  <1> USE DEF Init, Hop!HopInit
  <1>1. \A h \in Hosts : LastOf(h) \in Epochs /\ <<LastOf(h), h>> \in Monitors
    BY InitSide, LastIn DEF Monitors
  <1>2. SessionIsUp = [h \in Hosts |-> FALSE] /\ SessionCb = [h \in Hosts |-> Session!Idle]
    BY <1>1 DEF SessionIsUp, SessionCb, Hop!Idle, Session!Idle
  <1>3. SessionMon = [h \in Hosts |-> "new"] /\ SessionLink = "down"
    BY DEF SessionMon, SessionMonOf, Current, SessionLink
  <1>4. SessionStart = "none" /\ SessionStarted = {}
    BY DEF SessionStart, SessionStarted
  <1> QED
    BY <1>2, <1>3, <1>4
    DEF Session!Init, Session!HopInit, Session!Families, Hop!Families,
        Session!Gateways, Hop!Gateways

(* A watcher out of its session is not forgotten.                          *)
LEMMA CleanBefore == [Next]_vars /\ clean' => clean
  <1> SUFFICES ASSUME [Next]_vars, clean' PROVE clean
    OBVIOUS
  <1> USE DEF callFrame
  <1>1. CASE RecvUp \/ RecvDown \/ DialFails \/ LinkRuns
    BY <1>1 DEF RecvUp, RecvDown, DialFails, LinkRuns, VisitMonitor, StopMonitor,
                AllStopped, DeleteRules, ZeroHosts, FailLink, CloseShutdown
  <1>2. ASSUME NEW e \in Epochs,
               \/ \E f \in Families : FindAddress(e, f)
               \/ StartsHosts(e)
               \/ WatcherEnds(e)
        PROVE  clean
    BY <1>2 DEF FindAddress, StartsHosts, AddRule, AddMonitor, FailStarted,
                WatcherEnds, Acts
  <1>3. ASSUME NEW m \in Monitors, Up(m) \/ Down(m) \/ Clamp(m) \/ Act(m)
        PROVE  clean
    BY <1>3 DEF Up, Down, Clamp, Act
  <1>4. CASE UNCHANGED vars
    BY <1>4 DEF vars
  <1> QED
    BY <1>1, <1>2, <1>3, <1>4 DEF Next

-----------------------------------------------------------------------------
SessionInv == clean => SideInv /\ Proved!IInv

LEMMA SessionInit == Init => SessionInv
  BY InitSide, InitSession, SameSession, Proved!InitInv, SessionConstants
  DEF SessionInv

LEMMA StepSession ==
    ASSUME HasTable, TypeInv, CleanInv, AliveInv, SessionInv, [Next]_vars, clean'
    PROVE  Session!Next \/ Stays
  <1>1. clean /\ SideInv /\ Proved!IInv
    BY CleanBefore DEF SessionInv
  <1>2. CASE UNCHANGED vars
    <2>1. UNCHANGED <<hopVars, link, watcher, epoch, life>>
      BY <1>2 DEF vars, linkVars, monVars
    <2> QED
      BY <2>1, LinkOnly DEF MakesNone, Alive, SessionLink
  <1>3. ASSUME NEW m \in Monitors, Up(m) \/ Down(m) \/ Clamp(m) \/ Act(m)
        PROVE  Session!Next
    BY <1>1, <1>3, MonitorSession DEF Session!Next
  <1> QED
    BY <1>1, <1>2, <1>3, LinkSession, WatcherSession DEF Next

LEMMA SessionStep ==
    ASSUME Distinct, HasTable, Inv, SessionInv, [Next]_vars
    PROVE  SessionInv' /\ [clean' => Session!Next]_(Session!vars)
  <1>1. TypeInv /\ CleanInv /\ AliveInv
    BY DEF Inv
  <1>2. clean' => Session!Next \/ Stays
    BY <1>1, StepSession
  <1>3. clean' => SideInv'
    BY <1>1, CleanBefore, SideStep DEF SessionInv
  <1>4. clean' => Proved!IInv /\ [Proved!Next]_(Proved!vars)
    BY <1>2, CleanBefore, SameSession DEF SessionInv
  <1>5. clean' => Proved!IInv'
    BY <1>4, Proved!InvStep, SessionConstants
  <1> QED
    BY <1>2, <1>3, <1>5 DEF SessionInv, Stays

(* The goroutines of the code do what HostSession describes, as long as no *)
(* watcher was busy while its link went down: linkDown stops every monitor *)
(* of its session, no callback of one that ended moves a counter, and the  *)
(* routes are changed by the edges of the session and by its link alone    *)
(* (link.go, icmp.go, nexthop.go).  A route sync is there to be told: the  *)
(* process dies otherwise.                                                 *)
THEOREM LinkServerImplementsSession ==
    ASSUME Distinct, HasTable PROVE Spec => ImplementsSession
  <1>1. Inv /\ [Next]_vars => Inv'
    BY InvStep
  <1>2. Inv /\ SessionInv /\ [Next]_vars =>
            SessionInv' /\ [clean' => Session!Next]_(Session!vars)
    BY SessionStep
  <1> QED
    BY <1>1, <1>2, InvInit, SessionInit, InitSession, PTL DEF Spec, ImplementsSession

(* What HostSession's counters and routes agree in, those of the code do.  *)
LEMMA SameAgreement ==
    Proved!IInv =>
        Session!CountAgrees /\ Session!CountInRange /\ Session!GatewayAgrees
  <1> SUFFICES ASSUME Proved!IInv
               PROVE  Session!CountAgrees /\ Session!CountInRange /\ Session!GatewayAgrees
    OBVIOUS
  <1>1. Proved!CountAgrees
    BY DEF Proved!IInv
  <1>2. Proved!CountInRange /\ Proved!GatewayAgrees
    BY Proved!InRange, Proved!InAgreement, SessionConstants
  <1>3. Session!CountAgrees
    <2>1. \A f : Session!CountedOf(f) = Proved!CountedOf(f)
      BY DEF Session!CountedOf, Proved!CountedOf, Session!Counted, Proved!Counted,
             Session!InCallback, Proved!InCallback, Session!HostsOf, Proved!HostsOf
    <2>2. \A f : Session!Cardinality(Session!CountedOf(f)) =
                 Proved!Cardinality(Proved!CountedOf(f))
      BY <2>1 DEF Session!Cardinality, Proved!Cardinality
    <2> QED
      BY <1>1, <2>2 DEF Session!CountAgrees, Proved!CountAgrees, Session!Families,
                        Proved!Families, Session!Counting, Proved!Counting
  <1>4. Session!CountInRange
    BY <1>2
    DEF Session!CountInRange, Proved!CountInRange, Session!Families,
        Proved!Families
  <1>5. Session!GatewayAgrees
    BY <1>2
    DEF Session!GatewayAgrees, Proved!GatewayAgrees, Session!Families,
        Proved!Families, Session!Counting, Proved!Counting, Session!Pending,
        Proved!Pending, Session!HostsOf, Proved!HostsOf, Session!InCallback,
        Proved!InCallback, Session!Wanted, Proved!Wanted
  <1> QED
    BY <1>3, <1>4, <1>5

(* The counter of a family is the number of its hosts that the monitors of *)
(* the code hold to be up, no callback finds it out of range, and the      *)
(* gateway routes are where it says unless their last changes overlapped   *)
(* or failed (interface.go:143-196, nexthop.go), in whatever order the     *)
(* watchers, callbacks and linkDown come, as long as no watcher was busy   *)
(* while its link went down.                                               *)
THEOREM ServedCountsAgree ==
    ASSUME Distinct, HasTable
    PROVE  Spec => [](clean => /\ Session!CountAgrees
                               /\ Session!CountInRange
                               /\ Session!GatewayAgrees)
  <1>1. Inv /\ [Next]_vars => Inv'
    BY InvStep
  <1>2. Inv /\ SessionInv /\ [Next]_vars => SessionInv'
    BY SessionStep
  <1>3. SessionInv =>
            (clean => /\ Session!CountAgrees
                      /\ Session!CountInRange
                      /\ Session!GatewayAgrees)
    BY SameAgreement DEF SessionInv
  <1> QED
    BY <1>1, <1>2, <1>3, InvInit, SessionInit, PTL DEF Spec

(* linkDown leaves no monitor running (link.go:29-31) when no watcher was  *)
(* busy while a link went down, and the names of the hosts are their own,  *)
(* which the configuration does not see to: for any hosts and any number   *)
(* of sessions, with a route sync or without.                              *)
THEOREM LoopStopsAll == ASSUME Distinct PROVE Spec => []DownStopsMonitors
  <1>1. Inv /\ [Next]_vars => Inv'
    BY InvStep
  <1>2. Inv /\ (clean => SideInv) /\ [Next]_vars => (clean => SideInv)'
    BY SideStep, CleanBefore DEF Inv
  <1>3. Inv /\ (clean => SideInv) => DownStopsMonitors
    BY DEF Inv, SideInv, AliveInv, StillToStop, DownStopsMonitors
  <1> QED
    BY <1>1, <1>2, <1>3, InvInit, InitSide, PTL DEF Spec
=============================================================================
