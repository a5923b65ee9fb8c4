-------------------------- MODULE HostSessionProofs --------------------------
(***************************************************************************)
(* Proofs about HostSession, for any finite set of monitors, any families  *)
(* and any MinimumUp.                                                      *)
(*                                                                         *)
(* The inductive invariant is IInv.  ControlInv says which parts of a      *)
(* session can be under way at once: it is what makes StopMonitor's wait   *)
(* matter, for after it no callback of the session is left.  GatewayInv    *)
(* strengthens GatewayAgrees to the moments at which an edge is still      *)
(* being acted on and the link's failure is half handled.                  *)
(***************************************************************************)
EXTENDS HostSession, FiniteSetTheorems, TLAPS

ControlInv ==
    /\ start # "none" => link = "up"
    /\ \A m \in Monitors : mon[m] = "running" => link \in {"up", "stopping"}
    /\ \A m \in Monitors :
          InCallback(m) => /\ mon[m] = "running"
                           /\ cb[m].at = "action"
                           /\ cb[m].edge

GatewayInvOf(f) ==
    /\ \A m, n \in HostsOf(f) : InCallback(m) /\ InCallback(n) => m = n
    /\ \A m \in HostsOf(f) :
          InCallback(m) => cb[m].dir = Wanted(f)
    /\ ~Pending(f) /\ (Counting \/ link = "down") => gateway[f] = Wanted(f)
    /\ f = "v4" /\ link \in {"zero6", "fail6"} => gateway[f] = "down"

GatewayInv == \A f \in Families : spoilt[f] = "no" => GatewayInvOf(f)

(* The types alone: that no counter is below zero is a matter of counting. *)
SessionTypeOK ==
    /\ HopTypeOK
    /\ link \in Links
    /\ mon \in [Monitors -> {"new", "running", "stopped"}]
    /\ start \in Families \cup {"none"}
    /\ started \in SUBSET Families

IInv == SessionTypeOK /\ ControlInv /\ CountAgrees /\ GatewayInv

-----------------------------------------------------------------------------
(* The hosts of a family, and those of them that are counted, are finite   *)
(* in number, and there are at most Total[f] of the latter.                *)
LEMMA HostCounts ==
    ASSUME NEW f \in Families
    PROVE  /\ IsFiniteSet(HostsOf(f))
           /\ IsFiniteSet(CountedOf(f))
           /\ Cardinality(CountedOf(f)) \in Nat
           /\ Cardinality(CountedOf(f)) <= Total[f]
<1>1. HostsOf(f) \subseteq Monitors /\ CountedOf(f) \subseteq HostsOf(f)
  BY DEF HostsOf, CountedOf
<1>2. IsFiniteSet(HostsOf(f))
  BY <1>1, FS_Subset, FiniteMonitorsAssumption
<1>3. /\ IsFiniteSet(CountedOf(f))
      /\ Cardinality(CountedOf(f)) <= Cardinality(HostsOf(f))
  BY <1>1, <1>2, FS_Subset
<1> QED
  BY <1>2, <1>3, FS_CardinalityType, TotalCountsHosts

(* A host that becomes counted adds one to its family's count; one that is *)
(* counted no more takes one off.                                          *)
LEMMA CountOneMore ==
    ASSUME NEW S, IsFiniteSet(S), NEW m, m \notin S
    PROVE  Cardinality(S \cup {m}) = Cardinality(S) + 1
BY FS_AddElement

LEMMA CountOneLess ==
    ASSUME NEW S, IsFiniteSet(S), NEW m, m \in S
    PROVE  Cardinality(S \ {m}) = Cardinality(S) - 1
BY FS_RemoveElement

-----------------------------------------------------------------------------
LEMMA InitInv == Init => IInv
<1> SUFFICES ASSUME Init PROVE IInv
  OBVIOUS
<1> USE DEF Init, HopInit
<1>1. SessionTypeOK
  BY DEF SessionTypeOK, HopTypeOK, Families, Gateways, Callbacks, Idle, Links, Spoilt
<1>2. ControlInv
  BY DEF ControlInv, InCallback, Idle
<1>3. CountAgrees
  BY DEF CountAgrees, Counting
<1>4. GatewayInv
  BY DEF GatewayInv
<1> QED
  BY <1>1, <1>2, <1>3, <1>4 DEF IInv

(* The rest of a callback keeps the callbacks and the flags in their types.*)
LEMMA ContinueType ==
    ASSUME SessionTypeOK, NEW m \in Monitors, NEW dir \in {"up", "down"},
           NEW out, NEW edge, out \in BOOLEAN, edge \in BOOLEAN,
           Continue(m, dir, out, edge)
    PROVE  cb' \in [Monitors -> Callbacks] /\ isUp' \in [Monitors -> BOOLEAN]
<1> USE DEF SessionTypeOK, HopTypeOK, Callbacks
<1>1. CASE out \/ edge
  <2> DEFINE c == [at |-> IF out THEN "clamp" ELSE "action",
                   dir |-> dir, edge |-> edge]
  <2>1. c \in Callbacks
    OBVIOUS
  <2>2. cb' = [cb EXCEPT ![m] = c] /\ UNCHANGED isUp
    BY <1>1 DEF Continue
  <2> HIDE DEF c
  <2> QED
    BY <2>1, <2>2
<1>2. CASE ~out /\ ~edge
  <2>1. Idle \in Callbacks
    BY DEF Idle
  <2>2. cb' = [cb EXCEPT ![m] = Idle] /\ isUp' = [isUp EXCEPT ![m] = (dir = "up")]
    BY <1>2 DEF Continue
  <2> QED
    BY <2>1, <2>2
<1> QED
  BY <1>1, <1>2

(* Every step keeps the variables in their types.                          *)
LEMMA TypeInv == SessionTypeOK /\ [Next]_vars => SessionTypeOK'
<1> SUFFICES ASSUME SessionTypeOK, [Next]_vars PROVE SessionTypeOK'
  OBVIOUS
<1> USE DEF SessionTypeOK, HopTypeOK, hopVars, sessionVars, Links
<1>1. CASE LinkStep
  BY <1>1 DEF LinkStep, LinkUp, LinkDown, AllStopped, ZeroHosts, ZeroCounters
<1>2. ASSUME NEW f \in Families, FamilyStep(f) PROVE SessionTypeOK'
  <2>1. CASE FindAddress(f)
    BY <2>1 DEF FindAddress
  <2>2. CASE FailStarted(f)
    BY <2>2 DEF FailStarted, FailGateways, Moved, Gateways, Spoilt
  <2>3. CASE FailLink(f)
    BY <2>3 DEF FailLink, FailGateways, Moved, Gateways, Spoilt
  <2> QED
    BY <1>2, <2>1, <2>2, <2>3 DEF FamilyStep
<1>3. ASSUME NEW m \in Monitors, MonitorStep(m) PROVE SessionTypeOK'
  <2>0. FamilyOf[m] \in Families
    BY FamilyOfAssumption
  <2>1. CASE StartMonitor(m)
    BY <2>1 DEF StartMonitor
  <2>2. CASE Up(m)
    <3> DEFINE up == upHosts[FamilyOf[m]] + 1
    <3>1. /\ upHosts' = [upHosts EXCEPT ![FamilyOf[m]] = up]
          /\ Continue(m, "up", up > Total[FamilyOf[m]], up = MinimumUp)
          /\ UNCHANGED gateway
          /\ Report(m)
          /\ UNCHANGED sessionVars
      BY <2>2, Zenon DEF Up, HostUp
    <3>2. upHosts' \in [Families -> Int]
      BY <2>0, <3>1
    <3>3. /\ cb' \in [Monitors -> Callbacks]
          /\ isUp' \in [Monitors -> BOOLEAN]
      <4>1. (up > Total[FamilyOf[m]]) \in BOOLEAN /\ (up = MinimumUp) \in BOOLEAN
        OBVIOUS
      <4>2. "up" \in {"up", "down"}
        OBVIOUS
      <4> HIDE DEF up
      <4> QED
        BY <3>1, <4>1, <4>2, ContinueType, Zenon
    <3> QED
      BY <2>0, <3>1, <3>2, <3>3 DEF Report, Spoilt
  <2>3. CASE Down(m)
    <3> DEFINE up == upHosts[FamilyOf[m]] - 1
    <3>1. /\ upHosts' = [upHosts EXCEPT ![FamilyOf[m]] = up]
          /\ Continue(m, "down", up < 0, up = MinimumUp - 1)
          /\ UNCHANGED gateway
          /\ Report(m)
          /\ UNCHANGED sessionVars
      BY <2>3, Zenon DEF Down, HostDown
    <3>2. upHosts' \in [Families -> Int]
      BY <2>0, <3>1
    <3>3. /\ cb' \in [Monitors -> Callbacks]
          /\ isUp' \in [Monitors -> BOOLEAN]
      <4>1. (up < 0) \in BOOLEAN /\ (up = MinimumUp - 1) \in BOOLEAN
        OBVIOUS
      <4>2. "down" \in {"up", "down"}
        OBVIOUS
      <4> HIDE DEF up
      <4> QED
        BY <3>1, <4>1, <4>2, ContinueType, Zenon
    <3> QED
      BY <2>0, <3>1, <3>2, <3>3 DEF Report, Spoilt
  <2>4. CASE Act(m)
    <3>1. /\ Moved(FamilyOf[m], cb[m].dir, spoilt[FamilyOf[m]])
          /\ cb' = [cb EXCEPT ![m] = Idle]
          /\ isUp' = [isUp EXCEPT ![m] = (cb[m].dir = "up")]
          /\ UNCHANGED <<upHosts, sessionVars>>
      BY <2>4 DEF Act, GatewayAction
    <3>2. cb[m].dir \in Gateways
      BY DEF Callbacks, Gateways
    <3>3. /\ gateway' \in [Families -> Gateways]
          /\ spoilt' \in [Families -> Spoilt]
      BY <2>0, <3>1, <3>2 DEF Moved, Gateways, Spoilt
    <3>4. cb' \in [Monitors -> Callbacks]
      BY <3>1 DEF Callbacks, Idle
    <3>5. isUp' \in [Monitors -> BOOLEAN]
      BY <3>1, Zenon
    <3> QED
      BY <3>1, <3>3, <3>4, <3>5
  <2>5. CASE StopMonitor(m)
    BY <2>5 DEF StopMonitor
  <2> QED
    BY <1>3, <2>1, <2>2, <2>3, <2>4, <2>5 DEF MonitorStep
<1>4. CASE UNCHANGED vars
  BY <1>4 DEF vars
<1> QED
  BY <1>1, <1>2, <1>3, <1>4 DEF Next

-----------------------------------------------------------------------------
(* What the Up and the Down callback do to a session that is as IInv says: *)
(* the host was not, or was, counted before, the counter stays in range,   *)
(* and the only thing left to do is the action of an edge.                 *)
LEMMA UpFacts ==
    ASSUME SessionTypeOK, ControlInv, CountAgrees, NEW m \in Monitors, Up(m)
    PROVE  LET f == FamilyOf[m]
               u == upHosts[f] + 1
           IN  /\ m \notin CountedOf(f)
               /\ link \in {"up", "stopping"}
               /\ mon[m] = "running"
               /\ ~InCallback(m)
               /\ upHosts' = [upHosts EXCEPT ![f] = u]
               /\ UNCHANGED <<gateway, link, mon, start, started>>
               /\ \/ /\ u = MinimumUp
                     /\ cb' = [cb EXCEPT ![m] =
                           [at |-> "action", dir |-> "up", edge |-> TRUE]]
                     /\ UNCHANGED isUp
                     /\ spoilt' = [spoilt EXCEPT ![f] =
                           IF Pending(f) THEN "edge" ELSE "no"]
                  \/ /\ u # MinimumUp
                     /\ cb' = [cb EXCEPT ![m] = Idle]
                     /\ isUp' = [isUp EXCEPT ![m] = TRUE]
                     /\ UNCHANGED spoilt
<1> DEFINE f == FamilyOf[m]
           u == upHosts[f] + 1
<1>1. f \in Families /\ m \in HostsOf(f)
  BY FamilyOfAssumption DEF HostsOf
<1>2. /\ mon[m] = "running" /\ ~InCallback(m) /\ isUp[m] = FALSE
      /\ upHosts' = [upHosts EXCEPT ![f] = u]
      /\ Continue(m, "up", u > Total[f], u = MinimumUp)
      /\ Report(m)
      /\ UNCHANGED <<gateway, link, mon, start, started>>
  BY DEF Up, HostUp, sessionVars, hopVars, SessionTypeOK, HopTypeOK
<1>3. link \in {"up", "stopping"}
  BY <1>2 DEF ControlInv
<1>4. m \notin CountedOf(f)
  BY <1>1, <1>2 DEF CountedOf, Counted
<1>5. upHosts[f] = Cardinality(CountedOf(f))
  BY <1>1, <1>3 DEF CountAgrees, Counting
<1>6. u <= Total[f]
  <2>1. CountedOf(f) \cup {m} \subseteq HostsOf(f)
    BY <1>1 DEF CountedOf
  <2>2. Cardinality(CountedOf(f) \cup {m}) <= Cardinality(HostsOf(f))
    BY <1>1, <2>1, HostCounts, FS_Subset
  <2> QED
    BY <1>1, <1>4, <1>5, <2>2, HostCounts, CountOneMore, TotalCountsHosts
<1>7. ~(u > Total[f])
  BY <1>1, <1>6, TotalAssumption DEF SessionTypeOK, HopTypeOK
<1>8. \/ /\ u = MinimumUp
         /\ cb' = [cb EXCEPT ![m] =
               [at |-> "action", dir |-> "up", edge |-> TRUE]]
         /\ UNCHANGED isUp
      \/ /\ u # MinimumUp
         /\ cb' = [cb EXCEPT ![m] = Idle]
         /\ isUp' = [isUp EXCEPT ![m] = TRUE]
  <2>1. (u > Total[f]) = FALSE
    BY <1>7
  <2>2. CASE u = MinimumUp
    <3>1. (u = MinimumUp) = TRUE
      BY <2>2
    <3>2. Continue(m, "up", FALSE, TRUE)
      BY <1>2, <2>1, <3>1
    <3> QED
      BY <2>2, <3>2 DEF Continue
  <2>3. CASE u # MinimumUp
    <3>1. (u = MinimumUp) = FALSE
      BY <2>3
    <3>2. Continue(m, "up", FALSE, FALSE)
      BY <1>2, <2>1, <3>1
    <3> QED
      BY <2>3, <3>2 DEF Continue
  <2> QED
    BY <2>2, <2>3
<1>9. spoilt' = IF u = MinimumUp
                THEN [spoilt EXCEPT ![f] = IF Pending(f) THEN "edge" ELSE "no"]
                ELSE spoilt
  <2> HIDE DEF u
  <2>1. CASE u = MinimumUp
    <3>1. cb'[m].edge = TRUE
      BY <1>8, <2>1 DEF SessionTypeOK, HopTypeOK
    <3> QED
      BY <1>2, <2>1, <3>1 DEF Report
  <2>2. CASE u # MinimumUp
    <3>1. cb'[m].edge = FALSE
      BY <1>8, <2>2 DEF SessionTypeOK, HopTypeOK, Idle
    <3> QED
      BY <1>2, <2>2, <3>1 DEF Report
  <2> QED
    BY <2>1, <2>2
<1> HIDE DEF u, f
<1>10. /\ u = upHosts[FamilyOf[m]] + 1
       /\ f = FamilyOf[m]
  BY DEF u, f
<1> QED
  BY <1>1, <1>2, <1>3, <1>4, <1>8, <1>9, <1>10

LEMMA DownFacts ==
    ASSUME SessionTypeOK, ControlInv, CountAgrees, NEW m \in Monitors, Down(m)
    PROVE  LET f == FamilyOf[m]
               u == upHosts[f] - 1
           IN  /\ m \in CountedOf(f)
               /\ link \in {"up", "stopping"}
               /\ mon[m] = "running"
               /\ ~InCallback(m)
               /\ upHosts' = [upHosts EXCEPT ![f] = u]
               /\ UNCHANGED <<gateway, link, mon, start, started>>
               /\ \/ /\ u = MinimumUp - 1
                     /\ cb' = [cb EXCEPT ![m] =
                           [at |-> "action", dir |-> "down", edge |-> TRUE]]
                     /\ UNCHANGED isUp
                     /\ spoilt' = [spoilt EXCEPT ![f] =
                           IF Pending(f) THEN "edge" ELSE "no"]
                  \/ /\ u # MinimumUp - 1
                     /\ cb' = [cb EXCEPT ![m] = Idle]
                     /\ isUp' = [isUp EXCEPT ![m] = FALSE]
                     /\ UNCHANGED spoilt
<1> DEFINE f == FamilyOf[m]
           u == upHosts[f] - 1
<1>1. f \in Families /\ m \in HostsOf(f)
  BY FamilyOfAssumption DEF HostsOf
<1>2. /\ mon[m] = "running" /\ ~InCallback(m) /\ isUp[m] = TRUE
      /\ upHosts' = [upHosts EXCEPT ![f] = u]
      /\ Continue(m, "down", u < 0, u = MinimumUp - 1)
      /\ Report(m)
      /\ UNCHANGED <<gateway, link, mon, start, started>>
  BY DEF Down, HostDown, sessionVars, SessionTypeOK, HopTypeOK
<1>3. link \in {"up", "stopping"}
  BY <1>2 DEF ControlInv
<1>4. m \in CountedOf(f)
  BY <1>1, <1>2 DEF CountedOf, Counted
<1>5. upHosts[f] = Cardinality(CountedOf(f))
  BY <1>1, <1>3 DEF CountAgrees, Counting
<1>6. 0 <= u
  <2>1. Cardinality(CountedOf(f) \ {m}) = u
    BY <1>1, <1>4, <1>5, HostCounts, CountOneLess
  <2> QED
    BY <1>1, <2>1, HostCounts, FS_RemoveElement, FS_CardinalityType
<1>7. ~(u < 0)
  BY <1>1, <1>6 DEF SessionTypeOK, HopTypeOK
<1>8. \/ /\ u = MinimumUp - 1
         /\ cb' = [cb EXCEPT ![m] =
               [at |-> "action", dir |-> "down", edge |-> TRUE]]
         /\ UNCHANGED isUp
      \/ /\ u # MinimumUp - 1
         /\ cb' = [cb EXCEPT ![m] = Idle]
         /\ isUp' = [isUp EXCEPT ![m] = FALSE]
  <2>1. (u < 0) = FALSE
    BY <1>7
  <2>2. CASE u = MinimumUp - 1
    <3>1. (u = MinimumUp - 1) = TRUE
      BY <2>2
    <3>2. Continue(m, "down", FALSE, TRUE)
      BY <1>2, <2>1, <3>1
    <3> QED
      BY <2>2, <3>2 DEF Continue
  <2>3. CASE u # MinimumUp - 1
    <3>1. (u = MinimumUp - 1) = FALSE
      BY <2>3
    <3>2. Continue(m, "down", FALSE, FALSE)
      BY <1>2, <2>1, <3>1
    <3> QED
      BY <2>3, <3>2 DEF Continue
  <2> QED
    BY <2>2, <2>3
<1>9. spoilt' = IF u = MinimumUp - 1
                THEN [spoilt EXCEPT ![f] = IF Pending(f) THEN "edge" ELSE "no"]
                ELSE spoilt
  <2> HIDE DEF u
  <2>1. CASE u = MinimumUp - 1
    <3>1. cb'[m].edge = TRUE
      BY <1>8, <2>1 DEF SessionTypeOK, HopTypeOK
    <3> QED
      BY <1>2, <2>1, <3>1 DEF Report
  <2>2. CASE u # MinimumUp - 1
    <3>1. cb'[m].edge = FALSE
      BY <1>8, <2>2 DEF SessionTypeOK, HopTypeOK, Idle
    <3> QED
      BY <1>2, <2>2, <3>1 DEF Report
  <2> QED
    BY <2>1, <2>2
<1> HIDE DEF u, f
<1>10. /\ u = upHosts[FamilyOf[m]] - 1
       /\ f = FamilyOf[m]
  BY DEF u, f
<1> QED
  BY <1>1, <1>2, <1>3, <1>4, <1>8, <1>9, <1>10

-----------------------------------------------------------------------------
LEMMA ControlStep ==
    SessionTypeOK /\ ControlInv /\ CountAgrees /\ [Next]_vars => ControlInv'
<1> SUFFICES ASSUME SessionTypeOK, ControlInv, CountAgrees, [Next]_vars
             PROVE  ControlInv'
  OBVIOUS
<1> USE DEF SessionTypeOK, HopTypeOK, ControlInv, InCallback, hopVars, sessionVars
<1>1. CASE LinkStep
  BY <1>1 DEF LinkStep, LinkUp, LinkDown, AllStopped, ZeroHosts, ZeroCounters
<1>2. ASSUME NEW f \in Families, FamilyStep(f) PROVE ControlInv'
  BY <1>2 DEF FamilyStep, FindAddress, FailStarted, FailLink, FailGateways
<1>3. ASSUME NEW m \in Monitors, MonitorStep(m) PROVE ControlInv'
  <2>1. CASE StartMonitor(m)
    BY <2>1, FamilyOfAssumption DEF StartMonitor, Families
  <2>2. CASE Up(m)
    BY <2>2, UpFacts DEF Idle
  <2>3. CASE Down(m)
    BY <2>3, DownFacts DEF Idle
  <2>4. CASE Act(m)
    BY <2>4 DEF Act, GatewayAction, Idle
  <2>5. CASE StopMonitor(m)
    BY <2>5 DEF StopMonitor
  <2> QED
    BY <1>3, <2>1, <2>2, <2>3, <2>4, <2>5 DEF MonitorStep
<1>4. CASE UNCHANGED vars
  BY <1>4 DEF vars
<1> QED
  BY <1>1, <1>2, <1>3, <1>4 DEF Next

(* A step that moves no host in or out of CountedOf keeps CountAgrees when *)
(* it leaves the counters, and whether they count, alone.                  *)
LEMMA SameCount ==
    ASSUME CountAgrees, UNCHANGED upHosts, Counting' = Counting,
           \A g \in Families : CountedOf(g)' = CountedOf(g)
    PROVE  CountAgrees'
BY DEF CountAgrees

LEMMA CountStep ==
    SessionTypeOK /\ ControlInv /\ CountAgrees /\ [Next]_vars => CountAgrees'
<1> SUFFICES ASSUME SessionTypeOK, ControlInv, CountAgrees, [Next]_vars
             PROVE  CountAgrees'
  OBVIOUS
<1> USE DEF hopVars, sessionVars
<1>1. CASE LinkStep
  <2>1. CASE LinkUp
    <3>1. \A g \in Families : CountedOf(g)' = {} /\ upHosts'[g] = 0
      BY <2>1 DEF LinkUp, CountedOf, Counted, HostsOf, CountAgrees, Counting
    <3> QED
      BY <3>1, FS_EmptySet DEF CountAgrees
  <2>2. CASE LinkDown
    <3>1. Counting /\ Counting' /\ UNCHANGED upHosts
      BY <2>2 DEF LinkDown, Counting
    <3>2. \A g \in Families : CountedOf(g)' = CountedOf(g)
      BY <2>2 DEF LinkDown, CountedOf, HostsOf, Counted, InCallback
    <3> QED
      BY <3>1, <3>2 DEF CountAgrees
  <2>3. CASE AllStopped
    <3>1. Counting /\ Counting' /\ UNCHANGED upHosts
      BY <2>3 DEF AllStopped, Counting
    <3>2. \A g \in Families : CountedOf(g)' = CountedOf(g)
      BY <2>3 DEF AllStopped, CountedOf, HostsOf, Counted, InCallback
    <3> QED
      BY <3>1, <3>2 DEF CountAgrees
  <2>4. CASE ZeroHosts
    BY <2>4 DEF ZeroHosts, ZeroCounters, CountAgrees, Counting
  <2> QED
    BY <1>1, <2>1, <2>2, <2>3, <2>4 DEF LinkStep
<1>2. ASSUME NEW f \in Families, FamilyStep(f) PROVE CountAgrees'
  <2>1. \A g \in Families : CountedOf(g)' = CountedOf(g)
    BY <1>2 DEF FamilyStep, FindAddress, FailStarted, FailLink, FailGateways,
                CountedOf, HostsOf, Counted, InCallback
  <2>2. UNCHANGED upHosts
    BY <1>2 DEF FamilyStep, FindAddress, FailStarted, FailLink, FailGateways
  <2>3. Counting' = Counting
    BY <1>2 DEF FamilyStep, FindAddress, FailStarted, FailLink, Counting
  <2> QED
    BY <2>1, <2>2, <2>3, SameCount
<1>3. ASSUME NEW m \in Monitors, MonitorStep(m) PROVE CountAgrees'
  <2>0. FamilyOf[m] \in Families /\ m \in HostsOf(FamilyOf[m])
    BY FamilyOfAssumption DEF HostsOf
  <2>1. CASE StartMonitor(m)
    <3>1. ~InCallback(m) /\ UNCHANGED <<upHosts, cb, link>>
      BY <2>1 DEF StartMonitor, ControlInv
    <3>2. \A n \in Monitors : Counted(n)' = Counted(n)
      BY <2>1, <3>1
      DEF StartMonitor, Counted, InCallback, SessionTypeOK, HopTypeOK
    <3>3. \A g \in Families : CountedOf(g)' = CountedOf(g)
      BY <3>2 DEF CountedOf, HostsOf
    <3> QED
      BY <3>1, <3>3, SameCount DEF Counting
  <2>2. CASE Up(m)
    <3> DEFINE f == FamilyOf[m]
    <3>1. /\ m \notin CountedOf(f) /\ Counting /\ Counting'
          /\ upHosts' = [upHosts EXCEPT ![f] = upHosts[f] + 1]
      BY <2>2, UpFacts DEF Counting
    <3>2. /\ Counted(m)'
          /\ \A n \in Monitors \ {m} : Counted(n)' = Counted(n)
      BY <2>2, UpFacts DEF Counted, InCallback, Idle, SessionTypeOK, HopTypeOK
    <3>3. /\ CountedOf(f)' = CountedOf(f) \cup {m}
          /\ \A g \in Families \ {f} : CountedOf(g)' = CountedOf(g)
      BY <2>0, <3>2 DEF CountedOf, HostsOf
    <3>4. Cardinality(CountedOf(f)') = Cardinality(CountedOf(f)) + 1
      BY <2>0, <3>1, <3>3, HostCounts, CountOneMore
    <3> QED
      BY <2>0, <3>1, <3>3, <3>4 DEF CountAgrees, SessionTypeOK, HopTypeOK
  <2>3. CASE Down(m)
    <3> DEFINE f == FamilyOf[m]
    <3>1. /\ m \in CountedOf(f) /\ Counting /\ Counting'
          /\ upHosts' = [upHosts EXCEPT ![f] = upHosts[f] - 1]
      BY <2>3, DownFacts DEF Counting
    <3>2. /\ ~Counted(m)'
          /\ \A n \in Monitors \ {m} : Counted(n)' = Counted(n)
      BY <2>3, DownFacts DEF Counted, InCallback, Idle, SessionTypeOK, HopTypeOK
    <3>3. /\ CountedOf(f)' = CountedOf(f) \ {m}
          /\ \A g \in Families \ {f} : CountedOf(g)' = CountedOf(g)
      BY <2>0, <3>2 DEF CountedOf, HostsOf
    <3>4. Cardinality(CountedOf(f)') = Cardinality(CountedOf(f)) - 1
      BY <2>0, <3>1, <3>3, HostCounts, CountOneLess
    <3> QED
      BY <2>0, <3>1, <3>3, <3>4 DEF CountAgrees, SessionTypeOK, HopTypeOK
  <2>4. CASE Act(m)
    <3>1. UNCHANGED <<upHosts, link, mon>> /\ InCallback(m)
      BY <2>4 DEF Act, GatewayAction, InCallback
    <3>2. \A n \in Monitors : Counted(n)' = Counted(n)
      BY <2>4, <3>1
      DEF Act, GatewayAction, Counted, InCallback, Idle, SessionTypeOK, HopTypeOK
    <3>3. \A g \in Families : CountedOf(g)' = CountedOf(g)
      BY <3>2 DEF CountedOf, HostsOf
    <3> QED
      BY <3>1, <3>3, SameCount DEF Counting
  <2>5. CASE StopMonitor(m)
    <3>1. UNCHANGED <<upHosts, link, cb, isUp>>
      BY <2>5 DEF StopMonitor
    <3>2. \A n \in Monitors : Counted(n)' = Counted(n)
      BY <2>5, <3>1 DEF StopMonitor, Counted, InCallback, SessionTypeOK, HopTypeOK
    <3>3. \A g \in Families : CountedOf(g)' = CountedOf(g)
      BY <3>2 DEF CountedOf, HostsOf
    <3> QED
      BY <3>1, <3>3, SameCount DEF Counting
  <2> QED
    BY <1>3, <2>1, <2>2, <2>3, <2>4, <2>5 DEF MonitorStep
<1>4. CASE UNCHANGED vars
  <2>1. \A g \in Families : CountedOf(g)' = CountedOf(g)
    BY <1>4 DEF vars, CountedOf, HostsOf, Counted, InCallback
  <2> QED
    BY <1>4, <2>1, SameCount DEF vars, Counting
<1> QED
  BY <1>1, <1>2, <1>3, <1>4 DEF Next

-----------------------------------------------------------------------------
(* An edge that is reported while no other of its family is being acted on *)
(* leaves one change under way, in the direction the counter now wants;    *)
(* a callback that is no edge leaves what is wanted as it is.              *)
LEMMA GatewayStep == IInv /\ [Next]_vars => GatewayInv'
<1> SUFFICES ASSUME IInv, [Next]_vars PROVE GatewayInv'
  OBVIOUS
<1> USE DEF IInv, hopVars, sessionVars
<1>0. \A g \in Families : HostsOf(g)' = HostsOf(g)
  BY DEF HostsOf
<1>1. CASE LinkStep
  <2>1. CASE LinkUp
    <3>1. \A g \in Families : ~Counting /\ link = "down" /\ link' = "up"
      BY <2>1 DEF LinkUp, Counting
    <3> QED
      BY <2>1, <3>1 DEF LinkUp, GatewayInv, GatewayInvOf, HostsOf, InCallback,
                        Pending, Wanted, Counting
  <2>2. CASE LinkDown
    BY <2>2 DEF LinkDown, GatewayInv, GatewayInvOf, HostsOf, InCallback,
                Pending, Wanted, Counting
  <2>3. CASE AllStopped
    BY <2>3 DEF AllStopped, GatewayInv, GatewayInvOf, HostsOf, InCallback,
                Pending, Wanted, Counting
  <2>4. CASE ZeroHosts
    <3>1. \A m \in Monitors : ~InCallback(m) /\ ~InCallback(m)'
      BY <2>4 DEF ZeroHosts, ZeroCounters, ControlInv, InCallback
    <3>2. ~Counting' /\ link' # "down" /\ (link' = "fail6" => link = "zero6")
          /\ link' # "zero6" /\ UNCHANGED <<gateway, spoilt>>
      BY <2>4 DEF ZeroHosts, ZeroCounters, Counting
    <3> QED
      BY <3>1, <3>2 DEF GatewayInv, GatewayInvOf, HostsOf
  <2> QED
    BY <1>1, <2>1, <2>2, <2>3, <2>4 DEF LinkStep
<1>2. ASSUME NEW f \in Families, FamilyStep(f) PROVE GatewayInv'
  <2>1. CASE FindAddress(f)
    BY <2>1 DEF FindAddress, GatewayInv, GatewayInvOf, HostsOf, InCallback,
                Pending, Wanted, Counting
  <2>2. CASE FailStarted(f)
    <3>1. /\ UNCHANGED <<upHosts, isUp, cb, link, mon>> /\ link = "up"
          /\ \A g \in Families \ {f} : /\ gateway'[g] = gateway[g]
                                       /\ spoilt'[g] = spoilt[g]
      BY <2>2 DEF FailStarted, FailGateways, Moved, ControlInv,
                  SessionTypeOK, HopTypeOK, Families
    <3>2. ASSUME spoilt'[f] = "no"
          PROVE  gateway'[f] = "down" /\ ~Pending(f) /\ upHosts[f] < MinimumUp
      BY <2>2, <3>2, MinimumUpAssumption
      DEF FailStarted, FailGateways, Moved, SessionTypeOK, HopTypeOK
    <3>3. spoilt'[f] = "no" => GatewayInvOf(f)'
      <4> SUFFICES ASSUME spoilt'[f] = "no" PROVE GatewayInvOf(f)'
        OBVIOUS
      <4>1. \A m \in HostsOf(f) : ~InCallback(m)'
        BY <3>1, <3>2 DEF Pending, InCallback, HostsOf, ControlInv
      <4>2. gateway'[f] = Wanted(f)'
        BY <3>1, <3>2, MinimumUpAssumption DEF Wanted, SessionTypeOK, HopTypeOK
      <4> QED
        BY <3>1, <4>1, <4>2 DEF GatewayInvOf, HostsOf
    <3>4. ASSUME NEW g \in Families \ {f}, spoilt'[g] = "no"
          PROVE  GatewayInvOf(g)'
      BY <3>1, <3>4 DEF GatewayInv, GatewayInvOf, HostsOf, InCallback,
                        Pending, Wanted, Counting
    <3> QED
      BY <3>3, <3>4 DEF GatewayInv
  <2>3. CASE FailLink(f)
    <3>1. /\ UNCHANGED <<upHosts, isUp, cb, mon>>
          /\ \A g \in Families \ {f} : /\ gateway'[g] = gateway[g]
                                       /\ spoilt'[g] = spoilt[g]
          /\ spoilt'[f] = "no" => gateway'[f] = "down"
      BY <2>3 DEF FailLink, FailGateways, Moved, SessionTypeOK, HopTypeOK
    <3>2. \/ f = "v4" /\ link = "fail4" /\ link' = "zero6"
          \/ f = "v6" /\ link = "fail6" /\ link' = "down"
      BY <2>3 DEF FailLink
    <3>3. \A m \in Monitors : ~InCallback(m)'
      BY <3>1, <3>2 DEF ControlInv, InCallback
    <3>4. \A g \in Families : Wanted(g)' = "down"
      <4>1. \A g \in Families : upHosts'[g] = 0
        BY <3>1, <3>2 DEF CountAgrees, Counting
      <4> QED
        BY <4>1, MinimumUpAssumption DEF Wanted
    <3>5. ASSUME NEW g \in Families, spoilt'[g] = "no"
          PROVE  GatewayInvOf(g)'
      <4>1. g = f \/ g = "v4" \/ link' = "zero6"
        BY <3>2 DEF Families
      <4>2. g = f \/ f = "v4" \/ gateway[g] = "down"
        BY <3>1, <3>2, <3>5, <4>1 DEF GatewayInv, GatewayInvOf
      <4>3. link' = "down" \/ g = "v4" => gateway'[g] = "down"
        BY <3>1, <3>2, <3>5, <4>2 DEF Families
      <4> QED
        BY <3>2, <3>3, <3>4, <4>3 DEF GatewayInvOf, HostsOf, Counting
    <3> QED
      BY <3>5 DEF GatewayInv
  <2> QED
    BY <1>2, <2>1, <2>2, <2>3 DEF FamilyStep
<1>3. ASSUME NEW m \in Monitors, MonitorStep(m) PROVE GatewayInv'
  <2> DEFINE f == FamilyOf[m]
  <2>0. f \in Families /\ m \in HostsOf(f)
    BY FamilyOfAssumption DEF HostsOf
  <2>1. CASE StartMonitor(m)
    BY <2>1 DEF StartMonitor, GatewayInv, GatewayInvOf, HostsOf, InCallback,
                Pending, Wanted, Counting
  <2>2. CASE Up(m)
    <3>1. /\ ~InCallback(m) /\ Counting /\ Counting' /\ link' = link
          /\ link \in {"up", "stopping"} /\ UNCHANGED gateway
          /\ upHosts' = [upHosts EXCEPT ![f] = upHosts[f] + 1]
          /\ \A n \in Monitors \ {m} : cb'[n] = cb[n]
          /\ \A g \in Families \ {f} : spoilt'[g] = spoilt[g]
      BY <2>0, <2>2, UpFacts DEF Counting, SessionTypeOK, HopTypeOK
    <3>2. ASSUME NEW g \in Families \ {f}, spoilt'[g] = "no"
          PROVE  GatewayInvOf(g)'
      <4>1. HostsOf(g) \subseteq Monitors \ {m} /\ upHosts'[g] = upHosts[g]
        BY <3>1 DEF HostsOf, SessionTypeOK, HopTypeOK
      <4> QED
        BY <3>1, <3>2, <4>1 DEF GatewayInv, GatewayInvOf, HostsOf, InCallback,
                                Pending, Wanted
    <3>3. ASSUME spoilt'[f] = "no" PROVE GatewayInvOf(f)'
      <4>1. CASE upHosts[f] + 1 = MinimumUp
        <5>1. /\ ~Pending(f) /\ cb'[m].dir = "up" /\ cb'[m].edge
              /\ cb'[m].at = "action"
          BY <2>0, <2>2, <3>3, <4>1, UpFacts DEF SessionTypeOK, HopTypeOK
        <5>2. \A n \in HostsOf(f) : InCallback(n)' => n = m
          BY <3>1, <5>1 DEF Pending, HostsOf, InCallback, ControlInv
        <5>3. Wanted(f)' = "up" /\ Pending(f)'
          BY <2>0, <3>1, <4>1, <5>1, MinimumUpAssumption
          DEF Wanted, Pending, InCallback, SessionTypeOK, HopTypeOK
        <5> QED
          BY <3>1, <5>1, <5>2, <5>3 DEF GatewayInvOf, HostsOf
      <4>2. CASE upHosts[f] + 1 # MinimumUp
        <5>1. spoilt[f] = "no" /\ ~InCallback(m)'
          BY <2>0, <2>2, <3>3, <4>2, UpFacts DEF InCallback, Idle,
                                                 SessionTypeOK, HopTypeOK
        <5>2. Wanted(f)' = Wanted(f)
          BY <2>0, <3>1, <4>2, MinimumUpAssumption DEF Wanted, SessionTypeOK, HopTypeOK
        <5> QED
          BY <2>0, <3>1, <5>1, <5>2
          DEF GatewayInv, GatewayInvOf, HostsOf, InCallback, Pending
      <4> QED
        BY <4>1, <4>2
    <3> QED
      BY <3>2, <3>3 DEF GatewayInv
  <2>3. CASE Down(m)
    <3>1. /\ ~InCallback(m) /\ Counting /\ Counting' /\ link' = link
          /\ link \in {"up", "stopping"} /\ UNCHANGED gateway
          /\ upHosts' = [upHosts EXCEPT ![f] = upHosts[f] - 1]
          /\ \A n \in Monitors \ {m} : cb'[n] = cb[n]
          /\ \A g \in Families \ {f} : spoilt'[g] = spoilt[g]
      BY <2>0, <2>3, DownFacts DEF Counting, SessionTypeOK, HopTypeOK
    <3>2. ASSUME NEW g \in Families \ {f}, spoilt'[g] = "no"
          PROVE  GatewayInvOf(g)'
      <4>1. HostsOf(g) \subseteq Monitors \ {m} /\ upHosts'[g] = upHosts[g]
        BY <3>1 DEF HostsOf, SessionTypeOK, HopTypeOK
      <4> QED
        BY <3>1, <3>2, <4>1 DEF GatewayInv, GatewayInvOf, HostsOf, InCallback,
                                Pending, Wanted
    <3>3. ASSUME spoilt'[f] = "no" PROVE GatewayInvOf(f)'
      <4>1. CASE upHosts[f] - 1 = MinimumUp - 1
        <5>1. /\ ~Pending(f) /\ cb'[m].dir = "down" /\ cb'[m].edge
              /\ cb'[m].at = "action"
          BY <2>0, <2>3, <3>3, <4>1, DownFacts DEF SessionTypeOK, HopTypeOK
        <5>2. \A n \in HostsOf(f) : InCallback(n)' => n = m
          BY <3>1, <5>1 DEF Pending, HostsOf, InCallback, ControlInv
        <5>3. Wanted(f)' = "down" /\ Pending(f)'
          BY <2>0, <3>1, <4>1, <5>1, MinimumUpAssumption
          DEF Wanted, Pending, InCallback, SessionTypeOK, HopTypeOK
        <5> QED
          BY <3>1, <5>1, <5>2, <5>3 DEF GatewayInvOf, HostsOf
      <4>2. CASE upHosts[f] - 1 # MinimumUp - 1
        <5>1. spoilt[f] = "no" /\ ~InCallback(m)'
          BY <2>0, <2>3, <3>3, <4>2, DownFacts DEF InCallback, Idle,
                                                   SessionTypeOK, HopTypeOK
        <5>2. Wanted(f)' = Wanted(f)
          BY <2>0, <3>1, <4>2, MinimumUpAssumption DEF Wanted, SessionTypeOK, HopTypeOK
        <5> QED
          BY <2>0, <3>1, <5>1, <5>2
          DEF GatewayInv, GatewayInvOf, HostsOf, InCallback, Pending
      <4> QED
        BY <4>1, <4>2
    <3> QED
      BY <3>2, <3>3 DEF GatewayInv
  <2>4. CASE Act(m)
    <3>1. /\ InCallback(m) /\ ~InCallback(m)' /\ UNCHANGED <<upHosts, link>>
          /\ \A n \in Monitors \ {m} : cb'[n] = cb[n]
          /\ \A g \in Families \ {f} : /\ gateway'[g] = gateway[g]
                                       /\ spoilt'[g] = spoilt[g]
          /\ spoilt'[f] = "no" => /\ spoilt[f] = "no"
                                  /\ gateway'[f] = cb[m].dir
      BY <2>0, <2>4 DEF Act, GatewayAction, Moved, InCallback, Idle,
                        SessionTypeOK, HopTypeOK
    <3>2. ASSUME NEW g \in Families \ {f}, spoilt'[g] = "no"
          PROVE  GatewayInvOf(g)'
      <4>1. HostsOf(g) \subseteq Monitors \ {m}
        BY DEF HostsOf
      <4> QED
        BY <3>1, <3>2, <4>1 DEF GatewayInv, GatewayInvOf, HostsOf, InCallback,
                                Pending, Wanted, Counting
    <3>3. ASSUME spoilt'[f] = "no" PROVE GatewayInvOf(f)'
      <4>1. gateway'[f] = Wanted(f)' /\ link' \in {"up", "stopping"}
        BY <2>0, <3>1, <3>3 DEF GatewayInv, GatewayInvOf, Wanted, ControlInv
      <4>2. \A n \in HostsOf(f) : ~InCallback(n)'
        BY <2>0, <3>1, <3>3 DEF GatewayInv, GatewayInvOf, InCallback, HostsOf
      <4> QED
        BY <4>1, <4>2 DEF GatewayInvOf, HostsOf
    <3> QED
      BY <3>2, <3>3 DEF GatewayInv
  <2>5. CASE StopMonitor(m)
    BY <2>5 DEF StopMonitor, GatewayInv, GatewayInvOf, HostsOf, InCallback,
                Pending, Wanted, Counting
  <2> QED
    BY <1>3, <2>1, <2>2, <2>3, <2>4, <2>5 DEF MonitorStep
<1>4. CASE UNCHANGED vars
  BY <1>4 DEF vars, GatewayInv, GatewayInvOf, HostsOf, InCallback, Pending,
              Wanted, Counting
<1> QED
  BY <1>1, <1>2, <1>3, <1>4 DEF Next

-----------------------------------------------------------------------------
LEMMA InvStep == IInv /\ [Next]_vars => IInv'
BY TypeInv, ControlStep, CountStep, GatewayStep DEF IInv

LEMMA Invariance == Spec => []IInv
BY InvStep, InitInv, PTL DEF Spec

LEMMA InRange == IInv => CountInRange
<1> SUFFICES ASSUME IInv PROVE CountInRange
  OBVIOUS
<1>1. \A f \in Families : upHosts[f] \in 0 .. Total[f]
  BY HostCounts, TotalAssumption DEF IInv, CountAgrees
<1>2. \A m \in Monitors : cb[m].at # "clamp"
  BY DEF IInv, ControlInv, InCallback
<1> QED
  BY <1>1, <1>2 DEF CountInRange

LEMMA InAgreement == IInv => GatewayAgrees
BY DEF IInv, GatewayInv, GatewayInvOf, GatewayAgrees

(* Spec keeps its variables in their types, and its counters from falling  *)
(* below zero (interface.go:173-175).                                      *)
THEOREM TypeCorrect == Spec => []TypeOK
<1>1. IInv => TypeOK
  <2> SUFFICES ASSUME IInv PROVE TypeOK
    OBVIOUS
  <2>1. \A f \in Families : upHosts[f] \in Nat
    BY HostCounts DEF IInv, CountAgrees
  <2>2. upHosts \in [Families -> Nat]
    BY <2>1 DEF IInv, SessionTypeOK, HopTypeOK
  <2> QED
    BY <2>2 DEF IInv, SessionTypeOK, TypeOK
<1> QED
  BY <1>1, Invariance, PTL

(* The counter of a family is the number of its hosts whose monitor holds  *)
(* them to be up.                                                          *)
THEOREM CountsAgree == Spec => []CountAgrees
<1>1. IInv => CountAgrees
  BY DEF IInv
<1> QED
  BY <1>1, Invariance, PTL

(* No counter leaves its range and no clamp runs.                          *)
THEOREM CountsInRange == Spec => []CountInRange
BY InRange, Invariance, PTL

(* Edges of the counters, acted on one at a time and without an error, put *)
(* the gateway routes where the counters want them.                        *)
THEOREM GatewaysAgree == Spec => []GatewayAgrees
BY InAgreement, Invariance, PTL

(* While a link is down nothing of the session before changes anything.    *)
THEOREM QuietWhileDown == Spec => DownIsQuiet
<1>1. ASSUME IInv, [Next]_vars
      PROVE  [link = "down" => UNCHANGED <<upHosts, isUp, cb, gateway>>]_vars
  <2> SUFFICES ASSUME link = "down", Next
               PROVE  UNCHANGED <<upHosts, isUp, cb, gateway>>
    BY <1>1 DEF vars, hopVars
  <2>1. /\ start = "none"
        /\ \A m \in Monitors : mon[m] # "running" /\ ~InCallback(m)
    BY <1>1 DEF IInv, ControlInv
  <2>2. CASE LinkStep
    BY <2>2 DEF LinkStep, LinkUp, LinkDown, AllStopped, ZeroHosts, hopVars
  <2>3. ASSUME NEW f \in Families, FamilyStep(f)
        PROVE  UNCHANGED <<upHosts, isUp, cb, gateway>>
    BY <2>1, <2>3 DEF FamilyStep, FindAddress, FailStarted, FailLink, Families
  <2>4. ASSUME NEW m \in Monitors, MonitorStep(m)
        PROVE  UNCHANGED <<upHosts, isUp, cb, gateway>>
    BY <2>1, <2>4, FamilyOfAssumption
    DEF MonitorStep, StartMonitor, Up, Down, Act, StopMonitor, GatewayAction,
        InCallback, Families
  <2> QED
    BY <2>2, <2>3, <2>4 DEF Next
<1> QED
  BY <1>1, Invariance, PTL DEF Spec, DownIsQuiet
=============================================================================
