---------------------------- MODULE ServerProofs ----------------------------
(***************************************************************************)
(* Proofs about Server, for any interface, any number of flips and epochs  *)
(* and any size of the socket's buffer.                                    *)
(*                                                                         *)
(* ReceiverInv tells which of the link monitor and Server.Stop may be      *)
(* where at once; it makes the link stand still once the link monitor's    *)
(* Stop has returned.  What Stop leaves running follows as in              *)
(* LinkServerProofs, whose invariant every step of the server keeps: a     *)
(* monitor that is no exception is registered, and Stop's loop has still   *)
(* to come to its name, or waits for it.                                   *)
(***************************************************************************)
EXTENDS Server, LinkSessionProofs, SequenceTheorems

(* A callback runs between a message and the next, or the next look at the *)
(* context; and Receive is not called when the context was cancelled.      *)
ReceiverInv ==
    /\ link \notin {"up", "down"} => receiver \in {"look", "receive"}
    /\ server \in {"routes", "done"} =>
          receiver # "receive" /\ link \in {"up", "down"}

LEMMA ReceiverInit == ServerInit => ReceiverInv
  BY DEF ServerInit, Init, ReceiverInv

LEMMA LinkStandsStill ==
    ASSUME link \in {"up", "down"}, LinkRuns PROVE UNCHANGED linkVars
  BY DEF LinkRuns, VisitMonitor, StopMonitor, AllStopped, DeleteRules, ZeroHosts,
         FailLink, CloseShutdown, linkVars

(* linkDown runs in one goroutine, and does not take the link up.          *)
LEMMA LinkRunsDown ==
    ASSUME LinkRuns PROVE link' = "up" <=> link = "up"
  BY DEF LinkRuns, VisitMonitor, StopMonitor, AllStopped, DeleteRules, ZeroHosts,
         FailLink, CloseShutdown, linkVars

LEMMA UnservedKeepsLink ==
    ASSUME Unserved PROVE UNCHANGED linkVars
  BY DEF Unserved, DialFails, FindAddress, WatcherEnds, Up, Down, Clamp, Act,
         callFrame

(* Of all that happens, only a message and the goroutine of linkDown move  *)
(* the link.                                                               *)
LEMMA WhoMovesTheLink ==
    ASSUME [ServerNext]_allVars, ~Receive, ~(LinkRuns /\ UNCHANGED serverVars)
    PROVE  UNCHANGED linkVars
  <1> USE DEF vars, stopFrame
  <1>1. CASE Flip \/ Dial \/ Bootstrap \/ LookAtContext \/ Deadline
    BY <1>1 DEF Flip, Dial, Bootstrap, LookAtContext, Deadline
  <1>2. CASE StopBegins \/ StopRuns
    BY <1>2 DEF StopBegins, StopRuns, StopVisits, StopAwaits, IcmpStopped,
                LinkStopped, LinkReturns, RoutesStopped
  <1>3. CASE SyncCleans \/ \E e \in Epochs : RegistryRace(e)
    BY <1>3 DEF SyncCleans, RegistryRace
  <1>4. ASSUME NEW e \in Epochs, WatcherRuns(e) PROVE UNCHANGED linkVars
    BY <1>4 DEF WatcherRuns, Started, AddMonitor, AddRule, FailStarted
  <1>5. CASE Unserved
    BY <1>5, UnservedKeepsLink
  <1>6. CASE UNCHANGED allVars
    BY <1>6 DEF allVars
  <1> QED
    BY <1>1, <1>2, <1>3, <1>4, <1>5, <1>6 DEF ServerNext, ReceiverRuns

LEMMA WhoMovesTheReceiver ==
    ASSUME [ServerNext]_allVars, ~Dial, ~Bootstrap, ~LookAtContext, ~Deadline,
           ~Receive
    PROVE  UNCHANGED receiver
  BY DEF ServerNext, ReceiverRuns, Flip, StopBegins, StopRuns, StopVisits,
         StopAwaits, IcmpStopped, LinkStopped, LinkReturns, RoutesStopped,
         SyncCleans, RegistryRace, WatcherRuns, Started, otherFrame, serverVars,
         allVars

(* Server.Stop passes the link monitor when it has ended or has not begun. *)
LEMMA WhoPassesTheLink ==
    ASSUME [ServerNext]_allVars, server' \in {"routes", "done"}
    PROVE  server \in {"routes", "done"} \/ LinkStopped
  BY DEF ServerNext, ReceiverRuns, Flip, Dial, Bootstrap, LookAtContext, Deadline,
         Receive, StopBegins, StopRuns, StopVisits, StopAwaits, IcmpStopped,
         LinkStopped, LinkReturns, RoutesStopped, SyncCleans, RegistryRace,
         WatcherRuns, Started, runFrame, stopVars, serverVars, allVars

LEMMA ReceiverStep == ReceiverInv /\ [ServerNext]_allVars => ReceiverInv'
  <1> SUFFICES ASSUME ReceiverInv, [ServerNext]_allVars PROVE ReceiverInv'
    OBVIOUS
  <1> USE DEF ReceiverInv, linkVars
  <1>1. CASE Dial \/ Bootstrap \/ LookAtContext \/ Deadline
    <2>1. UNCHANGED <<link, server>>
      BY <1>1 DEF Dial, Bootstrap, LookAtContext, Deadline, vars, runFrame, stopVars
    <2> QED
      BY <1>1, <2>1 DEF Dial, Bootstrap, LookAtContext, Deadline, Cancelled
  <1>2. CASE Receive
    BY <1>2 DEF Receive, runFrame, stopVars
  <1>3. CASE LinkRuns /\ UNCHANGED serverVars
    <2>1. UNCHANGED <<server, receiver>>
      BY <1>3 DEF serverVars, stopVars
    <2>2. CASE link \in {"up", "down"}
      BY <1>3, <2>1, <2>2, LinkStandsStill
    <2>3. CASE link \notin {"up", "down"}
      BY <2>1, <2>3
    <2> QED
      BY <2>2, <2>3
  <1>4. CASE /\ ~(Dial \/ Bootstrap \/ LookAtContext \/ Deadline \/ Receive)
             /\ ~(LinkRuns /\ UNCHANGED serverVars)
    <2>1. UNCHANGED <<link, receiver>>
      BY <1>4, WhoMovesTheLink, WhoMovesTheReceiver
    <2>2. CASE LinkStopped
      BY <2>1, <2>2 DEF LinkStopped
    <2>3. CASE ~LinkStopped
      BY <2>1, <2>3, WhoPassesTheLink
    <2> QED
      BY <2>2, <2>3
  <1> QED
    BY <1>1, <1>2, <1>3, <1>4

(* The link stands still from the moment the link monitor's Stop returns   *)
(* (server.go:122-124, linkstate/link.go:101), for any interface and       *)
(* however often its link changes.                                         *)
THEOREM LinkChangeIsOver == ServerSpec => NoLinkChangeAfterStop
  <1>1. ReceiverInv /\ [ServerNext]_allVars =>
            [(server \in {"routes", "done"}) => UNCHANGED linkVars]_allVars
    <2> SUFFICES ASSUME ReceiverInv, [ServerNext]_allVars,
                        server \in {"routes", "done"}
                 PROVE  UNCHANGED linkVars
      OBVIOUS
    <2>1. ~Receive
      BY DEF Receive, ReceiverInv
    <2>2. CASE LinkRuns /\ UNCHANGED serverVars
      BY <2>2, LinkStandsStill DEF ReceiverInv
    <2> QED
      BY <2>1, <2>2, WhoMovesTheLink
  <1> QED
    BY <1>1, ReceiverInit, ReceiverStep, PTL DEF ServerSpec, NoLinkChangeAfterStop

-----------------------------------------------------------------------------
QueueInv == queue \in Seq(BOOLEAN) /\ carrier \in BOOLEAN /\ lost \in BOOLEAN

(* What the link monitor will hold the link to be.                         *)
Told == IF queue = <<>> THEN link = "up" ELSE queue[Len(queue)]

FollowInv == QueueInv /\ LinkFollows

LEMMA FollowInit == ServerInit => FollowInv
  <1> SUFFICES ASSUME ServerInit PROVE FollowInv
    OBVIOUS
  <1>1. queue = <<>> /\ carrier = FALSE /\ lost = FALSE /\ receiver = "new"
    BY DEF ServerInit
  <1>2. QueueInv
    BY <1>1, EmptySeq DEF QueueInv
  <1>3. LinkFollows
    BY <1>1 DEF LinkFollows
  <1> QED
    BY <1>2, <1>3 DEF FollowInv

(* A message that finds room is what the link monitor is told last.        *)
LEMMA TellFacts ==
    ASSUME QueueInv, NEW up \in BOOLEAN, Tell(up)
    PROVE  /\ queue' \in Seq(BOOLEAN) /\ lost' \in BOOLEAN
           /\ ~lost' => queue' # <<>> /\ queue'[Len(queue')] = up
  <1>1. CASE Len(queue) < MaxQueue
    BY <1>1 DEF Tell, QueueInv
  <1>2. CASE ~(Len(queue) < MaxQueue)
    BY <1>2 DEF Tell, QueueInv
  <1> QED
    BY <1>1, <1>2

(* When a message was handled, either it was the last one and the link is  *)
(* what it said, or the last one is still to come.                         *)
LEMMA ReceiveFacts ==
    ASSUME QueueInv, Receive
    PROVE  /\ queue' \in Seq(BOOLEAN)
           /\ Told' <=> queue[Len(queue)]
  <1>1. queue # <<>> /\ queue' = Tail(queue)
    BY DEF Receive
  <1>2. link' = "up" <=> Head(queue)
    <2>1. CASE Head(queue) /\ RecvUp
      BY <2>1 DEF RecvUp
    <2>2. CASE ~Head(queue) /\ RecvDown
      BY <2>2 DEF RecvDown
    <2>3. CASE Head(queue) = (link = "up") /\ UNCHANGED vars
      <3>1. Head(queue) \in BOOLEAN
        BY <1>1 DEF QueueInv
      <3>2. link' = link
        BY <2>3 DEF vars, linkVars
      <3> QED
        BY <2>3, <3>1, <3>2
    <2> QED
      BY <2>1, <2>2, <2>3 DEF Receive
  <1>3. queue' \in Seq(BOOLEAN)
    BY <1>1 DEF QueueInv
  <1>4. CASE Len(queue) = 1
    <2>1. queue' = <<>> /\ Head(queue) = queue[Len(queue)]
      BY <1>1, <1>4 DEF QueueInv
    <2> QED
      BY <1>2, <1>3, <2>1 DEF Told
  <1>5. CASE Len(queue) # 1
    <2> DEFINE n == Len(queue)
    <2>1. n \in Nat /\ n >= 2
      <3>1. queue \in Seq(BOOLEAN) /\ Len(queue) \in Nat
        BY DEF QueueInv
      <3>2. Len(queue) # 0
        BY <1>1, <3>1, EmptySeq
      <3>3. \A k \in Nat : k # 0 /\ k # 1 => k >= 2
        OBVIOUS
      <3>4. Len(queue) >= 2
        BY <1>5, <3>1, <3>2, <3>3, Zenon
      <3> QED
        BY <3>1, <3>4, Zenon
    <2>2. Len(queue') = n - 1
      BY <1>1, <2>1 DEF QueueInv
    <2>3. queue'[n - 1] = queue[(n - 1) + 1]
      BY <1>1, <2>1 DEF QueueInv
    <2>4. queue' # <<>> /\ queue'[Len(queue')] = queue[n]
      BY <2>1, <2>2, <2>3
    <2> QED
      BY <1>3, <2>4 DEF Told
  <1> QED
    BY <1>4, <1>5

(* Only the kernel and the link monitor touch the socket.                  *)
LEMMA WhoMovesTheQueue ==
    ASSUME [ServerNext]_allVars, ~Flip, ~Bootstrap, ~Receive
    PROVE  UNCHANGED <<queue, lost, carrier>>
  BY DEF ServerNext, ReceiverRuns, Dial, LookAtContext, Deadline, StopBegins,
         StopRuns, StopVisits, StopAwaits, IcmpStopped, LinkStopped, LinkReturns,
         RoutesStopped, SyncCleans, RegistryRace, WatcherRuns, Started,
         runFrame, otherFrame, kernelVars, serverVars, allVars

LEMMA FollowStep ==
    ReceiverInv /\ FollowInv /\ [ServerNext]_allVars => FollowInv'
  <1> SUFFICES ASSUME ReceiverInv, FollowInv, [ServerNext]_allVars
               PROVE  FollowInv'
    OBVIOUS
  <1> USE DEF FollowInv, LinkFollows
  <1>1. CASE Flip
    <2>1. UNCHANGED <<receiver, link>> /\ carrier' = ~carrier
      BY <1>1 DEF Flip, vars, linkVars
    <2>2. CASE Joined
      <3>1. Tell(~carrier)
        BY <1>1, <2>2 DEF Flip
      <3>2. /\ queue' \in Seq(BOOLEAN) /\ lost' \in BOOLEAN
            /\ ~lost' => queue' # <<>> /\ queue'[Len(queue')] = ~carrier
        BY <3>1, TellFacts
      <3> QED
        BY <2>1, <3>2 DEF QueueInv
    <2>3. CASE ~Joined
      BY <1>1, <2>1, <2>3 DEF Flip, Joined, QueueInv
    <2> QED
      BY <2>2, <2>3
  <1>2. CASE Bootstrap
    <2>1. UNCHANGED carrier
      BY <1>2 DEF Bootstrap, runFrame
    <2>2. CASE Tell(carrier)
      <3>1. carrier \in BOOLEAN
        BY DEF QueueInv
      <3>2. /\ queue' \in Seq(BOOLEAN) /\ lost' \in BOOLEAN
            /\ ~lost' => queue' # <<>> /\ queue'[Len(queue')] = carrier
        BY <2>2, <3>1, TellFacts
      <3> QED
        BY <2>1, <3>2 DEF QueueInv
    <2>3. CASE lost' = TRUE /\ UNCHANGED queue
      BY <2>1, <2>3 DEF QueueInv
    <2> QED
      BY <1>2, <2>2, <2>3 DEF Bootstrap
  <1>3. CASE Receive
    <2>1. UNCHANGED <<carrier, lost>> /\ receiver = "receive" /\ queue # <<>>
      BY <1>3 DEF Receive, runFrame
    <2>2. queue' \in Seq(BOOLEAN) /\ (Told' <=> queue[Len(queue)])
      BY <1>3, ReceiveFacts
    <2>3. queue[Len(queue)] \in BOOLEAN
      BY <2>1 DEF QueueInv
    <2>4. ~lost => carrier = queue[Len(queue)]
      BY <2>1
    <2>5. Told' \in BOOLEAN
      <3>1. CASE queue' = <<>>
        BY <3>1 DEF Told
      <3>2. CASE queue' # <<>>
        <4>1. Len(queue') \in 1 .. Len(queue')
          BY <2>2, <3>2
        <4> QED
          BY <2>2, <3>2, <4>1 DEF Told
      <3> QED
        BY <3>1, <3>2
    <2>6. ~lost' => carrier' = Told'
      BY <2>1, <2>2, <2>3, <2>4, <2>5
    <2>7. QueueInv'
      BY <2>1, <2>2 DEF QueueInv
    <2> QED
      BY <2>6, <2>7 DEF Told
  <1>4. CASE ~Flip /\ ~Bootstrap /\ ~Receive
    <2>1. UNCHANGED <<queue, lost, carrier>>
      BY <1>4, WhoMovesTheQueue
    <2>2. link' = "up" <=> link = "up"
      <3>1. CASE LinkRuns /\ UNCHANGED serverVars
        BY <3>1, LinkRunsDown
      <3>2. CASE ~(LinkRuns /\ UNCHANGED serverVars)
        BY <1>4, <3>2, WhoMovesTheLink DEF linkVars
      <3> QED
        BY <3>1, <3>2
    <2>3. receiver' \in {"look", "receive"} => receiver \in {"look", "receive"}
      <3>1. CASE Dial \/ LookAtContext \/ Deadline
        BY <3>1 DEF Dial, LookAtContext, Deadline
      <3>2. CASE ~(Dial \/ LookAtContext \/ Deadline)
        BY <1>4, <3>2, WhoMovesTheReceiver
      <3> QED
        BY <3>1, <3>2
    <2> QED
      BY <2>1, <2>2, <2>3 DEF QueueInv
  <1> QED
    BY <1>1, <1>2, <1>3, <1>4

(* Until a message is lost, the link monitor holds the link to be what it  *)
(* is, or will once it has handled what is in its socket, wherever the     *)
(* link changes (linkstate/link.go:105-133), for any size of the buffer.   *)
THEOREM MonitorFollowsLink == ServerSpec => []LinkFollows
  <1>1. ServerInit => ReceiverInv /\ FollowInv
    BY ReceiverInit, FollowInit
  <1>2. ReceiverInv /\ FollowInv /\ [ServerNext]_allVars => ReceiverInv' /\ FollowInv'
    BY ReceiverStep, FollowStep
  <1>3. FollowInv => LinkFollows
    BY DEF FollowInv
  <1> QED
    BY <1>1, <1>2, <1>3, PTL DEF ServerSpec

-----------------------------------------------------------------------------
(* What the loop of Server.Stop still has to do for a monitor.             *)
StillToVisit(m) == NameOf(m) \in left \/ awaited = m

Excepted == late \cup orphans

(* Whose rule may be left once the route sync has cleaned up.              *)
RuleExcepted(h) == \E e \in Epochs : watcher[e].host = h \/ <<e, h>> \in orphans

VisitInv ==
    /\ server \in {"serving", "icmp", "link", "routes", "done"}
    /\ awaited # NoMonitor => server = "icmp"
    /\ server = "icmp" =>
          \A m \in Monitors : Alive(m) /\ m \notin Excepted =>
              registry[NameOf(m)] = m /\ StillToVisit(m)
    /\ server \in {"link", "routes", "done"} =>
          \A m \in Monitors : Alive(m) => m \in Excepted

CleanedInv ==
    routeSync = "cleaned" =>
        server \in {"routes", "done"} /\ \A h \in rules \ kept : RuleExcepted(h)

ServerInv == Inv /\ ReceiverInv /\ VisitInv /\ CleanedInv

LEMMA ServerInvInit == ServerInit => ServerInv
  BY InvInit, ReceiverInit DEF ServerInit, ServerInv, VisitInv, CleanedInv

(* What the server adds to the steps of LinkServer.                        *)
StopSteps ==
    \/ StopBegins
    \/ \E n \in Names : StopVisits(n)
    \/ StopAwaits
    \/ SyncCleans
    \/ \E e \in Epochs : RegistryRace(e)

LEMMA ServerSteps == [ServerNext]_allVars => [Next]_vars \/ StopSteps
  <1> SUFFICES ASSUME [ServerNext]_allVars PROVE [Next]_vars \/ StopSteps
    OBVIOUS
  <1>1. CASE Flip \/ Dial \/ Bootstrap \/ LookAtContext \/ Deadline
    BY <1>1 DEF Flip, Dial, Bootstrap, LookAtContext, Deadline
  <1>2. CASE ServerNext /\ Receive
    BY <1>2 DEF ServerNext, ProcessRuns, Receive, Next
  <1>3. CASE ServerNext /\ LinkRuns
    BY <1>3 DEF ServerNext, ProcessRuns, Next
  <1>4. CASE StopRuns
    BY <1>4 DEF StopRuns, StopSteps, IcmpStopped, LinkStopped, LinkReturns,
                RoutesStopped
  <1>5. CASE StopBegins \/ SyncCleans \/ \E e \in Epochs : RegistryRace(e)
    BY <1>5 DEF StopSteps
  <1>6. ASSUME NEW e \in Epochs, ServerNext, WatcherRuns(e) PROVE Next
    BY <1>6 DEF ServerNext, ProcessRuns, Next, WatcherRuns, Started, StartsHosts
  <1>7. CASE ServerNext /\ Unserved
    BY <1>7 DEF ServerNext, ProcessRuns, Next, Unserved
  <1>8. CASE UNCHANGED allVars
    BY <1>8 DEF allVars
  <1> QED
    BY <1>1, <1>2, <1>3, <1>4, <1>5, <1>6, <1>7, <1>8 DEF ServerNext, ReceiverRuns

(* A Stop of the server's own starts nothing.                              *)
LEMMA StopKeepsAlive ==
    ASSUME TypeInv, StopSteps
    PROVE  /\ life' \in [Monitors -> Lives]
           /\ \A m \in Monitors : Alive(m)' => Alive(m)
  <1>0. life \in [Monitors -> Lives]
    BY DEF TypeInv, TypeOK
  <1>1. ASSUME NEW n \in Names, StopVisits(n)
        PROVE  /\ life' \in [Monitors -> Lives]
               /\ \A m \in Monitors : Alive(m)' => Alive(m)
    BY <1>0, <1>1, CancelKeeps DEF StopVisits
  <1>2. CASE StopAwaits
    BY <1>0, <1>2 DEF StopAwaits, Alive, Lives
  <1>3. CASE UNCHANGED life
    BY <1>0, <1>3 DEF Alive
  <1> QED
    BY <1>1, <1>2, <1>3 DEF StopSteps, StopBegins, SyncCleans, RegistryRace

LEMMA StopFrame ==
    ASSUME StopSteps
    PROVE  /\ UNCHANGED <<hopVars, linkVars, watcher, registry, loopVars, late>>
           /\ UNCHANGED <<rules, kept>> \/ (rules' \in SUBSET rules /\ kept' = rules')
           /\ clean' \in {clean, FALSE}
           /\ crashed' \in {crashed, TRUE}
  BY DEF StopSteps, StopBegins, StopVisits, StopAwaits, SyncCleans, RegistryRace,
         stopFrame

LEMMA TypeStop == TypeInv /\ StopSteps => TypeInv'
  BY StopFrame, StopKeepsAlive, HopSame
  DEF TypeInv, TypeOK, WatcherInv, EpochInv, linkVars, loopVars

LEMMA InvStop == Inv /\ StopSteps => Inv'
  <1> SUFFICES ASSUME Inv, StopSteps PROVE Inv'
    OBVIOUS
  <1> USE StopFrame DEF Inv, linkVars, loopVars
  <1>1. TypeInv'
    BY TypeStop
  <1>2. CleanInv'
    <2>1. clean' => clean
      BY DEF TypeInv, TypeOK
    <2>2. BusyInv'
      BY <2>1 DEF CleanInv, BusyInv, Busy, InSession
    <2>3. RuleInv'
      BY <2>1 DEF CleanInv, RuleInv
    <2> QED
      BY <2>2, <2>3 DEF CleanInv
  <1>3. AliveInv'
    BY StopKeepsAlive DEF AliveInv, StillToStop
  <1> QED
    BY <1>1, <1>2, <1>3

-----------------------------------------------------------------------------
(* A watcher that starts a monitor is the only one that starts anything.   *)
LEMMA WhoStarts ==
    ASSUME TypeInv, [ServerNext]_allVars, \A e \in Epochs : ~Started(e)
    PROVE  /\ UNCHANGED <<registry, late, orphans>>
           /\ \A m \in Monitors : Alive(m)' => Alive(m)
  <1>0. life \in [Monitors -> Lives]
    BY DEF TypeInv, TypeOK
  <1>1. CASE StopSteps
    BY <1>1, StopFrame, StopKeepsAlive
    DEF StopSteps, StopBegins, StopVisits, StopAwaits, SyncCleans, RegistryRace,
        otherFrame, serverVars
  <1>2. CASE LinkRuns /\ UNCHANGED serverVars
    <2>1. UNCHANGED <<registry, late, orphans>>
      BY <1>2 DEF LinkRuns, VisitMonitor, StopMonitor, AllStopped, DeleteRules,
                  ZeroHosts, FailLink, CloseShutdown, monVars, serverVars
    <2>2. ASSUME NEW n \in Names, VisitMonitor(n)
          PROVE  \A m \in Monitors : Alive(m)' => Alive(m)
      BY <1>0, <2>2, CancelKeeps DEF VisitMonitor
    <2>3. StopMonitor => \A m \in Monitors : Alive(m)' => Alive(m)
      BY <1>0 DEF StopMonitor, Alive
    <2>4. UNCHANGED life => \A m \in Monitors : Alive(m)' => Alive(m)
      BY DEF Alive
    <2> QED
      BY <1>2, <2>1, <2>2, <2>3, <2>4
      DEF LinkRuns, AllStopped, DeleteRules, ZeroHosts, FailLink, CloseShutdown,
          monVars
  <1>3. CASE Receive
    BY <1>3 DEF Receive, RecvUp, RecvDown, monVars, vars, runFrame, Alive
  <1>4. ASSUME NEW e \in Epochs, WatcherRuns(e)
        PROVE  /\ UNCHANGED <<registry, late, orphans, life>>
    BY <1>4 DEF WatcherRuns, AddRule, FailStarted, monVars, serverVars
  <1>5. CASE Unserved /\ UNCHANGED serverVars
    <2>1. ASSUME NEW m \in Monitors, Up(m) \/ Down(m)
          PROVE  /\ UNCHANGED <<registry, late>>
                 /\ \A k \in Monitors : Alive(k)' => Alive(k)
      BY <1>0, <2>1, CallKeeps DEF Up, Down, callFrame
    <2>2. UNCHANGED life => \A m \in Monitors : Alive(m)' => Alive(m)
      BY DEF Alive
    <2> QED
      BY <1>5, <2>1, <2>2
      DEF Unserved, DialFails, FindAddress, WatcherEnds, Clamp, Act, callFrame,
          monVars, serverVars
  <1>6. CASE Flip \/ Dial \/ Bootstrap \/ LookAtContext \/ Deadline
    BY <1>6 DEF Flip, Dial, Bootstrap, LookAtContext, Deadline, vars, monVars,
                runFrame, Alive
  <1>7. CASE IcmpStopped \/ LinkStopped \/ RoutesStopped \/ UNCHANGED allVars
    BY <1>7 DEF IcmpStopped, LinkStopped, LinkReturns, RoutesStopped, vars,
                monVars, otherFrame, allVars, serverVars, Alive
  <1>8. ASSUME NEW e \in Epochs, WatcherRuns(e)
        PROVE  \A m \in Monitors : Alive(m)' => Alive(m)
    BY <1>4, <1>8 DEF Alive
  <1> QED
    BY <1>1, <1>2, <1>3, <1>4, <1>5, <1>6, <1>7, <1>8
    DEF ServerNext, ReceiverRuns, StopRuns, StopSteps

(* Server.Stop moves along on its own.                                     *)
LEMMA WhoMovesStop ==
    ASSUME [ServerNext]_allVars, ~StopBegins, ~StopAwaits, ~IcmpStopped,
           \A n \in Names : ~StopVisits(n)
    PROVE  /\ left \subseteq left' /\ UNCHANGED awaited
           /\ server' = server
              \/ /\ server \in {"link", "routes"}
                 /\ server' \in {"routes", "done"}
  BY DEF ServerNext, ReceiverRuns, Flip, Dial, Bootstrap, LookAtContext, Deadline,
         Receive, StopRuns, LinkStopped, LinkReturns, RoutesStopped, SyncCleans,
         RegistryRace, WatcherRuns, Started, runFrame, stopVars, serverVars, allVars

LEMMA StartedVisit ==
    ASSUME TypeInv, VisitInv, NEW e \in Epochs, Started(e)
    PROVE  VisitInv'
  <1> DEFINE h == watcher[e].host
             k == <<e, h>>
             n == HostName[h]
  <1>1. h \in Hosts /\ k \in Monitors /\ n \in Names
    <2>1. h \in Hosts
      BY DEF Started, AddMonitor, TypeInv, TypeOK, WatcherInv, Watchers
    <2> QED
      BY <2>1 DEF Monitors, Names
  <1>2. /\ registry' = [registry EXCEPT ![n] = k]
        /\ life' = [life EXCEPT ![k] = "running"]
        /\ late \subseteq late'
        /\ orphans' = IF server = "serving" THEN orphans
                      ELSE orphans \cup ({k, registry[n]} \ {NoMonitor})
        /\ left \subseteq left'
        /\ UNCHANGED <<server, awaited>>
    BY DEF Started, AddMonitor
  <1> SUFFICES ASSUME server # "serving", NEW m \in Monitors, Alive(m)',
                      m \notin Excepted'
               PROVE  /\ server = "icmp"
                      /\ registry'[NameOf(m)] = m /\ StillToVisit(m)'
    BY <1>2 DEF VisitInv
  <1>3. registry \in [Names -> Monitors \cup {NoMonitor}] /\ life \in [Monitors -> Lives]
    BY DEF TypeInv, TypeOK
  <1>4. k # NoMonitor /\ m # NoMonitor
    BY <1>1, HostsAssumption DEF Monitors, NoMonitor
  <1>5. m # k /\ m # registry[n] /\ m \notin Excepted
    BY <1>2, <1>4 DEF Excepted
  <1>6. Alive(m)
    BY <1>1, <1>2, <1>3, <1>5 DEF Alive
  <1>7. server = "icmp" /\ registry[NameOf(m)] = m /\ StillToVisit(m)
    BY <1>5, <1>6 DEF VisitInv
  <1> QED
    BY <1>1, <1>2, <1>3, <1>5, <1>7 DEF StillToVisit

LEMMA VisitStep == Inv /\ VisitInv /\ [ServerNext]_allVars => VisitInv'
  <1> SUFFICES ASSUME Inv, VisitInv, [ServerNext]_allVars PROVE VisitInv'
    OBVIOUS
  <1>0. TypeInv /\ AliveInv
    BY DEF Inv
  <1>1. ASSUME NEW e \in Epochs, Started(e) PROVE VisitInv'
    BY <1>0, <1>1, StartedVisit
  <1>2. CASE \A e \in Epochs : ~Started(e)
    <2>1. /\ UNCHANGED <<registry, late, orphans>>
          /\ \A m \in Monitors : Alive(m)' => Alive(m)
      BY <1>0, <1>2, WhoStarts
    <2>2. \A m \in Monitors : NameOf(m) \in Names /\ m # NoMonitor
      BY HostsAssumption DEF NameOf, Names, Monitors, HostOf, NoMonitor
    <2>3. CASE StopBegins
      <3>1. /\ server = "serving" /\ server' = "icmp" /\ UNCHANGED awaited
            /\ left' = {n \in Names : registry[n] # NoMonitor}
        BY <2>3 DEF StopBegins
      <3>2. \A m \in Monitors : Alive(m)' /\ m \notin Excepted' =>
                registry[NameOf(m)] = m
        BY <1>0, <2>1 DEF AliveInv, Excepted
      <3> QED
        BY <2>1, <2>2, <3>1, <3>2 DEF VisitInv, StillToVisit
    <2>4. ASSUME NEW n \in Names, StopVisits(n) PROVE VisitInv'
      <3>1. /\ server = "icmp" /\ awaited = NoMonitor /\ UNCHANGED server
            /\ left' = left \ {n} /\ awaited' = registry[n]
        BY <2>4 DEF StopVisits
      <3> SUFFICES ASSUME NEW m \in Monitors, Alive(m)', m \notin Excepted'
                   PROVE  registry'[NameOf(m)] = m /\ StillToVisit(m)'
        BY <3>1 DEF VisitInv
      <3>2. registry[NameOf(m)] = m /\ NameOf(m) \in left
        BY <2>1, <2>2, <3>1 DEF VisitInv, StillToVisit, Excepted
      <3>3. CASE NameOf(m) = n
        BY <2>1, <3>1, <3>2, <3>3 DEF StillToVisit
      <3>4. CASE NameOf(m) # n
        <4>1. NameOf(m) \in left'
          BY <3>1, <3>2, <3>4
        <4> QED
          BY <2>1, <3>2, <4>1 DEF StillToVisit, NameOf
      <3> QED
        BY <3>3, <3>4
    <2>5. CASE StopAwaits
      <3>1. /\ server = "icmp" /\ awaited' = NoMonitor
            /\ UNCHANGED <<server, left>>
        BY <2>5 DEF StopAwaits, VisitInv
      <3>2. \A m \in Monitors : Alive(m)' => m # awaited
        BY <1>0, <2>5 DEF StopAwaits, Alive, TypeInv, TypeOK
      <3> QED
        BY <2>1, <3>1, <3>2 DEF VisitInv, StillToVisit, Excepted
    <2>6. CASE IcmpStopped
      BY <2>1, <2>2, <2>6 DEF IcmpStopped, VisitInv, StillToVisit, Excepted
    <2>7. CASE ~(StopBegins \/ StopAwaits \/ IcmpStopped \/ \E n \in Names : StopVisits(n))
      <3>1. /\ left \subseteq left' /\ UNCHANGED awaited
            /\ server' = server
               \/ /\ server \in {"link", "routes"}
                  /\ server' \in {"routes", "done"}
        BY <2>7, WhoMovesStop
      <3> QED
        BY <2>1, <3>1 DEF VisitInv, StillToVisit, Excepted
    <2> QED
      BY <2>3, <2>4, <2>5, <2>6, <2>7
  <1> QED
    BY <1>1, <1>2

LEMMA WhoCleans ==
    ASSUME [ServerNext]_allVars, ~SyncCleans PROVE UNCHANGED routeSync
  BY DEF ServerNext, ReceiverRuns, Flip, Dial, Bootstrap, LookAtContext,
         Deadline, Receive, StopBegins, StopRuns, StopVisits, StopAwaits,
         IcmpStopped, LinkStopped, LinkReturns, RoutesStopped, RegistryRace,
         WatcherRuns, Started, runFrame, serverVars, allVars

(* What a rule is due to stays once the link monitor has stopped, unless a *)
(* watcher moves on.                                                       *)
LEMMA WhoMovesRules ==
    ASSUME TypeInv, ReceiverInv, [ServerNext]_allVars, ~SyncCleans,
           server \in {"routes", "done"},
           \A e \in Epochs : ~Started(e) /\ ~(AddRule(e) /\ UNCHANGED serverVars)
    PROVE  /\ UNCHANGED <<rules, kept>>
           /\ \A d \in Epochs : watcher'[d].host = watcher[d].host
  <1>0. watcher \in [Epochs -> Watchers]
    BY DEF TypeInv, TypeOK
  <1>1. ~Receive /\ ~DeleteRules
    BY DEF ReceiverInv, Receive, DeleteRules
  <1>2. UNCHANGED <<rules, kept>>
    <2>1. CASE StopSteps
      BY <2>1 DEF StopSteps, StopBegins, StopVisits, StopAwaits, RegistryRace
    <2>2. CASE LinkRuns
      BY <1>1, <2>2 DEF LinkRuns, VisitMonitor, StopMonitor, AllStopped, ZeroHosts,
                        FailLink, CloseShutdown, monVars
    <2>3. ASSUME NEW e \in Epochs, WatcherRuns(e) PROVE UNCHANGED <<rules, kept>>
      BY <2>3 DEF WatcherRuns, FailStarted, monVars
    <2>4. CASE Unserved
      BY <2>4 DEF Unserved, DialFails, FindAddress, WatcherEnds, Up, Down, Clamp,
                  Act, callFrame, monVars
    <2>5. CASE UNCHANGED <<rules, kept>>
      BY <2>5
    <2> QED
      BY <1>1, <2>1, <2>2, <2>3, <2>4, <2>5
      DEF ServerNext, ReceiverRuns, Flip, Dial, Bootstrap, LookAtContext,
          Deadline, StopRuns, StopSteps, IcmpStopped, LinkStopped, LinkReturns,
          RoutesStopped, vars, monVars, allVars
  <1>3. \A d \in Epochs : watcher'[d].host = watcher[d].host
    <2> SUFFICES ASSUME NEW d \in Epochs PROVE watcher'[d].host = watcher[d].host
      OBVIOUS
    <2>1. CASE StopSteps
      BY <2>1, StopFrame
    <2>2. CASE LinkRuns
      BY <2>2 DEF LinkRuns, VisitMonitor, StopMonitor, AllStopped, DeleteRules,
                  ZeroHosts, FailLink, CloseShutdown
    <2>3. CASE RecvUp
      BY <1>0, <2>3 DEF RecvUp, Watchers
    <2>4. ASSUME NEW e \in Epochs, NEW f \in Families, FindAddress(e, f)
          PROVE  watcher'[d].host = watcher[d].host
      BY <1>0, <2>4 DEF FindAddress, Watchers
    <2>5. ASSUME NEW e \in Epochs, FailStarted(e)
          PROVE  watcher'[d].host = watcher[d].host
      BY <1>0, <2>5 DEF FailStarted, Watchers
    <2>6. ASSUME NEW e \in Epochs, WatcherEnds(e)
          PROVE  watcher'[d].host = watcher[d].host
      BY <1>0, <2>6 DEF WatcherEnds, Watchers
    <2>7. CASE UNCHANGED watcher
      BY <2>7
    <2>8. CASE Receive
      BY <2>3, <2>8 DEF Receive, RecvDown, vars
    <2>9. CASE Unserved
      BY <2>4, <2>6, <2>9 DEF Unserved, DialFails, Up, Down, Clamp, Act, callFrame
    <2> QED
      BY <2>1, <2>2, <2>5, <2>7, <2>8, <2>9
      DEF ServerNext, ReceiverRuns, Flip, Dial, Bootstrap, LookAtContext,
          Deadline, StopRuns, StopSteps, IcmpStopped, LinkStopped, LinkReturns,
          RoutesStopped, WatcherRuns, vars, allVars
  <1> QED
    BY <1>2, <1>3

(* Once clean, the table takes a rule only from a watcher that has the     *)
(* host at hand, and when it lets go of it, it has started an orphan.      *)
LEMMA CleanedStep ==
    TypeInv /\ ReceiverInv /\ VisitInv /\ CleanedInv /\ [ServerNext]_allVars
        => CleanedInv'
  <1> SUFFICES ASSUME TypeInv, ReceiverInv, VisitInv, CleanedInv,
                      [ServerNext]_allVars, routeSync' = "cleaned"
               PROVE  /\ server' \in {"routes", "done"}
                      /\ \A h \in rules' \ kept' : RuleExcepted(h)'
    BY DEF CleanedInv
  <1>0. watcher \in [Epochs -> Watchers] /\ rules \in SUBSET Hosts /\ WatcherInv
    BY DEF TypeInv, TypeOK
  <1>1. CASE SyncCleans
    BY <1>1 DEF SyncCleans, stopVars
  <1>2. ASSUME NEW e \in Epochs, Started(e)
        PROVE  /\ server' \in {"routes", "done"}
               /\ \A h \in rules' \ kept' : RuleExcepted(h)'
    <2>1. UNCHANGED <<server, routeSync, rules, kept>>
      BY <1>2 DEF Started, AddMonitor
    <2>2. server \in {"routes", "done"} /\ \A h \in rules \ kept : RuleExcepted(h)
      BY <2>1 DEF CleanedInv
    <2>3. /\ orphans \subseteq orphans'
          /\ watcher[e].host \in Hosts => <<e, watcher[e].host>> \in orphans'
      BY <1>2, <2>2, HostsAssumption DEF Started, NoMonitor
    <2>4. \A d \in Epochs \ {e} : watcher'[d] = watcher[d]
      BY <1>0, <1>2 DEF Started, AddMonitor
    <2> SUFFICES ASSUME NEW h \in rules \ kept PROVE RuleExcepted(h)'
      BY <2>1, <2>2
    <2>5. PICK d \in Epochs : watcher[d].host = h \/ <<d, h>> \in orphans
      BY <2>2 DEF RuleExcepted
    <2>6. CASE <<d, h>> \in orphans
      BY <2>3, <2>6 DEF RuleExcepted
    <2>7. CASE watcher[d].host = h /\ d = e
      BY <1>0, <2>3, <2>7 DEF RuleExcepted
    <2>8. CASE watcher[d].host = h /\ d # e
      BY <2>4, <2>8 DEF RuleExcepted
    <2> QED
      BY <2>5, <2>6, <2>7, <2>8
  <1>3. ASSUME NEW e \in Epochs, AddRule(e), UNCHANGED serverVars
        PROVE  /\ server' \in {"routes", "done"}
               /\ \A h \in rules' \ kept' : RuleExcepted(h)'
    <2>1. UNCHANGED <<server, routeSync, orphans>>
      BY <1>3 DEF serverVars, stopVars
    <2>2. server \in {"routes", "done"} /\ \A h \in rules \ kept : RuleExcepted(h)
      BY <2>1 DEF CleanedInv
    <2>3. PICK g \in watcher[e].todo :
             /\ rules' \in {rules} \cup (IF HasTable THEN {rules \cup {g}} ELSE {})
             /\ kept' = kept
             /\ watcher' = [watcher EXCEPT ![e].todo = @ \ {g}, ![e].host = g,
                                           ![e].pc = "rule"]
      BY <1>3 DEF AddRule
    <2>4. watcher[e].host = "none"
      BY <1>0, <1>3 DEF AddRule, WatcherInv
    <2>5. /\ watcher'[e].host = g
          /\ \A d \in Epochs \ {e} : watcher'[d] = watcher[d]
      BY <1>0, <2>3 DEF Watchers
    <2> SUFFICES ASSUME NEW h \in rules' \ kept PROVE RuleExcepted(h)'
      BY <2>1, <2>2, <2>3
    <2>6. CASE h = g
      BY <2>5, <2>6 DEF RuleExcepted
    <2>7. CASE h # g
      <3>1. h \in rules \ kept /\ h # "none"
        BY <1>0, <2>3, <2>7, HostsAssumption
      <3>2. PICK d \in Epochs : watcher[d].host = h \/ <<d, h>> \in orphans
        BY <2>2, <3>1 DEF RuleExcepted
      <3> QED
        BY <2>1, <2>4, <2>5, <3>1, <3>2 DEF RuleExcepted
    <2> QED
      BY <2>6, <2>7
  <1>4. CASE /\ ~SyncCleans
             /\ \A e \in Epochs :
                   ~Started(e) /\ ~(AddRule(e) /\ UNCHANGED serverVars)
    <2>1. server \in {"routes", "done"} /\ \A h \in rules \ kept : RuleExcepted(h)
      BY <1>4, WhoCleans DEF CleanedInv
    <2>2. UNCHANGED orphans
      BY <1>4, WhoStarts
    <2>3. /\ UNCHANGED <<rules, kept>>
          /\ \A d \in Epochs : watcher'[d].host = watcher[d].host
      BY <1>4, <2>1, WhoMovesRules
    <2>4. server' \in {"routes", "done"}
      <3>1. ~StopBegins /\ ~IcmpStopped /\ \A n \in Names : ~StopVisits(n)
        BY <2>1 DEF StopBegins, IcmpStopped, StopVisits
      <3>2. ~StopAwaits
        BY <2>1 DEF StopAwaits, VisitInv
      <3> QED
        BY <2>1, <3>1, <3>2, WhoMovesStop
    <2> QED
      BY <2>1, <2>2, <2>3, <2>4 DEF RuleExcepted
  <1> QED
    BY <1>1, <1>2, <1>3, <1>4

LEMMA ServerInvStep ==
    Distinct /\ ServerInv /\ [ServerNext]_allVars => ServerInv'
  <1>1. Distinct /\ Inv /\ [ServerNext]_allVars => Inv'
    BY ServerSteps, InvStep, InvStop
  <1>2. Inv => TypeInv
    BY DEF Inv
  <1> QED
    BY <1>1, <1>2, ReceiverStep, VisitStep, CleanedStep DEF ServerInv

LEMMA ServerInvLeaves == ServerInv => StopLeavesNothing /\ DownLeavesNothing
  <1>1. ServerInv => StopLeavesNothing
    BY DEF ServerInv, VisitInv, CleanedInv, RuleExcepted, Excepted, StopLeavesNothing
  <1> QED
    BY <1>1, InvLeaves DEF ServerInv

(* When Server.Stop has been through the registry, only monitors run that  *)
(* a watcher started out of its session or since the signal, and those     *)
(* they took the place of; when it has returned, only such a watcher's     *)
(* rules are left (server.go:117-132, route.go:247-256).  The promise of   *)
(* linkDown stands while Stop runs beside it.  For any number of hosts     *)
(* with names of their own, of epochs, and of changes of the link.         *)
THEOREM StopLeavesNoMonitor ==
    ASSUME Distinct PROVE ServerSpec => [](StopLeavesNothing /\ DownLeavesNothing)
  <1>1. ServerInv /\ [ServerNext]_allVars => ServerInv'
    BY ServerInvStep
  <1> QED
    BY <1>1, ServerInvInit, ServerInvLeaves, PTL DEF ServerSpec

-----------------------------------------------------------------------------
ServerTypeInv == TypeInv /\ ServerTypeOK

LEMMA ServerTypeInit == ServerInit => ServerTypeInv
  <1> SUFFICES ASSUME ServerInit PROVE ServerTypeInv
    OBVIOUS
  <1>1. TypeInv
    BY TypeInit DEF ServerInit
  <1>2. Len(queue) = 0
    BY EmptySeq DEF ServerInit
  <1>3. Len(queue) <= MaxQueue /\ 0 \in 0 .. MaxFlips
    BY <1>2, MaxQueueAssumption, MaxFlipsAssumption, MaxEpochAssumption
  <1>4. \A i \in DOMAIN queue : queue[i] \in BOOLEAN
    BY DEF ServerInit
  <1> QED
    BY <1>1, <1>3, <1>4
    DEF ServerTypeInv, ServerTypeOK, ServerInit, TypeInv, Receivers

(* What a step does to where the goroutines are.                           *)
LEMMA PlacesType ==
    ASSUME TypeInv, ServerTypeOK, [ServerNext]_allVars
    PROVE  /\ server' \in {"serving", "icmp", "link", "routes", "done"}
           /\ left' \in SUBSET Names /\ awaited' \in Monitors \cup {NoMonitor}
           /\ receiver' \in Receivers
           /\ routeSync' \in {"running", "cleaned", "failed"}
           /\ flips' \in 0 .. MaxFlips
           /\ orphans' \in SUBSET Monitors
  <1> USE DEF ServerTypeOK, serverVars, stopVars, kernelVars, runFrame, otherFrame
  <1>0. registry \in [Names -> Monitors \cup {NoMonitor}]
    BY DEF TypeInv, TypeOK
  <1>1. CASE Flip
    <2>1. flips' \in 0 .. MaxFlips
      BY <1>1, MaxFlipsAssumption, MaxEpochAssumption DEF Flip
    <2> QED
      BY <1>1, <2>1 DEF Flip
  <1>2. CASE Dial \/ Bootstrap \/ LookAtContext \/ Deadline \/ Receive
    BY <1>2 DEF Dial, Bootstrap, LookAtContext, Deadline, Receive, Receivers
  <1>3. CASE StopBegins \/ StopAwaits \/ SyncCleans \/ \E e \in Epochs : RegistryRace(e)
    BY <1>3 DEF StopBegins, StopAwaits, SyncCleans, RegistryRace
  <1>4. ASSUME NEW n \in Names, StopVisits(n)
        PROVE  /\ left' \in SUBSET Names /\ awaited' \in Monitors \cup {NoMonitor}
               /\ UNCHANGED <<server, receiver, routeSync, flips, orphans>>
    BY <1>0, <1>4 DEF StopVisits
  <1>5. CASE IcmpStopped \/ LinkStopped \/ RoutesStopped
    BY <1>5 DEF IcmpStopped, LinkStopped, LinkReturns, RoutesStopped
  <1>6. ASSUME NEW e \in Epochs, Started(e)
        PROVE  /\ left' \in SUBSET Names /\ orphans' \in SUBSET Monitors
               /\ UNCHANGED <<server, awaited, receiver, routeSync, flips>>
    <2> DEFINE h == watcher[e].host
    <2>1. h \in Hosts
      BY <1>6 DEF Started, AddMonitor, TypeInv, TypeOK, WatcherInv, Watchers
    <2>2. <<e, h>> \in Monitors /\ HostName[h] \in Names
      BY <2>1 DEF Monitors, Names
    <2> QED
      BY <1>0, <1>6, <2>2 DEF Started
  <1>7. CASE UNCHANGED serverVars
    BY <1>7
  <1> QED
    BY <1>1, <1>2, <1>3, <1>4, <1>5, <1>6, <1>7
    DEF ServerNext, ReceiverRuns, StopRuns, WatcherRuns, allVars

(* The socket's buffer is never overrun.                                   *)
LEMMA QueueBounded ==
    ASSUME FollowInv, Len(queue) <= MaxQueue, [ServerNext]_allVars
    PROVE  Len(queue') <= MaxQueue
  <1> USE DEF FollowInv, QueueInv
  <1>0. MaxQueue \in Nat /\ Len(queue) \in Nat
    BY MaxQueueAssumption
  <1>1. ASSUME NEW up \in BOOLEAN, Tell(up) PROVE Len(queue') <= MaxQueue
    BY <1>0, <1>1 DEF Tell
  <1>2. CASE Flip \/ Bootstrap
    BY <1>1, <1>2 DEF Flip, Bootstrap
  <1>3. CASE Receive
    <2>1. queue # <<>> /\ queue' = Tail(queue)
      BY <1>3 DEF Receive
    <2>2. Len(queue') = Len(queue) - 1
      BY <2>1, EmptySeq
    <2> QED
      BY <1>0, <2>2
  <1> QED
    BY <1>2, <1>3, WhoMovesTheQueue

LEMMA ServerTypeStep ==
    ServerTypeInv /\ FollowInv /\ FollowInv' /\ [ServerNext]_allVars => ServerTypeInv'
  <1> SUFFICES ASSUME ServerTypeInv, FollowInv, FollowInv', [ServerNext]_allVars
               PROVE  ServerTypeInv'
    OBVIOUS
  <1> USE DEF ServerTypeInv
  <1>1. TypeInv'
    BY ServerSteps, TypeStep, TypeStop
  <1>2. Len(queue') <= MaxQueue
    BY QueueBounded DEF ServerTypeOK
  <1>3. \A i \in DOMAIN queue' : queue'[i] \in BOOLEAN
    BY DEF FollowInv, QueueInv
  <1> QED
    BY <1>1, <1>2, <1>3, PlacesType DEF ServerTypeOK, TypeInv, FollowInv, QueueInv

(* Every variable of the server keeps its type, its sockets their bounds,  *)
(* whatever the interface and the signal (server.go, linkstate/link.go).   *)
THEOREM ServerTypeCorrect == ServerSpec => []ServerTypeOK
  <1> DEFINE J == ReceiverInv /\ FollowInv /\ ServerTypeInv
  <1>1. ServerInit => J
    BY ReceiverInit, FollowInit, ServerTypeInit
  <1>2. J /\ [ServerNext]_allVars => J'
    BY ReceiverStep, FollowStep, ServerTypeStep
  <1>3. J => ServerTypeOK
    BY DEF ServerTypeInv
  <1> QED
    BY <1>1, <1>2, <1>3, PTL DEF ServerSpec

-----------------------------------------------------------------------------
(* Stop works only since it began, and from then on no session is clean.   *)
ServingInv ==
    /\ server # "serving" => ~clean
    /\ awaited # NoMonitor => server # "serving"

SessionsInv == ServerInv /\ ServingInv /\ SessionInv

LEMMA StopNotServing == ServingInv /\ StopSteps => ~clean'
  <1> SUFFICES ASSUME ServingInv, StopSteps PROVE ~clean'
    OBVIOUS
  <1>1. CASE StopBegins
    BY <1>1 DEF StopBegins
  <1>2. CASE ~StopBegins
    <2>1. server # "serving" /\ UNCHANGED clean
      BY <1>2 DEF StopSteps, StopVisits, StopAwaits, SyncCleans, RegistryRace,
                  ServingInv
    <2> QED
      BY <2>1 DEF ServingInv
  <1> QED
    BY <1>1, <1>2

LEMMA ServingStep == Inv /\ ServingInv /\ [ServerNext]_allVars => ServingInv'
  <1> SUFFICES ASSUME Inv, ServingInv, [ServerNext]_allVars PROVE ServingInv'
    OBVIOUS
  <1>1. CASE StopSteps
    <2>1. awaited' # NoMonitor => server' # "serving"
      BY <1>1 DEF StopSteps, StopBegins, StopVisits, StopAwaits, SyncCleans,
                  RegistryRace, ServingInv, serverVars, stopVars
    <2> QED
      BY <1>1, <2>1, StopNotServing DEF ServingInv
  <1>2. CASE ~StopSteps
    <2>1. clean' => clean
      BY <1>2, ServerSteps, CleanBefore
    <2>2. /\ UNCHANGED awaited
          /\ server' # "serving" <=> server # "serving"
      BY <1>2 DEF StopSteps, ServerNext, ReceiverRuns, StopRuns, Flip, Dial,
                  Bootstrap, LookAtContext, Deadline, Receive, IcmpStopped,
                  LinkStopped, LinkReturns, RoutesStopped, WatcherRuns, Started,
                  runFrame, stopVars, serverVars, allVars
    <2> QED
      BY <2>1, <2>2 DEF ServingInv
  <1> QED
    BY <1>1, <1>2

LEMMA SessionsStep ==
    ASSUME Distinct, HasTable, SessionsInv, [ServerNext]_allVars
    PROVE  SessionsInv' /\ [clean' => Session!Next]_(Session!vars)
  <1>1. ServerInv' /\ ServingInv'
    BY ServerInvStep, ServingStep DEF SessionsInv, ServerInv
  <1>2. CASE [Next]_vars
    BY <1>1, <1>2, SessionStep DEF SessionsInv, ServerInv
  <1>3. CASE StopSteps
    BY <1>1, <1>3, StopNotServing DEF SessionsInv, SessionInv
  <1> QED
    BY <1>2, <1>3, ServerSteps

(* The server does with the interface what HostSession describes, until    *)
(* the signal, or a link that goes down on a busy watcher: no message of   *)
(* the kernel, and none of the goroutines of the link monitor and of the   *)
(* route sync, disturbs a session (server.go, linkstate/link.go, link.go). *)
THEOREM ServerImplementsSession ==
    ASSUME Distinct, HasTable PROVE ServerSpec => ImplementsSession
  <1>1. ServerInit => SessionsInv /\ Session!Init
    BY ServerInvInit, SessionInit, InitSession
    DEF ServerInit, SessionsInv, ServingInv
  <1>2. SessionsInv /\ [ServerNext]_allVars =>
            SessionsInv' /\ [clean' => Session!Next]_(Session!vars)
    BY SessionsStep
  <1> QED
    BY <1>1, <1>2, PTL DEF ServerSpec, ImplementsSession
=============================================================================
