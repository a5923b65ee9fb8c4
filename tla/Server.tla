------------------------------- MODULE Server -------------------------------
(***************************************************************************)
(* The life of the server around one interface (internal/server/server.go  *)
(* and internal/linkstate/link.go): the kernel's link messages, the link   *)
(* monitor's goroutine that receives them and runs linkUp and linkDown, and*)
(* Server.Stop, which stops the ICMP monitors, then the link monitor, then *)
(* the route sync, while the goroutines of LinkServer go on.               *)
(*                                                                         *)
(* Faults: a full socket loses messages, a dial may fail, the signal comes *)
(* at any time, before the goroutines of Server.run have begun too.  The   *)
(* routes that the route sync restores are RouteSync's: of its cleanup     *)
(* there are only the rules here, which linkUp's goroutines also write.    *)
(***************************************************************************)
EXTENDS LinkServer, Sequences

CONSTANTS
    MaxQueue,   \* messages the link monitor's socket holds
    MaxFlips    \* bound on the changes of the carrier

ASSUME MaxQueueAssumption == MaxQueue \in Nat \ {0}

(* The link comes up once in two changes, so MaxEpoch bounds nothing.      *)
ASSUME MaxFlipsAssumption == MaxFlips \in 0 .. 2 * MaxEpoch

VARIABLES
    server,     \* where Server.Stop is
    left,       \* the names its loop has still to go through
    awaited,    \* the monitor whose Stop it waits for
    receiver,   \* the link monitor's goroutine, when no callback runs
    routeSync,  \* whether the route sync has cleaned up
    carrier,    \* whether the kernel holds the interface to be up
    flips,      \* how often that has changed
    queue,      \* the link messages in the socket: up or not
    lost,       \* history: a message was lost
    orphans     \* history: the monitors started after Server.Stop began, and
                \* those they took the place of

stopVars == <<server, left, awaited>>
kernelVars == <<carrier, flips, queue, lost>>
serverVars == <<stopVars, receiver, routeSync, kernelVars, orphans>>
allVars == <<vars, serverVars>>

Receivers == {"new", "ask", "look", "receive", "ended"}

ServerTypeOK ==
    /\ TypeOK
    /\ server \in {"serving", "icmp", "link", "routes", "done"}
    /\ left \in SUBSET Names
    /\ awaited \in Monitors \cup {NoMonitor}
    /\ receiver \in Receivers
    /\ routeSync \in {"running", "cleaned", "failed"}
    /\ carrier \in BOOLEAN
    /\ flips \in 0 .. MaxFlips
    /\ Len(queue) <= MaxQueue
    /\ \A i \in DOMAIN queue : queue[i] \in BOOLEAN
    /\ lost \in BOOLEAN
    /\ orphans \in SUBSET Monitors

ServerInit ==
    /\ Init
    /\ server = "serving"
    /\ left = {}
    /\ awaited = NoMonitor
    /\ receiver = "new"
    /\ routeSync = "running"
    /\ carrier = FALSE
    /\ flips = 0
    /\ queue = <<>>
    /\ lost = FALSE
    /\ orphans = {}

-----------------------------------------------------------------------------
(* The kernel.                                                             *)
Tell(up) ==
    IF Len(queue) < MaxQueue THEN queue' = Append(queue, up) /\ UNCHANGED lost
                             ELSE lost' = TRUE /\ UNCHANGED queue

Joined == receiver \in {"ask", "look", "receive"}

Flip ==
    /\ flips < MaxFlips
    /\ flips' = flips + 1
    /\ carrier' = ~carrier
    /\ IF Joined THEN Tell(~carrier) ELSE UNCHANGED <<queue, lost>>
    /\ UNCHANGED <<vars, stopVars, receiver, routeSync, orphans>>

-----------------------------------------------------------------------------
(* The link monitor's Run.                                                 *)
Cancelled == server \in {"link", "routes", "done"}

runFrame == <<stopVars, routeSync, carrier, flips, orphans>>

(* The goroutine begins: it joins its WaitGroup, not before it is started, *)
(* and its socket the group of link messages.  A dial that fails ends Run, *)
(* and nothing else.                                                       *)
Dial ==
    /\ receiver = "new"
    /\ receiver' \in {"ask", "ended"}
    /\ UNCHANGED <<vars, runFrame, queue, lost>>

(* The answer to the dump waits behind the messages since the dial.  The   *)
(* error of the Send is not looked at.                                     *)
Bootstrap ==
    /\ receiver = "ask"
    /\ receiver' = "look"
    /\ \/ Tell(carrier)
       \/ lost' = TRUE /\ UNCHANGED queue
    /\ UNCHANGED <<vars, runFrame>>

(* The context is looked at when the callbacks of the messages received    *)
(* have returned, and no other time.                                       *)
LookAtContext ==
    /\ receiver = "look"
    /\ link \in {"up", "down"}
    /\ receiver' = IF Cancelled THEN "ended" ELSE "receive"
    /\ UNCHANGED <<vars, runFrame, queue, lost>>

(* Mutant: Receive has no deadline.                                        *)
NoDeadline ==
    /\ receiver = "receive"
    /\ queue = <<>>
    /\ UNCHANGED <<vars, runFrame, receiver, queue, lost>>

Deadline ==
    /\ receiver = "receive"
    /\ queue = <<>>
    /\ receiver' = "look"
    /\ UNCHANGED <<vars, runFrame, queue, lost>>

(* Mutant: one message is handled of all that were received.               *)
ReceiveFirstOnly ==
    /\ receiver = "receive"
    /\ queue # <<>>
    /\ queue' = <<>>
    /\ receiver' = "look"
    /\ \/ Head(queue) /\ RecvUp
       \/ ~Head(queue) /\ RecvDown
       \/ Head(queue) = (link = "up") /\ UNCHANGED vars
    /\ UNCHANGED <<runFrame, lost>>

(* Mutant: messages are not debounced.                                     *)
ReceiveUndebounced ==
    /\ receiver = "receive"
    /\ link \in {"up", "down"}
    /\ queue # <<>>
    /\ queue' = Tail(queue)
    /\ receiver' = "look"
    /\ \/ Head(queue) /\ RecvUp
       \/ ~Head(queue) /\ RecvDownAgain
    /\ UNCHANGED <<runFrame, lost>>

(* A message is debounced, or runs a callback.  One Receive returns one or *)
(* more messages, which are handled in a row.                              *)
Receive ==
    /\ receiver = "receive"
    /\ link \in {"up", "down"}
    /\ queue # <<>>
    /\ queue' = Tail(queue)
    /\ receiver' \in {"look"} \cup (IF queue' # <<>> THEN {"receive"} ELSE {})
    /\ \/ Head(queue) /\ RecvUp
       \/ ~Head(queue) /\ RecvDown
       \/ Head(queue) = (link = "up") /\ UNCHANGED vars
    /\ UNCHANGED <<runFrame, lost>>

-----------------------------------------------------------------------------
(* Server.Stop.                                                            *)
stopFrame == <<hopVars, linkVars, watcher, registry, loopVars, late>>
otherFrame == <<receiver, kernelVars, orphans>>

(* A signal.  From here on a session is not what HostSession describes.    *)
StopBegins ==
    /\ server = "serving"
    /\ server' = "icmp"
    /\ left' = {n \in Names : registry[n] # NoMonitor}
    /\ clean' = FALSE
    /\ UNCHANGED <<stopFrame, life, rules, kept, crashed, awaited, routeSync,
                   otherFrame>>

StopVisits(n) ==
    /\ server = "icmp"
    /\ awaited = NoMonitor
    /\ n \in left
    /\ left' = left \ {n}
    /\ awaited' = registry[n]
    /\ Cancel(registry[n])
    /\ UNCHANGED <<stopFrame, rules, kept, clean, crashed, server, routeSync,
                   otherFrame>>

StopAwaits ==
    /\ awaited # NoMonitor
    /\ ~Hop!InCallback(awaited)
    /\ awaited' = NoMonitor
    /\ life' = [life EXCEPT ![awaited] = "stopped"]
    /\ UNCHANGED <<stopFrame, rules, kept, clean, crashed, server, left, routeSync,
                   otherFrame>>

(* A watcher writes the registry that Stop ranges over.                    *)
RegistryRace(e) ==
    /\ server = "icmp"
    /\ watcher[e].pc = "rule"
    /\ crashed' = TRUE
    /\ UNCHANGED <<stopFrame, life, rules, kept, clean, serverVars>>

(* Mutant: the loop ends at the first monitor.                             *)
IcmpStoppedEarly ==
    /\ server = "icmp"
    /\ awaited = NoMonitor
    /\ server' = "link"
    /\ UNCHANGED <<vars, left, awaited, routeSync, otherFrame>>

IcmpStopped ==
    /\ server = "icmp"
    /\ left = {} /\ awaited = NoMonitor
    /\ server' = "link"
    /\ UNCHANGED <<vars, left, awaited, routeSync, otherFrame>>

LinkReturns ==
    /\ server' = IF HasTable THEN "routes" ELSE "done"
    /\ UNCHANGED <<vars, left, awaited, routeSync, otherFrame>>

(* Mutant: the link monitor's Stop does not wait.                          *)
LinkNotAwaited ==
    /\ server = "link"
    /\ LinkReturns

(* The WaitGroup is at zero before Run has joined it, too.                 *)
LinkStopped ==
    /\ server = "link"
    /\ receiver \in {"new", "ended"}
    /\ LinkReturns

-----------------------------------------------------------------------------
(* The route sync's goroutine, and its Stop.                               *)
(* cleanup deletes the rules of the table, as far as it can, unless its    *)
(* dial fails, or Stop comes before the goroutine has begun.               *)
SyncCleans ==
    /\ server = "routes"
    /\ routeSync = "running"
    /\ \/ routeSync' = "cleaned" /\ rules' \in SUBSET rules /\ kept' = rules'
       \/ routeSync' = "failed" /\ UNCHANGED <<rules, kept>>
    /\ UNCHANGED <<stopFrame, life, clean, crashed, stopVars, otherFrame>>

RoutesStopped ==
    /\ server = "routes"
    /\ routeSync # "running"
    /\ server' = "done"
    /\ UNCHANGED <<vars, left, awaited, routeSync, otherFrame>>

-----------------------------------------------------------------------------
(* What the server does not stop.                                          *)
Started(e) ==
    LET m == <<e, watcher[e].host>>
        n == HostName[watcher[e].host]
    IN  /\ AddMonitor(e)
        /\ orphans' = IF server = "serving" THEN orphans
                      ELSE orphans \cup ({m, registry[n]} \ {NoMonitor})
        /\ \/ UNCHANGED left
           \/ /\ server = "icmp"
              /\ registry[n] = NoMonitor
              /\ left' = left \cup {n}
        /\ UNCHANGED <<server, awaited, receiver, routeSync, kernelVars>>

WatcherRuns(e) ==
    \/ Started(e)
    \/ (AddRule(e) \/ FailStarted(e)) /\ UNCHANGED serverVars

StopRuns ==
    \/ \E n \in Names : StopVisits(n)
    \/ StopAwaits
    \/ IcmpStopped
    \/ LinkStopped
    \/ RoutesStopped

ReceiverRuns ==
    \/ Dial
    \/ Bootstrap
    \/ LookAtContext
    \/ Deadline
    \/ Receive
    \/ LinkRuns /\ UNCHANGED serverVars

Unserved ==
    \/ DialFails
    \/ \E e \in Epochs, f \in Families : FindAddress(e, f)
    \/ \E e \in Epochs : WatcherEnds(e)
    \/ \E m \in Monitors : Up(m) \/ Down(m) \/ Clamp(m) \/ Act(m)

ProcessRuns == ~crashed /\ server # "done"

ServerNext ==
    /\ ProcessRuns
    /\ \/ Flip
       \/ ReceiverRuns
       \/ StopBegins
       \/ StopRuns
       \/ SyncCleans
       \/ \E e \in Epochs : WatcherRuns(e) \/ RegistryRace(e)
       \/ Unserved /\ UNCHANGED serverVars

ServerSpec == ServerInit /\ [][ServerNext]_allVars

(* Goroutines that can take a step take it; scripts end.  Nothing is       *)
(* assumed of addresses, hosts, links or the signal.                       *)
ServerFairSpec ==
    /\ ServerSpec
    /\ WF_allVars(ProcessRuns /\ ReceiverRuns)
    /\ WF_allVars(ProcessRuns /\ StopRuns)
    /\ WF_allVars(ProcessRuns /\ SyncCleans)
    /\ \A m \in Monitors :
          WF_allVars(ProcessRuns /\ (Clamp(m) \/ Act(m)) /\ UNCHANGED serverVars)

-----------------------------------------------------------------------------
(* Once the link monitor's Stop has returned (server.go:122-124), neither  *)
(* linkUp nor linkDown runs or starts, also when Stop came before Run had  *)
(* joined its WaitGroup (linkstate/link.go:101), and so nothing starts a   *)
(* session while the route sync restores the routes.                       *)
NoLinkChangeAfterStop ==
    [][(server \in {"routes", "done"}) => UNCHANGED linkVars]_allVars

(* What the link monitor holds the link to be, or will when it has handled *)
(* its messages, is what the kernel holds it to be, whether it changed     *)
(* before the dial, between the dial and the dump, while a callback ran or *)
(* several times in a row, unless a message was lost                       *)
(* (linkstate/link.go:105-133).                                            *)
LinkFollows ==
    receiver \in {"look", "receive"} /\ ~lost =>
        carrier = IF queue = <<>> THEN link = "up" ELSE queue[Len(queue)]

(* When Server.Stop has been through the registry, the monitors that run   *)
(* on are those a watcher started since it began, those DownLeavesNothing  *)
(* excepts, and those either took the place of (server.go:117-121), and    *)
(* when it has returned, a rule that is left could not be deleted or was   *)
(* added by such a watcher (route.go:247-256).                             *)
StopLeavesNothing ==
    /\ server \in {"link", "routes", "done"} =>
          \A m \in Monitors : Alive(m) => m \in late \cup orphans
    /\ server = "done" /\ routeSync = "cleaned" =>
          \A h \in rules \ kept : \E e \in Epochs :
              watcher[e].host = h \/ <<e, h>> \in orphans

Disagrees == carrier # (link = "up") /\ ~lost /\ receiver # "ended"

(* The server carries out what it is told last: while it serves, it comes  *)
(* to agree with the kernel about the link, whatever callback the link     *)
(* monitor is in when that changes, and unless a message was lost or the   *)
(* dial failed; and Server.Stop returns, though the link may change,       *)
(* linkDown stop the same monitors and watchers start new ones meanwhile.  *)
ServerSettles ==
    server = "icmp" \/ (server = "serving" /\ Disagrees)
        ~> server = "done" \/ crashed \/ (server = "serving" /\ ~Disagrees)
=============================================================================
