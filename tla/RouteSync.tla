----------------------------- MODULE RouteSync -----------------------------
(***************************************************************************)
(* The routes of one interface (internal/routesync/route.go and the route  *)
(* changes of internal/server/nexthop.go): those of the main table, and    *)
(* the copies in the table of the interface, which the route sync's        *)
(* goroutine keeps by the kernel's messages.  Goroutines of the server     *)
(* change the metric of the gateway routes of a family at the same time,   *)
(* and set the metric that the route sync gives to routes to come.         *)
(*                                                                         *)
(* A route of a table is a pair: the route and its metric.  The kernel is  *)
(* external: it refuses to add a pair that exists, may refuse any other    *)
(* (its next hop is out of reach when the interface is down), refuses to   *)
(* delete a pair that is not there, and tells the route sync of every      *)
(* change, but the route sync ignores those the program made itself.  The  *)
(* process may die at any step and be started again: it keeps nothing, and *)
(* the tables stay.                                                        *)
(***************************************************************************)
EXTENDS Naturals, Sequences, FiniteSets

CONSTANTS
    Routes,         \* the routes the operator may install
    GatewayRoutes,  \* those that have a gateway
    FamilyOf,       \* the address family of each
    Original,       \* the metric they are installed with
    Changers,       \* goroutines of the server that change gateway routes
    MaxQueue,       \* messages the socket's buffer holds
    MaxExternal,    \* bound on the operator's changes
    MaxChanges,     \* bound on the changes of a family's metric
    MaxCrashes,     \* bound on the crashes of the process
    MaxEvents       \* bound on all three together, a crash counting as two

Families == {"v4", "v6"}

(* The metric of the interface, the failure metric (maxMetric more), and   *)
(* any other.                                                              *)
Metrics == {"good", "fail", "other"}

ASSUME GatewayRoutesAssumption == GatewayRoutes \subseteq Routes
ASSUME RouteFamilyAssumption == FamilyOf \in [Routes -> Families]
ASSUME OriginalAssumption == Original \in Metrics
ASSUME ChangersAssumption == IsFiniteSet(Changers)
ASSUME MaxQueueAssumption == MaxQueue \in Nat \ {0}
ASSUME MaxExternalAssumption == MaxExternal \in Nat
ASSUME MaxChangesAssumption == MaxChanges \in Nat
ASSUME MaxCrashesAssumption == MaxCrashes \in Nat
ASSUME MaxEventsAssumption == MaxEvents \in Nat

Entries == Routes \X Metrics
NoEntry == <<"none", "none">>

(* What the kernel tells: routes that are new, or one that was deleted.    *)
Messages == [kind : {"new", "del"}, entries : SUBSET Entries]

VARIABLES
    main,       \* the main table
    own,        \* the table of the interface
    installed,  \* the routes the operator wants
    external,   \* how often the operator changed that
    metric,     \* s.metric, shared without a lock
    queue,      \* the messages of the socket
    sync,       \* the route sync's goroutine
    change,     \* the goroutines of the server
    begun,      \* how many changes began
    stopping,   \* the route sync's context is cancelled
    crashes,    \* how often the process has died
    last,       \* history: what a family was last changed to
    spoilt,     \* history: families of which a change was not alone or ended
                \* in an error, that the metric was not meant for, or of
                \* which the main table had a route nobody wants
    outside,    \* history: a change began before the routes were asked for,
                \* or ran while the program stopped; or a crash came when the
                \* metric of a route was in neither table
    lost,       \* history: a message was lost since the process started
    gone,       \* history: wanted routes the main table did not have when
                \* the process died
    refused     \* history: routes of which the kernel refused a copy, or to
                \* restore one

tables == <<main, own>>
operator == <<installed, external>>
history == <<last, spoilt, outside, lost, gone, refused>>
vars == <<tables, operator, metric, queue, sync, change, begun, stopping,
          crashes, history>>

(* "boot": waits for the interface.  "loop": looks at the context next.    *)
(* "receive": in Receive.  "batch": has messages to handle.  "add",        *)
(* "delete", "copy": routeUpAction.  "uncopy": routeDownAction.  "clean",  *)
(* "restore", "remove": cleanup.  "ended": Run returned, since its dial or *)
(* cleanup's failed.  "dead": there is no process.                         *)
SyncSteps == {"dead", "boot", "loop", "receive", "batch", "add", "delete", "copy",
              "uncopy", "clean", "restore", "remove", "stopped", "ended"}

HasEntry == {"add", "delete", "copy", "uncopy", "restore", "remove"}

ChangeSteps == {"idle", "list", "add", "delete"}

TypeOK ==
    /\ main \in SUBSET Entries
    /\ own \in SUBSET Entries
    /\ installed \in SUBSET Routes
    /\ external \in 0 .. MaxExternal
    /\ metric \in {"good", "fail"}
    /\ queue \in Seq(Messages)
    /\ Len(queue) <= MaxQueue + 1
    /\ sync \in [pc : SyncSteps, kind : {"new", "del"}, todo : SUBSET Entries,
                 entry : Entries \cup {NoEntry},
                 target : Metrics]
    /\ sync.pc \in HasEntry => sync.entry \in Entries
    /\ change \in [Changers ->
          [pc : ChangeSteps, fam : Families, dir : {"good", "fail"},
           again : BOOLEAN, todo : SUBSET Entries,
           entry : Entries \cup {NoEntry}]]
    /\ begun \in 0 .. MaxChanges
    /\ stopping \in BOOLEAN
    /\ crashes \in 0 .. MaxCrashes
    /\ last \in [Families -> {"good", "fail"}]
    /\ spoilt \in SUBSET Families
    /\ outside \in BOOLEAN
    /\ lost \in BOOLEAN
    /\ gone \in SUBSET Routes
    /\ refused \in SUBSET Routes

IdleSync == [pc |-> "loop", kind |-> "new", todo |-> {}, entry |-> NoEntry,
             target |-> "fail"]

IdleChange == [pc |-> "idle", fam |-> "v4", dir |-> "fail", again |-> FALSE,
               todo |-> {}, entry |-> NoEntry]

(* Run dials: the socket is open and hears of every change from now on, or *)
(* there is no route sync, and the server goes on without it.              *)
Dialled == {[IdleSync EXCEPT !.pc = p] : p \in {"boot", "ended"}}

Listens == sync.pc \notin {"dead", "ended"}

(* The operator may have installed routes before.  addRouteSync starts     *)
(* with the failure metric.                                                *)
Init ==
    /\ installed \in SUBSET Routes
    /\ main = installed \X {Original}
    /\ own = {}
    /\ external = 0
    /\ metric = "fail"
    /\ queue = <<>>
    /\ sync \in Dialled
    /\ change = [c \in Changers |-> IdleChange]
    /\ begun = 0
    /\ stopping = FALSE
    /\ crashes = 0
    /\ last = [f \in Families |-> "fail"]
    /\ spoilt = {}
    /\ outside = FALSE
    /\ lost = FALSE
    /\ gone = {}
    /\ refused = {}

-----------------------------------------------------------------------------
IsGateway(e) == e[1] \in GatewayRoutes
EntriesOf(f) == {e \in Entries : IsGateway(e) /\ FamilyOf[e[1]] = f}

Changing(f) == \E c \in Changers : change[c].pc # "idle" /\ change[c].fam = f

(* Messages about gateway routes of f that were not handled in full.       *)
Announced(f) ==
    \/ \E i \in DOMAIN queue : queue[i].entries \cap EntriesOf(f) # {}
    \/ /\ sync.pc \in {"batch", "add", "delete", "copy", "uncopy"}
       /\ (sync.todo \cup {sync.entry}) \cap EntriesOf(f) # {}

Exhausted == external + begun + 2 * crashes >= MaxEvents

Spoil(f, P) == spoilt' = IF P THEN spoilt \cup {f} ELSE spoilt

-----------------------------------------------------------------------------
(* The operator, or a DHCP client, and the kernel's message, which is lost *)
(* when the socket's buffer is full.                                       *)
Tell(kind, e) ==
    \/ /\ Listens
       /\ Len(queue) < MaxQueue
       /\ queue' = Append(queue, [kind |-> kind, entries |-> {e}])
       /\ UNCHANGED lost
    \/ /\ Listens
       /\ Len(queue) >= MaxQueue
       /\ lost' = TRUE
       /\ UNCHANGED queue
    \/ /\ ~Listens
       /\ UNCHANGED <<queue, lost>>

OperatorActs(r) ==
    /\ sync.pc # "stopped"
    /\ external < MaxExternal
    /\ ~Exhausted
    /\ external' = external + 1
    /\ LET f == FamilyOf[r]
           ghost == r \notin installed' /\ \E m \in Metrics : <<r, m>> \in main'
       IN  Spoil(f, r \in GatewayRoutes /\ (Changing(f) \/ ghost))
    /\ UNCHANGED <<own, metric, sync, change, begun, stopping, crashes, last,
                   outside, gone, refused>>

Install(r) ==
    LET e == <<r, Original>>
    IN  /\ r \notin installed
        /\ e \notin main
        /\ installed' = installed \cup {r}
        /\ main' = main \cup {e}
        /\ Tell("new", e)
        /\ OperatorActs(r)

(* The operator names no metric, or the one the route has by now.          *)
Uninstall(r) ==
    /\ r \in installed
    /\ \E m \in Metrics :
        /\ <<r, m>> \in main
        /\ main' = main \ {<<r, m>>}
        /\ Tell("del", <<r, m>>)
    /\ installed' = installed \ {r}
    /\ OperatorActs(r)

-----------------------------------------------------------------------------
(* Run.                                                                    *)
syncFrame == <<operator, change, begun, stopping, crashes, last, outside,
               gone>>

(* The interface is there: ask for every route it has.  The answer comes   *)
(* as one batch, behind the messages that wait already, or never: the      *)
(* error of Send is not looked at.                                         *)
Bootstrap ==
    /\ sync.pc = "boot"
    /\ ~stopping
    /\ sync' = IdleSync
    /\ \/ /\ queue' = Append(queue, [kind |-> "new", entries |-> main])
          /\ UNCHANGED lost
       \/ /\ lost' = TRUE
          /\ UNCHANGED queue
    /\ UNCHANGED <<tables, metric, syncFrame, spoilt, refused>>

(* The context is looked at between two calls of Receive; when it is       *)
(* cancelled, cleanup lists the routes of the table.                       *)
LookAtContext ==
    /\ sync.pc \in {"boot", "loop"}
    /\ sync.pc = "boot" => stopping
    /\ sync' = IF stopping THEN [IdleSync EXCEPT !.pc = "clean", !.todo = own]
                           ELSE [IdleSync EXCEPT !.pc = "receive"]
    /\ UNCHANGED <<tables, metric, queue, syncFrame, spoilt, lost, refused>>

(* cleanup's own dial fails, or it is told of no route, for its listing    *)
(* failed: everything stays as it is.                                      *)
CleanFails ==
    /\ sync.pc \in {"boot", "loop"}
    /\ stopping
    /\ sync' = [IdleSync EXCEPT !.pc = "ended"]
    /\ UNCHANGED <<tables, metric, queue, syncFrame, spoilt, lost, refused>>

Deadline ==
    /\ sync.pc = "receive"
    /\ queue = <<>>
    /\ sync' = IdleSync
    /\ UNCHANGED <<tables, metric, queue, syncFrame, spoilt, lost, refused>>

Receive ==
    /\ sync.pc = "receive"
    /\ queue # <<>>
    /\ sync' = [sync EXCEPT !.pc = "batch", !.kind = Head(queue).kind,
                            !.todo = Head(queue).entries]
    /\ queue' = Tail(queue)
    /\ UNCHANGED <<tables, metric, syncFrame, spoilt, lost, refused>>

(* The next message of the batch.  The metric is read here and used later. *)
Handle(e) ==
    LET f == FamilyOf[e[1]]
        up == sync.kind = "new" /\ IsGateway(e)
    IN  /\ sync.pc = "batch"
        /\ e \in sync.todo
        /\ sync' = [sync EXCEPT !.todo = @ \ {e}, !.entry = e,
               !.target = metric,
               !.pc = IF up THEN "add"
                            ELSE IF sync.kind = "new" THEN "copy" ELSE "uncopy"]
        /\ Spoil(f, up /\ (Changing(f) \/ metric # last[f]))
        /\ UNCHANGED <<tables, metric, queue, syncFrame, lost, refused>>

BatchDone ==
    /\ sync.pc = "batch"
    /\ sync.todo = {}
    /\ sync' = IdleSync
    /\ UNCHANGED <<tables, metric, queue, syncFrame, spoilt, lost, refused>>

(* Mutant: routeUpAction returns the error of ChangeMetric.                *)
SyncAddReturns ==
    LET e == sync.entry
        new == <<e[1], sync.target>>
        ghost == e[1] \notin installed
    IN  /\ sync.pc = "add"
        /\ \/ /\ new \notin main
              /\ main' = main \cup {new}
              /\ sync' = [sync EXCEPT !.pc = "delete"]
              /\ Spoil(FamilyOf[e[1]], ghost)
           \/ /\ sync' = [sync EXCEPT !.pc = "batch"]
              /\ Spoil(FamilyOf[e[1]], new # e \/ ghost)
              /\ UNCHANGED main
        /\ UNCHANGED <<own, metric, queue, syncFrame, lost, refused>>

(* ChangeMetric of routeUpAction adds first; an error is only logged.      *)
SyncAdd ==
    LET e == sync.entry
        new == <<e[1], sync.target>>
        ghost == e[1] \notin installed
    IN  /\ sync.pc = "add"
        /\ \/ /\ new \notin main
              /\ main' = main \cup {new}
              /\ sync' = [sync EXCEPT !.pc = "delete"]
              /\ Spoil(FamilyOf[e[1]], ghost)
           \/ /\ sync' = [sync EXCEPT !.pc = "copy"]
              /\ Spoil(FamilyOf[e[1]], new # e \/ ghost)
              /\ UNCHANGED main
        /\ UNCHANGED <<own, metric, queue, syncFrame, lost, refused>>

(* Mutant: ChangeMetric leaves no message to copy.                         *)
SyncDeleteConsumes ==
    /\ sync.pc = "delete"
    /\ main' = main \ {sync.entry}
    /\ sync' = [sync EXCEPT !.pc = "copy", !.entry = NoEntry]
    /\ UNCHANGED <<own, metric, queue, syncFrame, spoilt, lost, refused>>

SyncDelete ==
    /\ sync.pc = "delete"
    /\ main' = main \ {sync.entry}
    /\ sync' = [sync EXCEPT !.pc = "copy"]
    /\ UNCHANGED <<own, metric, queue, syncFrame, spoilt, lost, refused>>

(* The copy has the metric of the message; an error is only logged.        *)
SyncCopy ==
    /\ sync.pc = "copy"
    /\ \/ /\ own' = own \cup {sync.entry}
          /\ UNCHANGED refused
       \/ /\ sync.entry \notin own
          /\ refused' = refused \cup {sync.entry[1]}
          /\ UNCHANGED own
    /\ sync' = [IdleSync EXCEPT !.pc = "batch", !.kind = sync.kind,
                                !.todo = sync.todo]
    /\ UNCHANGED <<main, metric, queue, syncFrame, spoilt, lost>>

(* So has the route that routeDownAction deletes.                          *)
SyncUncopy ==
    /\ sync.pc = "uncopy"
    /\ own' = own \ {sync.entry}
    /\ sync' = [IdleSync EXCEPT !.pc = "batch", !.kind = sync.kind,
                                !.todo = sync.todo]
    /\ UNCHANGED <<main, metric, queue, syncFrame, spoilt, lost, refused>>

-----------------------------------------------------------------------------
(* cleanup: each route is deleted from the table; a gateway route is added *)
(* to the main table as it was, and its pair with the current metric is    *)
(* deleted from there.                                                     *)
CleanNext(e) ==
    /\ sync.pc = "clean"
    /\ e \in sync.todo
    /\ own' = own \ {e}
    /\ sync' = [sync EXCEPT !.todo = @ \ {e}, !.entry = e,
                            !.pc = IF IsGateway(e) THEN "restore" ELSE "clean"]
    /\ UNCHANGED <<main, metric, queue, syncFrame, spoilt, lost, refused>>

(* Mutant: the current metric is set before the route is restored.         *)
RestoreCurrent ==
    /\ sync.pc = "restore"
    /\ main' = main \cup {<<sync.entry[1], metric>>}
    /\ sync' = [sync EXCEPT !.pc = "remove"]
    /\ UNCHANGED <<own, metric, queue, syncFrame, spoilt, lost, refused>>

(* An error is only logged, and the other pair is deleted all the same.    *)
Restore ==
    /\ sync.pc = "restore"
    /\ \/ /\ main' = main \cup {sync.entry}
          /\ UNCHANGED refused
       \/ /\ sync.entry \notin main
          /\ refused' = refused \cup {sync.entry[1]}
          /\ UNCHANGED main
    /\ sync' = [sync EXCEPT !.pc = "remove"]
    /\ UNCHANGED <<own, metric, queue, syncFrame, spoilt, lost>>

Remove ==
    /\ sync.pc = "remove"
    /\ main' = main \ {<<sync.entry[1], metric>>}
    /\ sync' = [sync EXCEPT !.pc = "clean"]
    /\ UNCHANGED <<own, metric, queue, syncFrame, spoilt, lost, refused>>

CleanDone ==
    /\ sync.pc = "clean"
    /\ sync.todo = {}
    /\ sync' = [IdleSync EXCEPT !.pc = "stopped"]
    /\ UNCHANGED <<tables, metric, queue, syncFrame, spoilt, lost, refused>>

-----------------------------------------------------------------------------
(* A goroutine of the server: addGatewaysFor to "good", failGatewaysFor to *)
(* "fail".  A family that is changed to what it was last changed to ends   *)
(* in an error too, and is not spoilt by it.  The goroutines of linkUp and *)
(* of the monitors run beside the route sync from the start, and may be    *)
(* ahead of it or outlive it.                                              *)
beginFrame == <<own, operator, queue, sync, stopping, crashes, lost, gone,
                refused>>
changeFrame == <<beginFrame, begun, outside>>

Begin(c, f, d) ==
    LET again == last[f] = d
    IN  /\ change[c].pc = "idle"
        /\ sync.pc # "dead"
        /\ begun < MaxChanges
        /\ ~Exhausted
        /\ begun' = begun + 1
        /\ metric' = d
        /\ last' = [last EXCEPT ![f] = d]
        /\ change' = [change EXCEPT ![c] =
               [IdleChange EXCEPT !.pc = "list", !.fam = f, !.dir = d,
                                  !.again = again]]
        /\ outside' = (outside \/ sync.pc = "boot" \/ stopping)
        /\ Spoil(f, Changing(f) \/ Announced(f) \/ outside')
        /\ UNCHANGED <<main, beginFrame>>

(* addGatewaysFor goes through the copies, and takes each to be in the     *)
(* main table with the failure metric; failGatewaysFor through the main    *)
(* table itself.  With no interface or no list of routes the change ends,  *)
(* and the metric stays set.                                               *)
List(c) ==
    LET mine == EntriesOf(change[c].fam)
    IN  /\ change[c].pc = "list"
        /\ \/ /\ change' = [change EXCEPT ![c].pc = "add",
                     ![c].todo = IF change[c].dir = "good" THEN own \cap mine
                                                           ELSE main \cap mine]
              /\ UNCHANGED spoilt
           \/ /\ change' = [change EXCEPT ![c] = IdleChange]
              /\ Spoil(change[c].fam, ~change[c].again)
        /\ UNCHANGED <<main, metric, last, changeFrame>>

Source(c, e) == IF change[c].dir = "good" THEN <<e[1], "fail">> ELSE e

(* Mutant: that a route exists already is no error.                        *)
ChangeAddExisting(c, e) ==
    /\ change[c].pc = "add"
    /\ e \in change[c].todo
    /\ main' = main \cup {<<e[1], change[c].dir>>}
    /\ change' = [change EXCEPT ![c].todo = @ \ {e}, ![c].pc = "delete",
                                ![c].entry = Source(c, e)]
    /\ UNCHANGED <<metric, last, spoilt, changeFrame>>

(* ChangeMetric: "we add first, to prevent moment without route".  The     *)
(* first error ends the change.                                            *)
ChangeAdd(c, e) ==
    LET new == <<e[1], change[c].dir>>
    IN  /\ change[c].pc = "add"
        /\ e \in change[c].todo
        /\ \/ /\ new \notin main
              /\ main' = main \cup {new}
              /\ change' = [change EXCEPT ![c].todo = @ \ {e}, ![c].pc = "delete",
                                          ![c].entry = Source(c, e)]
              /\ Spoil(change[c].fam, e[1] \notin installed)
           \/ /\ change' = [change EXCEPT ![c] = IdleChange]
              /\ Spoil(change[c].fam, ~change[c].again \/ new \notin main)
              /\ UNCHANGED main
        /\ UNCHANGED <<metric, last, changeFrame>>

(* Mutant: the route with the old metric stays.                            *)
ChangeDeleteNot(c) ==
    /\ change[c].pc = "delete"
    /\ change' = [change EXCEPT ![c].pc = "add", ![c].entry = NoEntry]
    /\ UNCHANGED <<main, metric, last, spoilt, changeFrame>>

ChangeDelete(c) ==
    LET e == change[c].entry
    IN  /\ change[c].pc = "delete"
        /\ main' = main \ {e}
        /\ change' = [change EXCEPT ![c] =
               IF e \in main THEN [@ EXCEPT !.pc = "add", !.entry = NoEntry]
                             ELSE IdleChange]
        /\ Spoil(change[c].fam, e \notin main)
        /\ UNCHANGED <<metric, last, changeFrame>>

ChangeDone(c) ==
    /\ change[c].pc = "add"
    /\ change[c].todo = {}
    /\ change' = [change EXCEPT ![c] = IdleChange]
    /\ UNCHANGED <<main, metric, last, spoilt, changeFrame>>

(* Server.Stop waits for the callbacks of the monitors in the registry     *)
(* before it stops the route sync, but not for the goroutines of linkUp,   *)
(* nor for monitors the registry does not have (LinkServer).               *)
Stop ==
    /\ ~stopping
    /\ sync.pc # "dead"
    /\ stopping' = TRUE
    /\ outside' = (outside \/ \E c \in Changers : change[c].pc # "idle")
    /\ UNCHANGED <<tables, operator, metric, queue, sync, change, begun, crashes,
                   last, spoilt, lost, gone, refused>>

-----------------------------------------------------------------------------
PairsOf(r) == {m \in Metrics : <<r, m>> \in main}

(* The process dies, between any two steps of its goroutines.              *)
Crash ==
    /\ sync.pc \notin {"dead", "stopped"}
    /\ crashes < MaxCrashes
    /\ ~Exhausted
    /\ crashes' = crashes + 1
    /\ sync' = [IdleSync EXCEPT !.pc = "dead"]
    /\ change' = [c \in Changers |-> IdleChange]
    /\ queue' = <<>>
    /\ stopping' = FALSE
    /\ lost' = FALSE
    /\ gone' = gone \cup {r \in installed : PairsOf(r) = {}}
    /\ outside' = (outside \/ \E r \in installed \cap GatewayRoutes :
                      <<r, Original>> \notin main \cup own)
    /\ UNCHANGED <<tables, operator, metric, begun, last, spoilt, refused>>

(* The next process takes the tables as it finds them.                     *)
Restart ==
    /\ sync.pc = "dead"
    /\ sync' \in Dialled
    /\ metric' = "fail"
    /\ last' = [f \in Families |-> "fail"]
    /\ spoilt' = {FamilyOf[r] : r \in {q \in GatewayRoutes :
                     Cardinality(PairsOf(q)) # IF q \in installed THEN 1 ELSE 0}}
    /\ UNCHANGED <<tables, operator, queue, change, begun, stopping, crashes,
                   outside, lost, gone, refused>>

-----------------------------------------------------------------------------
Operator == \E r \in Routes : Install(r) \/ Uninstall(r)

SyncRuns ==
    \/ LookAtContext
    \/ CleanFails
    \/ Deadline
    \/ Receive
    \/ \E e \in Entries : Handle(e) \/ CleanNext(e)
    \/ BatchDone
    \/ SyncAdd
    \/ SyncDelete
    \/ SyncCopy
    \/ SyncUncopy
    \/ Restore
    \/ Remove
    \/ CleanDone

ChangeRuns(c) ==
    \/ List(c)
    \/ \E e \in Entries : ChangeAdd(c, e)
    \/ ChangeDelete(c)
    \/ ChangeDone(c)

Next ==
    \/ Operator
    \/ Bootstrap
    \/ SyncRuns
    \/ \E c \in Changers : ChangeRuns(c)
    \/ \E c \in Changers, f \in Families, d \in {"good", "fail"} : Begin(c, f, d)
    \/ Stop
    \/ Crash
    \/ Restart

Spec == Init /\ [][Next]_vars

-----------------------------------------------------------------------------
Settled ==
    /\ queue = <<>>
    /\ sync.pc \in {"loop", "receive"}
    /\ \A c \in Changers : change[c].pc = "idle"

(* cleanup is at work, or through.                                         *)
Cleaning == sync.pc \in {"clean", "restore", "remove", "stopped"}

(* "we add first, to prevent moment without route" (route.go:340): a route *)
(* the operator wants is in the main table at any time, with one metric or *)
(* another, whatever the goroutines that change metrics do at once,        *)
(* whatever messages are lost and additions refused, wherever the process  *)
(* dies and whatever the next one finds.  While cleanup runs a route may   *)
(* be missing only if the kernel refused to restore it, its own metric is  *)
(* the one that cleanup deletes, the process is not the first, or a metric *)
(* was changed meanwhile or before the route sync asked for the routes.    *)
NoGap ==
    \A r \in installed \ gone :
        PairsOf(r) = {} =>
            /\ Cleaning
            /\ \/ r \in refused
               \/ metric = Original
               \/ outside
               \/ crashes > 0

(* A message of the route still waits.                                     *)
Unread(r) == \E i \in DOMAIN queue : \E e \in queue[i].entries : e[1] = r

(* "restore the original route back to the main table" (route.go:269):     *)
(* when the route sync has stopped, every route whose messages it had read *)
(* is in the main table as the operator installed it, unless the kernel    *)
(* refused a copy or the restoration, the pair has the metric cleanup      *)
(* deletes, or a metric was changed meanwhile, or before the route sync    *)
(* asked for the routes.  It is so too when another process began and      *)
(* died, as long as a table still had the route as it was installed.       *)
Restored ==
    sync.pc = "stopped" /\ ~lost /\ ~outside /\ metric # Original =>
        \A r \in installed \ refused : <<r, Original>> \in main \/ Unread(r)

(* The same comment without its condition on metrics, for a first process  *)
(* whose changes each ran alone and to their end.                          *)
RestoresOriginal ==
    sync.pc = "stopped" /\ ~lost /\ ~outside /\ crashes = 0 /\ spoilt = {} =>
        \A r \in installed \ refused : <<r, Original>> \in main \/ Unread(r)

(* "synchronise all (useful) routes that use a specific outbound interface *)
(* into a new routing table" (route.go:29-30): no route is missing there   *)
(* once its messages are handled, in whatever order changes of metrics,    *)
(* removals and new routes came, unless the kernel refused the copy.       *)
Covered ==
    Settled /\ ~lost =>
        \A r \in installed \ (gone \cup refused) : \E m \in Metrics : <<r, m>> \in own

(* With no change under way, and none so far that was spoilt, every        *)
(* gateway route of a family has the metric the family was last changed to *)
(* (nexthop.go:77-133), and no second pair, routes announced since         *)
(* included (route.go:302-311).  NextHop!Moved takes it for granted.  A    *)
(* new process heals what was spoilt and lost, but for routes that had two *)
(* pairs by then.                                                          *)
MetricAgrees ==
    Settled /\ ~lost =>
        \A r \in (installed \ (gone \cup refused)) \cap GatewayRoutes :
            FamilyOf[r] \notin spoilt =>
                PairsOf(r) = {last[FamilyOf[r]]}

(* "remove this route from the routing table" (route.go:323): no copy is   *)
(* left of a route the operator has removed.                               *)
NoStaleCopy == Settled /\ ~lost => \A e \in own : e[1] \in installed
=============================================================================
