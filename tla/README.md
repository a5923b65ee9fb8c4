# A verification of hodos

hodos watches the network interfaces of a multi-homed host. It pings hosts
through every interface, counts how many answer, and moves the interface's
gateway routes between a good and a bad metric in the main routing table. This
directory holds TLA+ modules that model it, the TLC configurations that check
them, and theorems about them with proofs for TLAPS. File and line references
are to the repository's `src/`; "link.go" alone is `internal/server/link.go`,
"icmp.go" with lines above 52 is `internal/icmp/icmp.go`.

## The system

| Component | State | Operations | Interacts by |
|---|---|---|---|
| Interface counters, `internal/config/interface.go` | `upHostsv4`, `upHostsv6`, totals, `MinimumUp` | `HostUp`, `HostDown` report the crossing of the minimum; `LinkDown` zeroes both | called from the callbacks of every ICMP monitor and from `linkDown`, with atomic operations and no lock |
| Next hops, `internal/server/nexthop.go` | the kernel's routes; the route sync's `metric` | `nextHopAvailable`, `nextHopFail`: counter, script, routes | runs on the goroutine of the monitor whose callback it is, on the link monitor's, or on a watcher's |
| ICMP callbacks and registry, `internal/server/icmp.go` | `isUp` of each monitor, `s.icmpMonitors[interface][host name]` | `addICMPMonitor` | called by watchers; the registry is read by `linkDown` and `Server.Stop` |
| Link handling, `internal/server/link.go` | the shutdown channel of each epoch, the rules of the table | `linkUp` starts a watcher; `linkDown` stops monitors, removes rules, fails routes | callbacks of the link monitor |
| ICMP monitor, `internal/icmp/icmp.go` | context, ticker, WaitGroup | `Start`, `run` (a burst), `Stop` | calls the callbacks; stopped by `linkDown` and `Server.Stop` |
| Link monitor, `internal/linkstate/link.go` | `isUp`, netlink socket | `Run`, `Stop` | netlink messages in, debounced callbacks out |
| Route synchronisation, `internal/routesync/route.go` | copies of the routes in the interface's table, `metric` | `Run`, `routeUpAction`, `routeDownAction`, `cleanup`, `ChangeMetric` | netlink messages in, routes out; `metric` is set by the server's goroutines |
| Server life cycle, `internal/server/server.go` | the three maps of monitors | `New`, `Start`, `run`, `Stop` | owns all the others |
| Configuration, `internal/config` | none after parsing | `Parse` and its helpers | builds the interfaces, with the totals, minimum, table and metric the others take for granted |
| Command line, capabilities, logging, build, Nix | none | | |

The goroutines of one interface: the link monitor's, one *watcher* for every
time the link came up (an *epoch*), one for every ICMP monitor, one for every
burst, the route sync's, and the server's own, which calls `Stop`.

What is hard here is concurrency without locks. A callback moves a counter and
acts on the edge it saw some time later. A watcher goes on while `linkDown` takes
apart what it builds. The registry is a plain map. `Stop` has to wait for a
callback that was decided on before the context was cancelled. Kernel calls can
fail between two routes. `PROJECT.json` lists each hazard at its line, with the
properties that bear on it.

What makes the components correct:

- counters: each is the number of hosts that are held to be up, edges are
  reported once each, and no session leaves anything behind for the next;
- next hops: the gateway routes end up where the counter says;
- ICMP monitor: no callback after `Stop` has returned, `Stop` returns, no
  goroutine is left;
- link handling: `linkDown` stops all and ends, a watcher ends with its epoch,
  every host gets monitored;
- route synchronisation: no wanted route is ever missing from the main table,
  the interface's table is a copy of its routes there, and after a stop the main
  table is as it was;
- server: the link monitor holds what the kernel holds, `Stop` returns, no link
  change is handled after it, and what it leaves is known;
- configuration: the nearest level decides a setting, totals count addresses, a
  failed route is worse than every good one.

## The modules

`NextHop` is what happens to one interface when a host starts or ceases to
answer: the counters, the callbacks, and the gateway routes of a family. It has
actions and no next-state relation. A callback is three steps, the atomic
operations of the code:

| Code | Action |
|---|---|
| `atomic.AddInt32` and the edge it returns (interface.go:162-196), within the debounce of icmp.go:33-46 | `HostUp`, `HostDown` |
| the `StoreInt32` of a counter out of range, which for IPv4 hits the wrong counter below zero (interface.go:165) | `Clamp` |
| script, metric, routes and the early return of `addGatewaysFor`/`failGatewaysFor` (nexthop.go:39-133), then `isUp` | `GatewayAction` |
| `LinkDown` (interface.go:143-146) | `ZeroCounters` |
| `failGatewaysFor` from `linkUp` and `nextHopFailLink` | `FailGateways` |

`isUp` is set after the callback's work, as in the code. The gateway routes of a
family are `up`, `down`, or `mixed` after an error between two of them. The
history variable `spoilt` records what last kept a family from being changed by
one change at a time: an error, a change that overlapped another one's, or
`linkUp`'s failing of the routes after the first edge. Properties that only hold
without such an event say so by it.

`HostSession` extends it to the sessions of one interface: an idealised server
whose `linkDown` finds every monitor of the session. It is the abstract
specification of the server's link handling and carries the properties about
counters and routes. `HostSessionProofs` proves them.

`IcmpMonitor` is one ICMP monitor with the goroutine of `Start`, the goroutine
of every burst and those that call `Stop`. `MonitorContract` is what its users
rely on: at most the callback already decided on still runs after a cancel, and
`Stop` returns after it. `IcmpMonitorProofs` proves that `IcmpMonitor`
implements it. `HostSession` and `LinkServer` take `Stop` as one step with that
wait as its guard. Bursts that fail leave a goroutine behind, counted by
`leaked` up to `MaxLeaked`.

`LinkServer` is the code's own server for one interface: `RecvUp` and `RecvDown`
(debounced link messages), the watchers, the registry keyed by host name, the
rules, the shutdown channels, and the monitors of every epoch. It uses `NextHop`
by `INSTANCE` for the callbacks, with one monitor for each epoch and host.
`linkDown` is a series of steps: `VisitMonitor` and `StopMonitor` for each name
(a map iteration may or may not see a name added under it), `AllStopped`,
`DeleteRules` (each rule is deleted or not, link.go:43-48) or `DialFails`
(link.go:33-42: the error is logged and the nil connection used), `ZeroHosts` and
`FailLink` for either family, and `CloseShutdown`, since the callback closes the
channel only after `linkDown` returned (link.go:166-169). A concurrent write of the map during the iteration
may crash the process, as do the failed dial and the missing route sync of an
interface without a table; all set `crashed`, after which nothing moves.

A monitor's `life` is `running`, then `last` (cancelled, with a callback decided
on before) or `cancelled` (the one it is in is the last), then `stopped`. The
history variable `kept` holds the rules that could not be deleted, until the link
comes up again; `late` holds the monitors started when their link was not up, and
those they took the place of in the registry. `ImplementsSession` is the
refinement: as long as no watcher is busy while its link goes down (history
variable `clean`), every step is one of `HostSession` or a stutter. From the
first step that breaks this, it asks nothing more; `DownLeavesNothing` holds in
either case.

`Server` extends `LinkServer` with what drives it: the carrier of the interface
as the kernel has it, the socket with its buffer, the link monitor's goroutine,
and `Server.Stop`.

| Code | Action |
|---|---|
| the goroutine begins, dials (linkstate/link.go:100-109) | `Dial`, which may fail |
| the dump of the links (linkstate/link.go:113-115) | `Bootstrap`: the answer comes behind the messages since the dial, or not at all |
| the context between two calls of `nl.Receive`, the read deadline (linkstate/link.go:118-131) | `LookAtContext`, `Deadline` |
| a message, debounced (linkstate/link.go:135-162) | `Receive`, which runs `RecvUp` or `RecvDown` of `LinkServer`, or nothing, and then goes on with the next message of the same `Receive` or back to the context |
| the signal (server.go:87-103), ICMP monitors one by one (server.go:117-121) | `StopBegins`, `StopVisits`, `StopAwaits`, `IcmpStopped` |
| the link monitor's Stop (server.go:122-124) | `LinkStopped`, also when Run has not joined its WaitGroup |
| the route sync's Stop and the rules its cleanup deletes (route.go:247-256) | `SyncCleans`, `RoutesStopped` |

The goroutines of `LinkServer` go on beside it: `Started` is a watcher's
`AddMonitor`, which the loop of `Stop` may or may not see, and which the runtime
may punish (`RegistryRace`). The history variable `orphans` holds the monitors
started since `Stop` began and those they replaced. A message that finds the
socket full sets `lost`.

`RouteSync` is the routes of one interface. A route of a table is a pair of the
route and a metric: `good` (the interface's), `fail` (`maxMetric` more) or
`other` (the operator's). The main table and the interface's are sets of pairs,
with the kernel's rules: adding a pair that exists and deleting one that does
not are errors. Any other addition may be refused too (the next hop is out of
reach while the interface is down), and a listing may fail; a pair that is there
can be deleted. The operator installs and removes routes in the main table; each
change is a message in the route sync's `queue`, unless the buffer is full. The
program's own changes have its PID and are ignored, so they are no messages.

| Code | Action |
|---|---|
| dial; a failed dial ends `Run`, and the server discards the error (route.go:129-133) | `Dialled`, in `Init` and `Restart` |
| wait for the interface, ask for its routes (route.go:135-160) | `Bootstrap`, which puts one batch with all of the main table at the end of the queue, or none when the request fails (its error is not looked at) |
| look at the context, `Receive` with its deadline (route.go:163-181) | `LookAtContext`, `Receive`, `Deadline` |
| a message: read the metric, then add, delete, copy (route.go:291-317) | `Handle`, `SyncAdd`, `SyncDelete`, `SyncCopy` |
| a deleted route (route.go:324-335) | `SyncUncopy` |
| `cleanup`, route by route (route.go:257-281) | `CleanNext`, `Restore`, `Remove`, `CleanDone` |
| the dial of `cleanup` fails, or it is listed no route: nothing is restored (route.go:240-258) | `CleanFails` |
| `addGatewaysFor`, `failGatewaysFor` (nexthop.go:77-133): set the metric, list, add, delete | `Begin`, `List`, `ChangeAdd`, `ChangeDelete`, `ChangeDone` |

`Changers` are the goroutines that run these last two functions at the same
time: callbacks, the link monitor's, and those of `linkUp`. Those of `linkUp`, and
the callbacks of monitors that the registry does not have (`shared_name`,
`stale_monitor`), go on while `Server.Stop` runs, so any may run beside `cleanup`.
A `Begin` is free to happen whenever the server may decide on one: how it decides
is the subject of the other modules. A change ends at its first error, one of
listing the interface or the routes included, with the metric already set
(nexthop.go:78-86, 111-119).

The history variables say what a property has to except: `spoilt` (families of
which a change overlapped another one, met an error or a message not handled yet,
or the metric was set last for the other family), `outside` (a change before the
routes were asked for, or during a stop), `lost` (a message was lost) and
`refused` (routes of which the kernel refused a copy, or to restore one). The
operator may install routes with any metric, the interface's own included
(`Original`). The kernel takes a metric literally; a route without one has 0
there, which the IPv4 kernel takes as "any" when it deletes. Messages about the
route types that the code filters out change nothing (no copy is made, so there is
none to delete), and `Routes` are those of the other types; the rules that
`cleanup` deletes are in `Server`, because linkUp's goroutines add them. Left out: an interface that is removed and
made again. Its index changes, the code goes on with the old one (route.go:145)
and skips every later message (route.go:193), and the kernel drops its routes.

The process may die between any two steps (`Crash`) and be started again
(`Restart`): it keeps nothing, the tables stay, and the next one takes the
failure metric it finds for a route's own. `gone` holds the routes the main table
lacked when it died; the process is not to blame for them afterwards, and no
property asks for them back.

`ConfigParse` reads a configuration file top down: the file's settings, an
interface, its hosts, the next interface. What the file says is chosen as it is
read. A setting's value stands for the level it was given at, so that `NearestWins`
can tell where it came from; tables, metrics and `minimum_up` are numbers at and
past their bounds; addresses are what `net.ParseIP` makes of them. Refusing is a
step, because a file is read no further. It is a module by itself: what it
establishes is what others assume (`HostSession!TotalCountsHosts`, `MinimumUp`
above zero, the order of the metrics of `RouteSync`).

Left out everywhere: logging, the environment of scripts, the length of periods
and timeouts, netlink encoding.

## Runs

| Run | Question | Instance and bounds |
|---|---|---|
| `host_session` | do counters, edges and routes agree through every interleaving of callbacks and any number of sessions | two hosts of each family, `MinimumUp` 2, failing kernel calls; no bound on time. Two hosts of a family are what it takes for one edge to overtake another; two families for the clamp's crossing |
| `icmp_monitor` | stop against ticks, bursts, callbacks and failures | two callers of `Stop` (a waiter can be released while another comes), two leaked goroutines |
| `link_server` | the server's goroutines implement the session; hosts get monitored; `linkDown` and watchers end | one host of each family, one epoch |
| `server_stop` | one epoch against the next, and against the signal; the link monitor against the kernel | one host, two epochs, three flips of the carrier (up, down, up: two sessions, and with the signal in either), two messages in the buffer, so that a third is lost while a callback runs |
| `config_parse` | is what Parse gives what the others take for granted | two settings and an action, two interfaces, two hosts each, three addresses (the same twice, two families), tables and metrics at their bounds and one past them |
| `route_sync` | do the route sync, two goroutines that change metrics and the operator keep the tables right, also when the process dies | one gateway route, two goroutines that change metrics (alike, hence the symmetry), two changes by the operator (remove and install again), two changes of metrics, in either family, two messages in the buffer, one crash, and four of these events together (`MaxEvents`, where the crash counts as two): as many as it takes for each pair of the three to overlap on the route, and for the next process to find what any of them left. Routes do not interact but by an error, which ends the change and is marked by `spoilt` |
| `stale_copy` | is a removed route removed from the copy | one gateway route and one on the link, one change each |
| `unrestored` | does a stop leave the operator's routes, whatever their metric | one gateway route with the interface's metric, one change of metrics |
| `minimum_up`, `stale_monitor`, `ipv6_only`, `shared_name` | violated claims, see below | the smallest instance that shows each |

`MaxEpoch` bounds how often the link comes up in `LinkServer` and `Server`. The
interesting overlaps are of an epoch with the next, so two are enough, and the
theorems below have no bound; `host_session` has none either. In `link_server`
and `server_stop` no change of routes fails, which `host_session` covers; rules may
be refused and kept in both. `TABLE_MAX` is 300 in `config_parse`: only its neighbours matter.

The properties:

- `CountAgrees`, `CountInRange`: a counter is the number of hosts counted by
  callbacks, in every interleaving, and never leaves its range. In `LinkServer`
  monitors left over from an epoch do move a counter out of range.
- `GatewayAgrees`: with no change under way and none spoilt, routes follow the
  counter.
- `DownIsQuiet`: nothing of a session changes counters or routes once its link
  is down.
- `NoCallbackAfterStop`, `ImplementsContract`, `StopReturns`,
  `AllGoroutinesEnd`: the ICMP monitor.
- `DownLeavesNothing`: after the loop of `linkDown` the only monitors running
  are those of a watcher that came too late, or ones whose place in the registry
  such a monitor took. A rule that could be deleted is left only if a watcher was
  busy.
- `ImplementsSession`, `FourHostBringsAll`, `LinkDownEnds`, `WatchersEnd`: the
  server's link handling. `FourHostBringsAll` is what `HostsGetMonitored`, which
  `ipv6_only` refutes, leaves: the hosts of both families are monitored if one of
  them is an IPv4 host. `server_stop` checks `ImplementsSession` over two epochs
  and up to the signal.
- `LinkFollows`: what the link monitor holds, or will when it has handled its
  messages, is the carrier, until a message is lost. `NoLinkChangeAfterStop`: once
  its Stop has returned, neither `linkUp` nor `linkDown` runs or starts, so none
  meets the route sync's cleanup. `StopLeavesNothing`: what runs after the loop of
  `Server.Stop`, and what rules are left at the end that could be deleted, is due
  to a watcher. `ServerSettles`: while serving, the server comes to agree with the kernel, and
  a `Stop` returns.
- `NearestWins`, `HostsCounted`, `FailedIsWorse`: what the configuration gives to the rest.
- `NoGap`: a route that is wanted is in the main table at every moment, whoever
  moves it, wherever the process dies, whatever messages are lost and additions
  refused. In cleanup alone a route may be missing that the kernel refused to
  restore, whose metric is the one cleanup deletes, or that a change from outside or
  a crash came before. `Covered`: it has a copy, unless the kernel
  refused it. `MetricAgrees`: it has the metric of the last change of its family, which
  `NextHop!Moved` takes for granted. `Restored`: after a stop it is as the operator
  installed it, also when a process died before, with the same exceptions.

### What the code does not keep

Six runs end in a violation of what the repository says of itself.

- `minimum_up`: an UP edge whose script is slow is acted on after the DOWN edge
  that followed it. The gateway stays used with fewer than `minimum_up` hosts
  up, until the counter crosses again.
- `stale_monitor`: the shutdown channel is closed after `linkDown`, and a
  watcher looks at it between two ticks only. Monitors started in between run
  on a link that is down.
- `ipv6_only`: the IPv6 branch of `linkUp` tests `hasipv4` (link.go:132), so an
  interface that has IPv6 hosts alone stops its ticker when it finds an address
  and monitors none of them.
- `shared_name`: the registry is keyed by the host's name. The example
  configuration uses a name twice on an interface; the monitor registered first
  is never stopped.
- `stale_copy`: the route sync copies a route with the metric it was announced
  with and then gives the route the program's metric, so the kernel's message of
  its removal names the latter. `routeDownAction` deletes with the metric of the
  message, finds nothing, and the copy stays. The next UP edge adds it to the
  main table again.
- `unrestored`: `cleanup` adds the original route and then deletes the pair with
  `s.metric`, which is the same pair when the operator's route has the interface's
  metric (0 on both sides if neither names one) and the metric set last is that
  one. In the run the route is failed, the other family comes up and sets the
  metric, and a stop leaves the route with its failure metric alone.

The models also reach what the repository claims nothing about, so no run
asserts it:

- `RouteSync`: a change of metrics before the routes are asked for makes the dump
  show the failure metric as the route's own, and a stop deletes what it has
  restored. A goroutine that changes routes while `cleanup` runs may lose one.
  `Restored` excepts both (`outside`), and so does `NoGap` in cleanup; up to it no
  route is missing in either case (`ChangesLeaveNoGap`).
- `RouteSync`: when the kernel refuses to restore a route, the error is logged and
  the other pair is deleted all the same (route.go:270-276): the route is in no
  table any more. `NoGap` and `Restored` except it (`refused`).
- `RouteSync`: `s.metric` is one for both families. When one family is down and the
  other came up last, `cleanup` deletes the restored routes' pairs with the
  interface's metric, which do not exist for the first family; its failed pairs
  stay beside the restored ones.
- `RouteSync` after a restart: the new process copies both pairs of a route, and its
  cleanup may delete the failed pair, the only one in the main table, before it
  comes to the copy with the original metric. The route is missing until then, so
  `NoGap` excepts the cleanup after a crash.
- `LinkServer`: without a table `s.routeSync[name]` is nil, and `WithMetric`
  dereferences it at the first change of routes (nexthop.go:78,111), although
  server.go:77 and 126-127 allow for such an interface. With `HasTable = FALSE` the
  process dies in `FailStarted`, `FailLink` or `Act`, whichever comes first.
- `IcmpMonitor`: the panic of a WaitGroup that is reused before a waiter has run
  (`Wake`). `LinkServer`, `Server`: the fatal error of a concurrent map access
  (`AddMonitor`, `RegistryRace`), the nil connection of `DialFails`. The liveness
  properties count a dead process as an end.
- `ConfigParse`: `minimum_up` is checked against the hosts of both families, but
  compared with the counter of one. Two interfaces may have one table
  (config.go:120, a TODO). `parseDuration` knows neither "auto" nor "infinite", which
  its comment promises (config.go:154-155), and takes zero and negative durations; the
  defaults in the comments of config.go:40-43 are not those of config.go:30-33.

## Fairness

- Goroutines that can take a step take it: weak fairness of bursts, of
  `linkDown`'s steps, of a callback's steps, of a watcher's work on its hosts.
  It includes that a burst ends (the pinger has a timeout) and a script returns.
- `select` chooses at random among cases that are ready, so a case that is ready
  again and again is taken: strong fairness of `Leave` (IcmpMonitor) and
  `WatcherEnds` (LinkServer).
- In `HostSession` a `Stop` has cancelled its monitor and waits for one callback
  at most, which the session does not model step by step: strong fairness of
  `StopMonitor`. `IcmpMonitor!StopReturns` is checked without it, and so is
  `LinkServer!LinkDownEnds`, where the cancelled monitor (`life` is `last`) has one
  callback left and no more.
- An interface whose link stays up is given an address of each family (strong
  fairness of `FindAddress` in `LinkServer`). This is an assumption about the
  system, needed by `FourHostBringsAll` and, to refute it, by
  `HostsGetMonitored`.
- `Server`: the link monitor's goroutine, `Server.Stop`, the route sync's cleanup
  and each callback go on (weak fairness): `Receive` has a deadline, kernel calls
  return and a script ends. Nothing is assumed of watchers; no property needs it.
- `RouteSync` is checked for safety only: its properties speak of states in which
  the messages are handled, and nothing in the code bounds how soon.
- Nothing is assumed of the operator, ticks, hosts' answers, the carrier and the
  signal.

## Proofs

For every finite set of monitors, every assignment of families and every
`MinimumUp` (assumptions: `FamilyOfAssumption`, `TotalAssumption`,
`MinimumUpAssumption`, `RoutesFailAssumption`, `FiniteMonitorsAssumption`, and
`TotalCountsHosts`, by which the totals are the numbers of hosts that
`parseInterface` counts), `HostSessionProofs` proves `TypeOK`, `CountAgrees`,
`CountInRange`, `GatewayAgrees` and `DownIsQuiet` of `HostSession!Spec`.

The inductive invariant is `IInv == TypeOK /\ ControlInv /\ CountAgrees /\
GatewayInv`. `ControlInv` says where monitors can be for each step of the link
(none runs, and none is in a callback, after `AllStopped`; a monitor that is not
running is idle, and so on); without it `CountAgrees` is not inductive, because a
callback that outlives its session would move a counter that was zeroed.
`CountAgrees` alone gives the range: the counter is the cardinality of a set of
hosts of the family, a callback adds one element or removes one (lemmas
`CountOneMore`, `CountOneLess`), so it cannot be out of range and `Clamp` is
never enabled. `GatewayInv` strengthens `GatewayAgrees` for the time an edge is
pending: with `spoilt` "no" there is one pending edge and its direction is the
one the counter wants. The step lemmas `ControlStep`, `CountStep` and
`GatewayStep` go through the actions of `Next` one by one.

`IcmpMonitorProofs` proves `TypeOK`, `NoCallbackAfterStop` and
`ImplementsContract` of `IcmpMonitor!Spec` for any set of stoppers: the
WaitGroup's counter is one exactly while a burst is under way, and a stopper that
has returned implies a cancelled context, under which no callback is decided on.

`LinkServerProofs` proves `TypeOK` and `DownLeavesNothing` of `LinkServer!Spec`, for
any finite set of hosts and any number of epochs. `DownLeavesNothing` follows from
`AliveInv`: a monitor that runs and is not in `late` is of the current epoch, is the
one registered under its host's name, and once the loop has begun, the loop has
still to come to that name or waits for that very monitor. The last part is what
makes it inductive: without it a monitor could be alive behind the loop. It needs
`Distinct`, that hosts of an interface have names of their own, which is assumed of
the theorem and not of the module, since the configuration does not ask for it and
`shared_name` shows what becomes of it. `BusyInv` and `RuleInv` give the rules:
while `clean`, only the watcher of a session that goes on is busy. The types need
that a watcher has a host at hand exactly between its rule and its monitor
(`WatcherInv`), or `AddMonitor` would write outside the registry.

`LinkSessionProofs` proves the refinement, `ImplementsSession` of `LinkServer!Spec`,
action by action (`UpSession`, `StartSession`, `StopSession` and the others): each is
one action of `HostSession` under the mapping, or changes nothing that it sees, as
long as `clean`. `HostSession` has no step for a clamp, and that none happens is an
invariant of `HostSession`, `CountInRange`. So the refinement and that invariant are
shown by one induction: `Proved`, an instance of `HostSessionProofs` under the same
mapping, has the invariant of the steps so far, which makes the next one a step of the
session. `SideInv` is what the mapping itself rests on:

- `RegistryInv`: a `Stop` is of a monitor that was started;
- `CallInv`: a monitor calls back only while alive, and starts with its host down;
- `PlanInv`: the hosts a busy watcher has still to start are exactly those of its
  family that have no monitor of its epoch. The session is done with a family when
  each of its hosts has one;
- `LatestInv`: of the epochs in which a host's monitor was made there is a last one,
  whose `isUp` is the session's;
- and `late = {}`, by which `AliveInv` holds of every monitor: those that run are of
  the current epoch, and `linkDown` comes to each.

The theorem assumes `Distinct`, and `HasTable`: without a table the process dies at
the first change of routes where the session goes on. From the same
induction follow `ServedCountsAgree`, the properties of `HostSession` for the code's
own counters and routes, and `LoopStopsAll`: the claim that `shared_name` refutes
holds when the names are distinct, while `clean`, with a table or without.

`ServerProofs` proves of `Server!ServerSpec`, for any buffer and any number of
flips:

- `ServerTypeOK`; the socket's bound follows from `Tell`;
- `NoLinkChangeAfterStop`, from `ReceiverInv`: Run is not in `receive`, and no
  callback runs, once `Server.Stop` is past it. `WhoMovesTheLink` says that
  nothing else moves the link;
- `LinkFollows`, by itself inductive together with the type of the queue: a
  message that finds room is the last one told (`TellFacts`), and handling one
  either leaves the last one to come or makes the link what it said
  (`ReceiveFacts`);
- `ImplementsSession`, under `Distinct` and `HasTable`: the five steps of
  `Server.Stop` and the route sync come after the signal alone (`ServingInv`), from
  which on a session is not `clean`, and every other step is one of `LinkServer` or
  moves nothing of it;
- `StopLeavesNothing` and `DownLeavesNothing`, again under `Distinct`. Every step of
  the server is one of `LinkServer`, a stutter, or one of five that only stop
  things (`ServerSteps`), and keeps the invariant of `LinkServerProofs`. `VisitInv`
  is the same argument as `AliveInv` for the loop of `Server.Stop`, which runs beside
  that of `linkDown`; `CleanedInv` says that once the route sync has cleaned up, the
  table takes a rule only from a watcher that has the host at hand, and when it
  lets go of it, it has started an orphan.

`ConfigParseProofs` proves all four invariants of `ConfigParse` for any file: the
settings of each level follow those above (`Chain`), an interface's counts are
those of the addresses seen (`Counts`), and what is taken is in bounds (`Bounds`).

`RouteSyncProofs` proves all five invariants of `RouteSync`, for any routes and
families, any finite set of goroutines that change metrics, any buffer and any
number of changes, messages and crashes:

- `RouteSyncTypeCorrect` gives `TypeOK`. It needs what the route sync has in its
  hands at each step (`HandInv`), and that a change takes routes of its own family
  (`ChangeInv`).
- `NoGap` counts. Two goroutines may delete pairs of one route at the same time, so
  that a pair exists is not inductive. `CountInv` is: a wanted route has more pairs
  than there are goroutines between the add and the delete of `ChangeMetric` with it,
  since each of them has added a pair that was not there; an add that meets an error
  deletes nothing. This is `ChangesLeaveNoGap`, for every metric the operator may
  use. `NeverWithoutRoute` adds the cleanup, by `CleanInv`: the pairs that cleanup has
  not come to are still copied, and a pair is removed after its original is
  back, or was refused.
- `RoutesCovered` and `RoutesRestored` rest on `Copied`: what is to be copied is
  announced in a message, or held (in the batch, at hand, or copied) with no removal
  behind it. `CoverInv` says it of every pair of a route, `KeepInv` of the pair with
  the operator's metric, with what cleanup has still to restore (`Saved`) and what a
  dead process leaves (`KeptDead`).
- `MetricsAgree` follows from `MetricInv`: each pair of a gateway route that has not
  the metric of its family's last change will go. Either the route sync is to hear of
  it or is at work on it, and reads the metric then (`Doomed`), or the goroutine that
  changes the family has it before it (`Moves`). This works as long as that goroutine
  is alone with its family (`AloneInv`), which is what `spoilt` records.

None of these theorems assumes anything of the operator's metric: where it matters,
in cleanup, the properties say so themselves (`metric = Original`).

Model-checked only: all liveness (`LinkDownEnds`, `StopReturns`, `AllGoroutinesEnd`,
`FourHostBringsAll`, `WatchersEnd`, `ServerSettles`), which is out of the prover's
reach. Every invariant and action property of the passing runs is also a theorem.

## Not modelled, and the plan

Modelled first was what decides whether traffic is sent over a dead interface:
counters, edges, monitors, link changes; then what surrounds it: routes, the
server's life, the configuration. Left, in this order:

1. `RouteSync`: an interface that is made again with another index; deletions that
   the kernel refuses for another reason than that the pair is not there.
2. A refinement of `NextHop`'s three values of a family's gateway routes by the
   pairs of `RouteSync`: `MetricAgrees` is its invariant part.

Not planned: `cmd/hodos` (flags and start), `internal/cap`, `internal/log`,
`internal/build`, and the Nix files, which keep no state. Of the configuration, the
syntax of TOML and of durations is left to the libraries.

## Checking

    tlc -workers 2 -config MC_HostSession.cfg MC_HostSession.tla
    tlapm HostSessionProofs.tla

and so on for the runs and proof modules that `PROJECT.json` lists. Operators whose
comment begins "Mutant:" are plausible mistakes in the definition that follows
them. `PROJECT.json` pairs each with the property that detects it; no
specification uses them.
