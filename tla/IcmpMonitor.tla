----------------------------- MODULE IcmpMonitor -----------------------------
(***************************************************************************)
(* One ICMP monitor (internal/icmp/icmp.go): the goroutine of Start, which *)
(* runs a burst of pings at every tick and calls the Up or the Down        *)
(* callback with its result; the goroutine of each burst that waits for    *)
(* the context to be cancelled; and the goroutines that call Stop, which   *)
(* cancels the context and waits on a sync.WaitGroup for the burst.        *)
(*                                                                         *)
(* The pinger and the WaitGroup are libraries, modelled from how icmp.go   *)
(* uses them.  A WaitGroup's waiter that finds the counter raised again    *)
(* when it wakes up panics, which ends the process.                        *)
(***************************************************************************)
EXTENDS Naturals

CONSTANTS
    Stoppers,   \* goroutines that call Stop: linkDown and Server.Stop
    MaxLeaked   \* bound on the goroutines left behind by failed bursts

ASSUME MaxLeakedAssumption == MaxLeaked \in Nat

VARIABLES
    ctx,        \* the monitor's context is cancelled
    tick,       \* the ticker's channel holds a tick
    loop,       \* where the goroutine of Start is
    count,      \* the counter of the WaitGroup
    watcher,    \* the burst's goroutine waits for the context or the end
    leaked,     \* goroutines of failed bursts, whose end never comes
    stop,       \* where each call of Stop is
    panicked    \* the process died of a misused WaitGroup

vars == <<ctx, tick, loop, count, watcher, leaked, stop, panicked>>

Loops == {"select", "add", "ping", "check", "decided", "down", "up",
          "deferred", "exited"}

(* "called": the context is cancelled and Wait comes next.  "waiting":     *)
(* counted as a waiter.  "woken": released by Done, but not yet running.   *)
Stops == {"none", "called", "waiting", "woken", "returned"}

TypeOK ==
    /\ ctx \in BOOLEAN
    /\ tick \in BOOLEAN
    /\ loop \in Loops
    /\ count \in 0 .. 1
    /\ watcher \in BOOLEAN
    /\ leaked \in 0 .. MaxLeaked
    /\ stop \in [Stoppers -> Stops]
    /\ panicked \in BOOLEAN

Init ==
    /\ ctx = FALSE
    /\ tick = FALSE
    /\ loop = "select"
    /\ count = 0
    /\ watcher = FALSE
    /\ leaked = 0
    /\ stop = [s \in Stoppers |-> "none"]
    /\ panicked = FALSE

-----------------------------------------------------------------------------
(* The goroutine of Start.                                                 *)

(* The channel of a ticker holds one tick; the others are dropped.         *)
Tick ==
    /\ loop # "exited"
    /\ tick' = TRUE
    /\ UNCHANGED <<ctx, loop, count, watcher, leaked, stop, panicked>>

(* Mutant: the ticker's case is preferred to the context's.                *)
LeaveWithoutTick ==
    /\ loop = "select"
    /\ ctx
    /\ ~tick
    /\ loop' = "exited"
    /\ UNCHANGED <<ctx, tick, count, watcher, leaked, stop, panicked>>

(* select takes either case when the context and the ticker are both ready.*)
Leave ==
    /\ loop = "select"
    /\ ctx
    /\ loop' = "exited"
    /\ tick' = FALSE
    /\ UNCHANGED <<ctx, count, watcher, leaked, stop, panicked>>

TakeTick ==
    /\ loop = "select"
    /\ tick
    /\ tick' = FALSE
    /\ loop' = "add"
    /\ UNCHANGED <<ctx, count, watcher, leaked, stop, panicked>>

(* wg.Add, the pinger, and the goroutine that would stop it.               *)
Add ==
    /\ loop = "add"
    /\ count' = count + 1
    /\ watcher' = TRUE
    /\ loop' = "ping"
    /\ UNCHANGED <<ctx, tick, leaked, stop, panicked>>

(* The pinger is through, timed out, or was stopped: OnFinish closes end.  *)
PingEnds ==
    /\ loop = "ping"
    /\ watcher' = FALSE
    /\ loop' = "check"
    /\ UNCHANGED <<ctx, tick, count, leaked, stop, panicked>>

(* Mutant: the early return skips the Done.                                *)
PingFailsNoDone ==
    /\ loop = "ping"
    /\ watcher => leaked < MaxLeaked
    /\ leaked' = IF watcher THEN leaked + 1 ELSE leaked
    /\ watcher' = FALSE
    /\ loop' = "select"
    /\ UNCHANGED <<ctx, tick, count, stop, panicked>>

(* The pinger has no socket: run returns the error, end stays open and no  *)
(* callback is called.                                                     *)
PingFails ==
    /\ loop = "ping"
    /\ watcher => leaked < MaxLeaked
    /\ leaked' = IF watcher THEN leaked + 1 ELSE leaked
    /\ watcher' = FALSE
    /\ loop' = "deferred"
    /\ UNCHANGED <<ctx, tick, count, stop, panicked>>

(* Mutant: the context is not looked at again after the burst.             *)
CheckNothing ==
    /\ loop = "check"
    /\ loop' = "decided"
    /\ UNCHANGED <<ctx, tick, count, watcher, leaked, stop, panicked>>

Check ==
    /\ loop = "check"
    /\ loop' = IF ctx THEN "deferred" ELSE "decided"
    /\ UNCHANGED <<ctx, tick, count, watcher, leaked, stop, panicked>>

(* More than 75% of the packets were lost, or not.                         *)
Call ==
    /\ loop = "decided"
    /\ loop' \in {"down", "up"}
    /\ UNCHANGED <<ctx, tick, count, watcher, leaked, stop, panicked>>

CallReturns ==
    /\ loop \in {"down", "up"}
    /\ loop' = "deferred"
    /\ UNCHANGED <<ctx, tick, count, watcher, leaked, stop, panicked>>

(* Mutant: the deferred Done is left out.                                  *)
DoneNever ==
    /\ loop = "deferred"
    /\ loop' = "select"
    /\ UNCHANGED <<ctx, tick, count, watcher, leaked, stop, panicked>>

(* The deferred wg.Done releases every waiter.                             *)
Done ==
    /\ loop = "deferred"
    /\ count' = count - 1
    /\ stop' = [s \in Stoppers |-> IF stop[s] = "waiting" THEN "woken"
                                                          ELSE stop[s]]
    /\ loop' = "select"
    /\ UNCHANGED <<ctx, tick, watcher, leaked, panicked>>

-----------------------------------------------------------------------------
(* The goroutines of the bursts see the context cancelled.                 *)
WatcherEnds ==
    /\ ctx
    /\ watcher
    /\ watcher' = FALSE
    /\ UNCHANGED <<ctx, tick, loop, count, leaked, stop, panicked>>

LeakedEnds ==
    /\ ctx
    /\ leaked > 0
    /\ leaked' = leaked - 1
    /\ UNCHANGED <<ctx, tick, loop, count, watcher, stop, panicked>>

-----------------------------------------------------------------------------
(* Stop: cancel first, ...                                                 *)
CallStop(s) ==
    /\ stop[s] = "none"
    /\ ctx' = TRUE
    /\ stop' = [stop EXCEPT ![s] = "called"]
    /\ UNCHANGED <<tick, loop, count, watcher, leaked, panicked>>

(* Mutant: Stop returns without waiting.                                   *)
WaitNot(s) ==
    /\ stop[s] = "called"
    /\ stop' = [stop EXCEPT ![s] = "returned"]
    /\ UNCHANGED <<ctx, tick, loop, count, watcher, leaked, panicked>>

(* ... then wait.                                                          *)
Wait(s) ==
    /\ stop[s] = "called"
    /\ stop' = [stop EXCEPT ![s] = IF count = 0 THEN "returned" ELSE "waiting"]
    /\ UNCHANGED <<ctx, tick, loop, count, watcher, leaked, panicked>>

(* A waiter that was released runs again, and looks at the counter.        *)
Wake(s) ==
    /\ stop[s] = "woken"
    /\ IF count = 0
       THEN /\ stop' = [stop EXCEPT ![s] = "returned"]
            /\ UNCHANGED panicked
       ELSE /\ panicked' = TRUE
            /\ UNCHANGED stop
    /\ UNCHANGED <<ctx, tick, loop, count, watcher, leaked>>

(* The server's context, from which the monitor's is derived.              *)
ParentCancel ==
    /\ ~ctx
    /\ ctx' = TRUE
    /\ UNCHANGED <<tick, loop, count, watcher, leaked, stop, panicked>>

-----------------------------------------------------------------------------
Burst ==
    \/ Add
    \/ PingEnds
    \/ PingFails
    \/ Check
    \/ Call
    \/ CallReturns
    \/ Done

Next ==
    /\ ~panicked
    /\ \/ Tick
       \/ Leave
       \/ TakeTick
       \/ Burst
       \/ WatcherEnds
       \/ LeakedEnds
       \/ ParentCancel
       \/ \E s \in Stoppers : CallStop(s) \/ Wait(s) \/ Wake(s)

Spec == Init /\ [][Next]_vars

(* Goroutines run on, a burst ends by its timeout and a callback returns.  *)
(* select chooses at random between cases that are ready, so one that is   *)
(* ready again and again is taken: strong fairness of Leave.               *)
Fairness ==
    /\ WF_vars(~panicked /\ Burst)
    /\ SF_vars(~panicked /\ Leave)
    /\ WF_vars(~panicked /\ WatcherEnds)
    /\ WF_vars(~panicked /\ LeakedEnds)
    /\ \A s \in Stoppers : WF_vars(~panicked /\ (Wait(s) \/ Wake(s)))

FairSpec == Spec /\ Fairness

-----------------------------------------------------------------------------
Returned == \E s \in Stoppers : stop[s] = "returned"

(* When a Stop has returned, no callback is decided on or running, and     *)
(* none is again: the server may drop what the callbacks use               *)
(* (icmp.go:165-177, 182-186).                                             *)
NoCallbackAfterStop == Returned => loop \notin {"decided", "down", "up"}

(* The monitor keeps its contract.                                         *)
Contract == INSTANCE MonitorContract WITH
    phase <- CASE loop = "decided" -> "decided"
               [] loop \in {"down", "up"} -> "running"
               [] OTHER -> "idle",
    cancelled <- ctx,
    returned <- Returned

ImplementsContract == Contract!Spec

(* Every Stop returns, or the process dies: no burst, no tick and no other *)
(* Stop can keep it waiting (icmp.go:185).                                 *)
StopReturns ==
    \A s \in Stoppers : stop[s] = "called" ~> stop[s] = "returned" \/ panicked

(* A cancelled monitor leaves its loop (icmp.go:192-194), though select    *)
(* may take the ticker's case first, and no goroutine of a burst is left   *)
(* behind, those of failed bursts included (icmp.go:152-159).              *)
AllGoroutinesEnd ==
    ctx ~> (loop = "exited" /\ ~watcher /\ leaked = 0) \/ panicked
=============================================================================
