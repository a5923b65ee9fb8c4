-------------------------- MODULE RouteSyncProofs --------------------------
(***************************************************************************)
(* Proofs about RouteSync, for any routes, any number of goroutines that   *)
(* change metrics, and any number of changes, messages and crashes.        *)
(*                                                                         *)
(* NoGap is a matter of counting: every goroutine between the add and the  *)
(* delete of ChangeMetric has added a pair that was not there, so the main *)
(* table has more pairs of a wanted route than goroutines are about to     *)
(* delete (CountInv).  What the route sync still has to hear of decides    *)
(* the rest: a route that is wanted is announced, being handled or copied  *)
(* (Copied), and a pair with a metric of before is announced, or in the    *)
(* hands of the one goroutine that changes its family (Moves).             *)
(***************************************************************************)
EXTENDS RouteSync, FiniteSetTheorems, SequenceTheorems, TLAPS

Live == sync.pc \in {"boot", "loop", "receive", "batch", "add", "delete", "copy",
                     "uncopy"}

Orig(r) == <<r, Original>>
PairsIn(r) == {e \in Entries : e[1] = r}

(* Where the route sync's goroutine is, and what it has in its hands.      *)
HandInv ==
    /\ sync.pc = "boot" => Len(queue) <= MaxQueue
    /\ sync.pc = "dead" => queue = <<>> /\ \A c \in Changers : change[c].pc = "idle"
    /\ sync.pc \in {"add", "delete", "copy", "clean", "restore", "remove"} =>
           sync.kind = "new"
    /\ sync.pc = "uncopy" => sync.kind = "del"
    /\ sync.pc \in {"boot", "loop", "receive", "batch"} => sync.entry = NoEntry
    /\ sync.pc \in {"boot", "loop", "receive"} => sync.kind = "new" /\ sync.todo = {}
    /\ sync.pc \in {"add", "delete", "restore", "remove"} => IsGateway(sync.entry)
    /\ Cleaning => stopping

(* A change takes the gateway routes of its family.                        *)
ChangeInv ==
    \A c \in Changers :
        /\ change[c].todo \subseteq EntriesOf(change[c].fam)
        /\ change[c].pc = "delete" => change[c].entry \in EntriesOf(change[c].fam)

TypeInv == TypeOK /\ HandInv /\ ChangeInv

(* While the program stops, and nothing went beside, no metric is changed. *)
QuietInv ==
    ~outside /\ (stopping \/ sync.pc = "boot") =>
        \A c \in Changers : change[c].pc = "idle"

Bit(P) == IF P THEN 1 ELSE 0
Deleters(r) == {c \in Changers : change[c].pc = "delete" /\ change[c].entry[1] = r}
SyncDeletes(r) == sync.pc = "delete" /\ sync.entry[1] = r

Counts(r) ==
    Cardinality(PairsOf(r)) >= Cardinality(Deleters(r))
        + Bit(SyncDeletes(r)) + Bit(r \in installed)

CountInv == ~Cleaning => \A r \in Routes \ gone : Counts(r)

Originals == {e \in Entries : e[2] = Original}

(* The first process sees routes as the operator installed them.           *)
FirstInv ==
    crashes = 0 /\ ~outside =>
        /\ sync.pc # "dead"
        /\ own \subseteq Originals
        /\ sync.pc = "boot" => main \subseteq Originals
        /\ \A i \in DOMAIN queue :
               queue[i].kind = "new" => queue[i].entries \subseteq Originals
        /\ sync.kind = "new" =>
               /\ sync.todo \subseteq Originals
               /\ sync.pc \in HasEntry => sync.entry \in Originals

(* Its cleanup has put a route back before it removes the other pair.      *)
CleanInv ==
    Cleaning /\ ~outside /\ crashes = 0 /\ metric # Original =>
        /\ \A r \in installed \ (gone \cup refused) : PairsOf(r) # {}
        /\ sync.pc = "remove" /\ sync.entry[1] \in installed \ refused =>
               Orig(sync.entry[1]) \in main

-----------------------------------------------------------------------------
(* The last message about a pair of S says that it is there.               *)
Tells(i, kind, S) == queue[i].kind = kind /\ queue[i].entries \cap S # {}

Announces(S) ==
    \E i \in DOMAIN queue :
        /\ Tells(i, "new", S)
        /\ \A j \in DOMAIN queue : j > i => ~Tells(j, "del", S)

Silent(S) == \A j \in DOMAIN queue : ~Tells(j, "del", S)

Adding(S) ==
    /\ sync.kind = "new"
    /\ \/ sync.pc \in {"batch", "add", "delete", "copy"} /\ sync.todo \cap S # {}
       \/ sync.pc \in {"add", "delete", "copy"} /\ sync.entry \in S

Removing(S) ==
    /\ sync.kind = "del"
    /\ \/ sync.pc \in {"batch", "uncopy"} /\ sync.todo \cap S # {}
       \/ sync.pc = "uncopy" /\ sync.entry \in S

Held(S) ==
    \/ Adding(S)
    \/ sync.pc = "boot" /\ main \cap S # {}
    \/ own \cap S # {} /\ ~Removing(S)

(* A pair of S is in the interface's table, or will be.                    *)
Copied(S) == Announces(S) \/ (Silent(S) /\ Held(S))

CoverInv ==
    Live /\ ~lost => \A r \in installed \ (gone \cup refused) : Copied(PairsIn(r))

(* A route without a gateway is where the operator put it.                 *)
OnLinkInv == \A r \in installed \ GatewayRoutes : Orig(r) \in main

(* The pair a route was installed with is kept, or will be.                *)
KeptLive == Live /\ ~lost => \A r \in installed \ refused : Copied({Orig(r)})

KeptDead == sync.pc = "dead" => \A r \in installed : Orig(r) \in main \cup own

Saved(r) ==
    \/ Orig(r) \in main
    \/ sync.pc # "stopped" /\ Orig(r) \in sync.todo
    \/ sync.pc = "restore" /\ sync.entry = Orig(r)
    \/ Unread(r)

KeptClean ==
    Cleaning /\ ~lost /\ metric # Original => \A r \in installed \ refused : Saved(r)

KeepInv == ~outside => KeptLive /\ KeptDead /\ KeptClean

-----------------------------------------------------------------------------
On(c, f) == change[c].pc # "idle" /\ change[c].fam = f

(* A change that was not spoilt is alone, and has heard everything.        *)
Alone(f) ==
    /\ ~Announced(f)
    /\ sync.pc # "boot"
    /\ \A c \in Changers : On(c, f) => change[c].dir = last[f]
    /\ \A c, d \in Changers : On(c, f) /\ On(d, f) => c = d

AloneInv == Live => \A f \in Families \ spoilt : Changing(f) => Alone(f)

(* The route sync gives a route the metric of the last change.             *)
TargetInv ==
    Live => \A f \in Families \ spoilt :
        sync.pc \in {"add", "delete"} /\ FamilyOf[sync.entry[1]] = f =>
            sync.target = last[f]

(* The main table has no gateway route that nobody wants.                  *)
GhostInv ==
    Live => \A r \in GatewayRoutes \ installed :
        FamilyOf[r] \notin spoilt => PairsOf(r) = {}

(* The route sync will give the pair another metric, ...                   *)
Doomed(e) ==
    \/ sync.pc = "boot"
    \/ \E i \in DOMAIN queue : queue[i].kind = "new" /\ e \in queue[i].entries
    \/ /\ sync.kind = "new"
       /\ \/ sync.pc \in {"batch", "add", "delete", "copy"} /\ e \in sync.todo
          \/ sync.pc \in {"add", "delete"} /\ sync.entry = e

Other(dir) == IF dir = "good" THEN "fail" ELSE "good"

(* ... or goroutine c will.                                                *)
Moves(c, e) ==
    /\ On(c, FamilyOf[e[1]])
    /\ ~change[c].again
    /\ e[2] = Other(change[c].dir)
    /\ \/ change[c].pc = "list"
       \/ /\ change[c].pc \in {"add", "delete"}
          /\ IF change[c].dir = "good" THEN \E x \in Metrics : <<e[1], x>> \in change[c].todo
                                       ELSE e \in change[c].todo
       \/ change[c].pc = "delete" /\ change[c].entry = e

(* A pair that is not as it should be has somebody to see to it.           *)
Seen(e) == Doomed(e) \/ \E c \in Changers : Moves(c, e)
Wrong(r) == {m \in PairsOf(r) : m # last[FamilyOf[r]]}

MetricInv ==
    Live /\ ~lost =>
        \A r \in (installed \ (gone \cup refused)) \cap GatewayRoutes :
            FamilyOf[r] \notin spoilt => \A m \in Wrong(r) : Seen(<<r, m>>)

-----------------------------------------------------------------------------
(* What a step does to the queue.                                          *)
LEMMA QueueAppended ==
    ASSUME queue \in Seq(Messages), NEW x \in Messages, queue' = Append(queue, x)
    PROVE  /\ queue' \in Seq(Messages)
           /\ Len(queue) \in Nat /\ Len(queue') = Len(queue) + 1
           /\ DOMAIN queue = 1 .. Len(queue) /\ DOMAIN queue' = 1 .. Len(queue')
           /\ \A i \in DOMAIN queue : queue'[i] = queue[i]
           /\ queue'[Len(queue')] = x
  BY AppendProperties, LenProperties

LEMMA QueueTailed ==
    ASSUME queue \in Seq(Messages), queue # <<>>, queue' = Tail(queue)
    PROVE  /\ queue' \in Seq(Messages)
           /\ Len(queue) \in Nat \ {0} /\ Len(queue') = Len(queue) - 1
           /\ DOMAIN queue = 1 .. Len(queue) /\ DOMAIN queue' = 1 .. Len(queue')
           /\ \A i \in DOMAIN queue' : queue'[i] = queue[i + 1]
           /\ Head(queue) = queue[1] /\ Head(queue) \in Messages
  BY HeadTailProperties, LenProperties, ElementOfSeq

LEMMA TellFacts ==
    ASSUME TypeOK, HandInv, NEW kind \in {"new", "del"}, NEW e \in Entries,
           Tell(kind, e)
    PROVE  /\ queue' \in Seq(Messages)
           /\ Len(queue') <= MaxQueue + 1
           /\ Len(queue') <= MaxQueue \/ queue' = queue
           /\ lost' \in BOOLEAN /\ (lost => lost')
           /\ \/ queue' = queue
              \/ /\ sync.pc # "dead"
                 /\ queue' = Append(queue, [kind |-> kind, entries |-> {e}])
           /\ Live /\ ~lost' => queue' = Append(queue, [kind |-> kind, entries |-> {e}])
  <1> DEFINE x == [kind |-> kind, entries |-> {e}]
  <1>1. x \in Messages
    BY DEF Messages
  <1>2. queue \in Seq(Messages) /\ Len(queue) <= MaxQueue + 1 /\ lost \in BOOLEAN
    BY DEF TypeOK
  <1>3. ASSUME Listens, Len(queue) < MaxQueue, queue' = Append(queue, x)
        PROVE  queue' \in Seq(Messages) /\ Len(queue') <= MaxQueue
    <2> HIDE DEF x
    <2> QED
      BY <1>1, <1>2, <1>3, QueueAppended, MaxQueueAssumption
  <1> USE MaxQueueAssumption
  <1>4. CASE Listens /\ Len(queue) < MaxQueue /\ queue' = Append(queue, x) /\ UNCHANGED lost
    <2>1. queue' \in Seq(Messages) /\ Len(queue') <= MaxQueue /\ Len(queue') \in Nat
      BY <1>3, <1>4, LenProperties
    <2>2. sync.pc # "dead" /\ lost' = lost
      BY <1>4 DEF Listens
    <2>3. queue' = Append(queue, [kind |-> kind, entries |-> {e}])
      BY <1>4, Zenon
    <2>4. Len(queue') <= MaxQueue + 1
      BY <2>1
    <2> QED
      BY <1>2, <2>1, <2>2, <2>3, <2>4, Zenon
  <1>5. CASE UNCHANGED queue /\ lost' \in {lost, TRUE} /\ (Live => lost')
    <2>1. queue' = queue /\ (Live => lost')
      BY <1>5
    <2>2. lost' \in BOOLEAN /\ (lost => lost')
      <3>1. CASE lost' = lost
        BY <1>2, <3>1
      <3>2. CASE lost' = TRUE
        BY <3>2
      <3> QED
        BY <1>5, <3>1, <3>2
    <2>3. queue' \in Seq(Messages) /\ Len(queue') <= MaxQueue + 1
      BY <1>2, <2>1
    <2> QED
      BY <2>1, <2>2, <2>3
  <1> QED
    BY <1>4, <1>5 DEF Tell, Listens, Live

-----------------------------------------------------------------------------
(* What a step of the route sync leaves its goroutine with.                *)
SyncType == [pc : SyncSteps, kind : {"new", "del"}, todo : SUBSET Entries,
             entry : Entries \cup {NoEntry}, target : Metrics]

Becomes(pc, kind, todo, entry) ==
    /\ sync' \in SyncType
    /\ sync'.pc = pc
    /\ sync'.kind = kind
    /\ sync'.todo = todo
    /\ sync'.entry = entry

AfterHandle(e) == IF sync.kind = "new" /\ IsGateway(e) THEN "add"
                  ELSE IF sync.kind = "new" THEN "copy" ELSE "uncopy"

LEMMA IdleSyncType ==
    ASSUME NEW p \in SyncSteps, NEW t \in SUBSET Entries,
           sync' = [IdleSync EXCEPT !.pc = p, !.todo = t]
    PROVE  Becomes(p, "new", t, NoEntry)
  BY DEF IdleSync, Becomes, SyncType, Metrics

LEMMA LoopFacts ==
    ASSUME TypeOK, Bootstrap \/ Deadline \/ BatchDone
    PROVE  Becomes("loop", "new", {}, NoEntry)
  <1>1. sync' = IdleSync
    BY DEF Bootstrap, Deadline, BatchDone
  <1> QED
    BY <1>1 DEF IdleSync, Becomes, SyncType, Metrics, SyncSteps

LEMMA LookFacts ==
    ASSUME TypeOK, LookAtContext
    PROVE  \/ stopping /\ Becomes("clean", "new", own, NoEntry)
           \/ ~stopping /\ Becomes("receive", "new", {}, NoEntry)
  <1>1. CASE stopping
    <2>1. sync' = [IdleSync EXCEPT !.pc = "clean", !.todo = own]
      BY <1>1 DEF LookAtContext
    <2> QED
      BY <1>1, <2>1, IdleSyncType DEF TypeOK, SyncSteps
  <1>2. CASE ~stopping
    <2>1. sync' = [IdleSync EXCEPT !.pc = "receive"]
      BY <1>2 DEF LookAtContext
    <2> QED
      BY <1>2, <2>1 DEF IdleSync, Becomes, SyncType, Metrics, SyncSteps
  <1> QED
    BY <1>1, <1>2

LEMMA EndFacts ==
    ASSUME TypeOK
    PROVE  /\ CleanFails => Becomes("ended", "new", {}, NoEntry)
           /\ CleanDone => Becomes("stopped", "new", {}, NoEntry)
  BY DEF CleanFails, CleanDone, IdleSync, Becomes, SyncType, Metrics, SyncSteps

LEMMA ReceiveFacts ==
    ASSUME TypeOK, Receive
    PROVE  /\ Becomes("batch", queue[1].kind, queue[1].entries, sync.entry)
           /\ queue[1] \in Messages
  <1>1. Head(queue) = queue[1] /\ queue[1] \in Messages /\ queue # <<>>
    BY QueueTailed DEF Receive, TypeOK
  <1>2. sync' = [sync EXCEPT !.pc = "batch", !.kind = queue[1].kind,
                             !.todo = queue[1].entries]
    BY <1>1 DEF Receive
  <1>3. sync \in SyncType
    BY DEF TypeOK, SyncType
  <1> QED
    BY <1>1, <1>2, <1>3 DEF Becomes, SyncType, Messages, SyncSteps

LEMMA HandleFacts ==
    ASSUME TypeOK, NEW e \in Entries, Handle(e)
    PROVE  /\ Becomes(AfterHandle(e), sync.kind, sync.todo \ {e}, e)
           /\ sync'.target = metric
  <1>1. sync' = [sync EXCEPT !.todo = sync.todo \ {e}, !.entry = e, !.target = metric,
                             !.pc = AfterHandle(e)]
    BY DEF Handle, AfterHandle
  <1>2. sync \in SyncType /\ metric \in Metrics
    BY DEF TypeOK, SyncType, Metrics
  <1>3. AfterHandle(e) \in SyncSteps
    BY DEF AfterHandle, SyncSteps
  <1> QED
    BY <1>1, <1>2, <1>3 DEF Becomes, SyncType

Target == <<sync.entry[1], sync.target>>

LEMMA AddFacts ==
    ASSUME TypeOK, SyncAdd
    PROVE  /\ sync'.target = sync.target
           /\ \/ /\ Target \notin main
                 /\ main' = main \cup {Target}
                 /\ Becomes("delete", sync.kind, sync.todo, sync.entry)
                 /\ Spoil(FamilyOf[sync.entry[1]], sync.entry[1] \notin installed)
              \/ /\ main' = main
                 /\ Becomes("copy", sync.kind, sync.todo, sync.entry)
                 /\ Spoil(FamilyOf[sync.entry[1]],
                          Target # sync.entry \/ sync.entry[1] \notin installed)
  <1>1. sync \in SyncType
    BY DEF TypeOK, SyncType
  <1>2. ASSUME NEW p \in SyncSteps, sync' = [sync EXCEPT !.pc = p]
        PROVE  Becomes(p, sync.kind, sync.todo, sync.entry) /\ sync'.target = sync.target
    BY <1>1, <1>2 DEF Becomes, SyncType
  <1> QED
    BY <1>2 DEF SyncAdd, Target, SyncSteps

LEMMA StepFacts ==
    ASSUME TypeOK
    PROVE  /\ SyncDelete => Becomes("copy", sync.kind, sync.todo, sync.entry)
           /\ Restore => Becomes("remove", sync.kind, sync.todo, sync.entry)
           /\ Remove => Becomes("clean", sync.kind, sync.todo, sync.entry)
  <1>1. sync \in SyncType
    BY DEF TypeOK, SyncType
  <1>2. ASSUME NEW p \in SyncSteps, sync' = [sync EXCEPT !.pc = p]
        PROVE  Becomes(p, sync.kind, sync.todo, sync.entry)
    BY <1>1, <1>2 DEF Becomes, SyncType
  <1> QED
    BY <1>2 DEF SyncDelete, Restore, Remove, SyncSteps

LEMMA CopyFacts ==
    ASSUME TypeOK, SyncCopy \/ SyncUncopy
    PROVE  Becomes("batch", sync.kind, sync.todo, NoEntry)
  <1>1. sync' = [IdleSync EXCEPT !.pc = "batch", !.kind = sync.kind, !.todo = sync.todo]
    BY DEF SyncCopy, SyncUncopy
  <1>2. sync \in SyncType
    BY DEF TypeOK, SyncType
  <1> QED
    BY <1>1, <1>2 DEF IdleSync, Becomes, SyncType, Metrics, SyncSteps

LEMMA CleanNextFacts ==
    ASSUME TypeOK, NEW e \in Entries, CleanNext(e)
    PROVE  Becomes(IF IsGateway(e) THEN "restore" ELSE "clean", sync.kind,
                   sync.todo \ {e}, e)
  <1> DEFINE p == IF IsGateway(e) THEN "restore" ELSE "clean"
  <1>1. sync' = [sync EXCEPT !.todo = sync.todo \ {e}, !.entry = e, !.pc = p]
    BY DEF CleanNext
  <1>2. sync \in SyncType /\ p \in SyncSteps
    BY DEF TypeOK, SyncType, SyncSteps
  <1>3. Becomes(p, sync.kind, sync.todo \ {e}, e)
    <2> HIDE DEF p
    <2> QED
      BY <1>1, <1>2 DEF Becomes, SyncType
  <1> QED
    BY <1>3

-----------------------------------------------------------------------------
(* Types.                                                                  *)
LEMMA TypeInit == Init => TypeInv
  <1> SUFFICES ASSUME Init PROVE TypeInv
    OBVIOUS
  <1> USE DEF Init
  <1>1. TypeOK
    <2>1. main \in SUBSET Entries
      BY OriginalAssumption DEF Entries
    <2>2. queue \in Seq(Messages) /\ Len(queue) = 0
      BY EmptySeq
    <2>3. sync \in [pc : SyncSteps, kind : {"new", "del"}, todo : SUBSET Entries,
                    entry : Entries \cup {NoEntry}, target : Metrics]
             /\ sync.pc \notin HasEntry
      BY DEF Dialled, IdleSync, SyncSteps, HasEntry, Metrics
    <2>4. change \in [Changers ->
              [pc : ChangeSteps, fam : Families, dir : {"good", "fail"},
               again : BOOLEAN, todo : SUBSET Entries,
               entry : Entries \cup {NoEntry}]]
      BY DEF IdleChange, ChangeSteps, Families
    <2>5. 0 \in 0 .. MaxExternal /\ 0 \in 0 .. MaxChanges /\ 0 \in 0 .. MaxCrashes
          /\ 0 <= MaxQueue + 1
      BY MaxQueueAssumption, MaxExternalAssumption, MaxChangesAssumption,
         MaxCrashesAssumption
    <2>6. last \in [Families -> {"good", "fail"}]
      OBVIOUS
    <2>7. /\ own = {} /\ installed \in SUBSET Routes /\ external = 0 /\ metric = "fail"
          /\ begun = 0 /\ stopping = FALSE /\ crashes = 0 /\ spoilt = {}
          /\ outside = FALSE /\ lost = FALSE /\ gone = {} /\ refused = {}
      OBVIOUS
    <2> QED
      BY <2>1, <2>2, <2>3, <2>4, <2>5, <2>6, <2>7 DEF TypeOK
  <1>2. HandInv
    BY EmptySeq, MaxQueueAssumption DEF HandInv, Dialled, IdleSync, Cleaning
  <1>3. ChangeInv
    BY DEF ChangeInv, IdleChange
  <1> QED
    BY <1>1, <1>2, <1>3 DEF TypeInv

LEMMA OperatorType ==
    ASSUME TypeInv, NEW r \in Routes, Install(r) \/ Uninstall(r)
    PROVE  TypeInv'
  <1> USE DEF TypeInv
  <1>0. OperatorActs(r)
    BY DEF Install, Uninstall
  <1>1. /\ UNCHANGED <<own, metric, sync, change, begun, stopping, crashes, last,
                       outside, gone, refused>>
        /\ external' \in 0 .. MaxExternal
        /\ spoilt' \in SUBSET Families
    <2>1. external < MaxExternal /\ external' = external + 1 /\ external \in 0 .. MaxExternal
      BY <1>0 DEF OperatorActs, TypeOK
    <2>2. external' \in 0 .. MaxExternal
      BY <2>1, MaxExternalAssumption
    <2>3. spoilt' \in {spoilt, spoilt \cup {FamilyOf[r]}}
      BY <1>0 DEF OperatorActs, Spoil
    <2>4. FamilyOf[r] \in Families /\ spoilt \subseteq Families
      BY RouteFamilyAssumption DEF TypeOK
    <2> QED
      BY <1>0, <2>2, <2>3, <2>4 DEF OperatorActs
  <1>2. /\ main' \in SUBSET Entries
        /\ installed' \in SUBSET Routes
    <2>1. CASE Install(r)
      BY <2>1, OriginalAssumption DEF Install, TypeOK, Entries
    <2>2. CASE Uninstall(r)
      BY <2>2 DEF Uninstall, TypeOK
    <2> QED
      BY <2>1, <2>2
  <1>3. /\ queue' \in Seq(Messages) /\ Len(queue') <= MaxQueue + 1
        /\ Len(queue') <= MaxQueue \/ queue' = queue
        /\ sync.pc = "dead" => queue' = queue
        /\ lost' \in BOOLEAN
    <2>1. \E kind \in {"new", "del"}, e \in Entries : Tell(kind, e)
      BY OriginalAssumption DEF Install, Uninstall, Entries
    <2>2. sync.pc = "dead" => queue' = queue
      BY <2>1 DEF Tell, Listens
    <2> QED
      BY <2>1, <2>2, TellFacts
  <1>4. TypeOK'
    BY <1>1, <1>2, <1>3 DEF TypeOK
  <1>5. HandInv'
    BY <1>1, <1>3 DEF HandInv, Cleaning
  <1>6. ChangeInv'
    BY <1>1 DEF ChangeInv
  <1> QED
    BY <1>4, <1>5, <1>6

(* Who of the route sync changes what.                                     *)
LEMMA SyncFrame ==
    ASSUME SyncRuns \/ Bootstrap
    PROVE  /\ UNCHANGED <<syncFrame, metric>>
           /\ UNCHANGED lost \/ (Bootstrap /\ lost' = TRUE)
  BY DEF SyncRuns, Bootstrap, LookAtContext, CleanFails, Deadline, Receive, Handle,
         CleanNext, BatchDone, SyncAdd, SyncDelete, SyncCopy, SyncUncopy, Restore,
         Remove, CleanDone

LEMMA WhoIsRefused ==
    ASSUME SyncRuns \/ Bootstrap
    PROVE  \/ UNCHANGED refused
           \/ /\ SyncCopy \/ Restore
              /\ refused' = refused \cup {sync.entry[1]}
              /\ UNCHANGED tables
  BY DEF SyncRuns, Bootstrap, LookAtContext, CleanFails, Deadline, Receive, Handle,
         CleanNext, BatchDone, SyncAdd, SyncDelete, SyncCopy, SyncUncopy, Restore,
         Remove, CleanDone, tables

LEMMA WhoHears ==
    ASSUME SyncRuns \/ Bootstrap
    PROVE  \/ Bootstrap /\ queue' = Append(queue, [kind |-> "new", entries |-> main])
           \/ Bootstrap /\ UNCHANGED queue /\ lost' = TRUE
           \/ Receive
           \/ UNCHANGED queue /\ ~Bootstrap
  BY DEF SyncRuns, Bootstrap, LookAtContext, CleanFails, Deadline, Handle, CleanNext,
         BatchDone, SyncAdd, SyncDelete, SyncCopy, SyncUncopy, Restore, Remove, CleanDone

LEMMA WhoSpoils ==
    ASSUME SyncRuns \/ Bootstrap
    PROVE  (\E e \in Entries : Handle(e)) \/ SyncAdd \/ UNCHANGED spoilt
  BY DEF SyncRuns, Bootstrap, LookAtContext, CleanFails, Deadline, Receive, CleanNext,
         BatchDone, SyncDelete, SyncCopy, SyncUncopy, Restore, Remove, CleanDone

LEMMA WhoMovesRoutes ==
    ASSUME SyncRuns \/ Bootstrap
    PROVE  /\ \/ SyncAdd
              \/ SyncDelete /\ main' = main \ {sync.entry}
              \/ Restore /\ main' = main \cup {sync.entry}
              \/ Remove /\ main' = main \ {<<sync.entry[1], metric>>}
              \/ UNCHANGED main
           /\ \/ SyncCopy /\ own' = own \cup {sync.entry}
              \/ SyncUncopy /\ own' = own \ {sync.entry}
              \/ \E e \in Entries : CleanNext(e) /\ own' = own \ {e}
              \/ UNCHANGED own
  BY DEF SyncRuns, Bootstrap, LookAtContext, CleanFails, Deadline, Receive, Handle,
         CleanNext, BatchDone, SyncAdd, SyncDelete, SyncCopy, SyncUncopy, Restore,
         Remove, CleanDone, tables

LEMMA SyncStepType ==
    ASSUME TypeInv, SyncRuns \/ Bootstrap
    PROVE  TypeInv'
  <1> USE DEF TypeInv
  <1> DEFINE SyncOK ==
          /\ sync \in SyncType
          /\ sync.pc \in HasEntry => sync.entry \in Entries
  <1>0. SyncOK
    BY DEF TypeOK, SyncType
  <1>1. ASSUME Bootstrap PROVE SyncOK' /\ HandInv'
    BY <1>0, <1>1, LoopFacts DEF Bootstrap, Becomes, HandInv, HasEntry, Cleaning, IsGateway, syncFrame
  <1>2. ASSUME LookAtContext PROVE SyncOK' /\ HandInv'
    BY <1>0, <1>2, LookFacts DEF LookAtContext, Becomes, HandInv, HasEntry, Cleaning, IsGateway, syncFrame
  <1>3. ASSUME CleanFails PROVE SyncOK' /\ HandInv'
    BY <1>0, <1>3, EndFacts DEF CleanFails, Becomes, HandInv, HasEntry, Cleaning, IsGateway, syncFrame
  <1>4. ASSUME Deadline PROVE SyncOK' /\ HandInv'
    BY <1>0, <1>4, LoopFacts DEF Deadline, Becomes, HandInv, HasEntry, Cleaning, IsGateway, syncFrame
  <1>5. ASSUME Receive PROVE SyncOK' /\ HandInv'
    <2>1. Becomes("batch", queue[1].kind, queue[1].entries, sync.entry)
      BY <1>5, ReceiveFacts
    <2>2. sync.entry = NoEntry
      BY <1>5 DEF HandInv, Receive
    <2>3. SyncOK'
      BY <2>1 DEF Becomes, HasEntry
    <2>4. HandInv'
      BY <2>1, <2>2 DEF Becomes, HandInv, Cleaning
    <2> QED
      BY <2>3, <2>4
  <1>6. ASSUME NEW e \in Entries, Handle(e) PROVE SyncOK' /\ HandInv'
    <2>1. Becomes(AfterHandle(e), sync.kind, sync.todo \ {e}, e)
      BY <1>6, HandleFacts
    <2>2. sync.kind \in {"new", "del"}
      BY <1>0 DEF SyncType
    <2>3. SyncOK'
      BY <2>1, <2>2 DEF Becomes, AfterHandle, SyncType, HasEntry
    <2>4. HandInv'
      BY <2>1, <2>2 DEF Becomes, AfterHandle, SyncType, HandInv, Cleaning, IsGateway
    <2> QED
      BY <2>3, <2>4
  <1>7. ASSUME NEW e \in Entries, CleanNext(e) PROVE SyncOK' /\ HandInv'
    <2>1. Becomes(IF IsGateway(e) THEN "restore" ELSE "clean", sync.kind,
                  sync.todo \ {e}, e)
      BY <1>7, CleanNextFacts
    <2>2. sync.kind = "new" /\ stopping /\ stopping'
      BY <1>0, <1>7 DEF CleanNext, HandInv, HasEntry, syncFrame, Cleaning
    <2>3. SyncOK'
      BY <2>1, <2>2 DEF Becomes, HasEntry
    <2>4. HandInv'
      BY <2>1, <2>2 DEF Becomes, HandInv, Cleaning, IsGateway
    <2> QED
      BY <2>3, <2>4
  <1>8. ASSUME BatchDone PROVE SyncOK' /\ HandInv'
    BY <1>0, <1>8, LoopFacts DEF BatchDone, Becomes, HandInv, HasEntry, Cleaning, IsGateway, syncFrame
  <1>9. ASSUME SyncAdd PROVE SyncOK' /\ HandInv'
    <2>1. \/ Becomes("delete", sync.kind, sync.todo, sync.entry)
          \/ Becomes("copy", sync.kind, sync.todo, sync.entry)
      BY <1>9, AddFacts
    <2>2. sync.kind = "new" /\ sync.entry \in Entries /\ IsGateway(sync.entry)
      <3>1. sync.pc = "add"
        BY <1>9 DEF SyncAdd
      <3> QED
        BY <1>0, <3>1 DEF HandInv, HasEntry
    <2>3. SyncOK'
      BY <2>1, <2>2 DEF Becomes, HasEntry
    <2>4. HandInv'
      BY <2>1, <2>2 DEF Becomes, HandInv, Cleaning, IsGateway
    <2> QED
      BY <2>3, <2>4
  <1>10. ASSUME SyncDelete PROVE SyncOK' /\ HandInv'
    <2>1. Becomes("copy", sync.kind, sync.todo, sync.entry)
      BY <1>10, StepFacts
    <2>2. sync.kind = "new" /\ sync.entry \in Entries
      <3>1. sync.pc = "delete"
        BY <1>10 DEF SyncDelete
      <3> QED
        BY <1>0, <3>1 DEF HandInv, HasEntry
    <2>3. SyncOK'
      BY <2>1, <2>2 DEF Becomes, HasEntry
    <2>4. HandInv'
      BY <2>1, <2>2 DEF Becomes, HandInv, Cleaning, IsGateway
    <2> QED
      BY <2>3, <2>4
  <1>11. ASSUME SyncCopy PROVE SyncOK' /\ HandInv'
    BY <1>0, <1>11, CopyFacts DEF SyncCopy, Becomes, HandInv, HasEntry, Cleaning, IsGateway, syncFrame
  <1>12. ASSUME SyncUncopy PROVE SyncOK' /\ HandInv'
    BY <1>0, <1>12, CopyFacts DEF SyncUncopy, Becomes, HandInv, HasEntry, Cleaning, IsGateway, syncFrame
  <1>13. ASSUME Restore PROVE SyncOK' /\ HandInv'
    <2>1. Becomes("remove", sync.kind, sync.todo, sync.entry)
      BY <1>13, StepFacts
    <2>2. sync.kind = "new" /\ sync.entry \in Entries /\ IsGateway(sync.entry)
          /\ stopping /\ stopping'
      <3>1. sync.pc = "restore" /\ stopping' = stopping
        BY <1>13 DEF Restore, syncFrame
      <3> QED
        BY <1>0, <3>1 DEF HandInv, HasEntry, Cleaning
    <2>3. SyncOK'
      BY <2>1, <2>2 DEF Becomes, HasEntry
    <2>4. HandInv'
      BY <2>1, <2>2 DEF Becomes, HandInv, Cleaning, IsGateway
    <2> QED
      BY <2>3, <2>4
  <1>14. ASSUME Remove PROVE SyncOK' /\ HandInv'
    BY <1>0, <1>14, StepFacts DEF Remove, Becomes, HandInv, HasEntry, Cleaning, IsGateway, syncFrame
  <1>15. ASSUME CleanDone PROVE SyncOK' /\ HandInv'
    BY <1>0, <1>15, EndFacts DEF CleanDone, Becomes, HandInv, HasEntry, Cleaning, IsGateway, syncFrame
  <1>16. SyncOK' /\ HandInv'
    BY <1>1, <1>2, <1>3, <1>4, <1>5, <1>6, <1>7, <1>8, <1>9, <1>10, <1>11, <1>12,
       <1>13, <1>14, <1>15 DEF SyncRuns
  <1>17. queue' \in Seq(Messages) /\ Len(queue') <= MaxQueue + 1
    <2>1. queue \in Seq(Messages) /\ Len(queue) <= MaxQueue + 1 /\ main \in SUBSET Entries
      BY DEF TypeOK
    <2>2. CASE Bootstrap
      <3>1. Len(queue) <= MaxQueue
        BY <2>2 DEF Bootstrap, HandInv
      <3>2. [kind |-> "new", entries |-> main] \in Messages
        BY <2>1 DEF Messages
      <3> QED
        BY <2>1, <2>2, <3>1, <3>2, QueueAppended, MaxQueueAssumption DEF Bootstrap
    <2>3. CASE Receive
      BY <2>1, <2>3, QueueTailed, MaxQueueAssumption DEF Receive
    <2> QED
      BY <2>1, <2>2, <2>3, WhoHears
  <1>18. main' \in SUBSET Entries /\ own' \in SUBSET Entries
    <2>1. main \in SUBSET Entries /\ own \in SUBSET Entries
      BY DEF TypeOK
    <2>2. CASE SyncAdd
      <3>1. sync.entry \in Entries /\ sync.target \in Metrics
        BY <1>0, <2>2 DEF SyncAdd, HasEntry, SyncType
      <3> QED
        BY <2>1, <2>2, <3>1 DEF SyncAdd, Entries
    <2>3. CASE Restore \/ SyncCopy
      <3>1. sync.entry \in Entries
        BY <1>0, <2>3 DEF Restore, SyncCopy, HasEntry
      <3> QED
        BY <2>1, <2>3, <3>1 DEF Restore, SyncCopy
    <2> QED
      BY <2>1, <2>2, <2>3, WhoMovesRoutes
  <1>19. spoilt' \in SUBSET Families
    <2>1. spoilt \in SUBSET Families
      BY DEF TypeOK
    <2>2. ASSUME NEW e \in Entries, Handle(e) PROVE spoilt' \in SUBSET Families
      BY <2>1, <2>2, RouteFamilyAssumption DEF Handle, Spoil, Entries
    <2>3. CASE SyncAdd
      <3>1. sync.entry \in Entries
        BY <1>0, <2>3 DEF SyncAdd, HasEntry
      <3>2. FamilyOf[sync.entry[1]] \in Families
        BY <3>1, RouteFamilyAssumption DEF Entries
      <3>3. spoilt' \in {spoilt, spoilt \cup {FamilyOf[sync.entry[1]]}}
        BY <2>3 DEF SyncAdd, Spoil
      <3> QED
        BY <2>1, <3>2, <3>3
    <2> QED
      BY <2>1, <2>2, <2>3, WhoSpoils
  <1>20. refused' \in SUBSET Routes /\ lost' \in BOOLEAN
    <2>1. refused \in SUBSET Routes /\ lost \in BOOLEAN
      BY DEF TypeOK
    <2>2. CASE SyncCopy \/ Restore
      <3>1. sync.entry \in Entries
        BY <1>0, <2>2 DEF SyncCopy, Restore, HasEntry
      <3> QED
        BY <2>1, <3>1, SyncFrame, WhoIsRefused DEF Entries
    <2> QED
      BY <2>1, <2>2, SyncFrame, WhoIsRefused
  <1>21. TypeOK'
    BY <1>16, <1>17, <1>18, <1>19, <1>20, SyncFrame
    DEF TypeOK, syncFrame, operator, SyncType
  <1>22. ChangeInv'
    BY SyncFrame DEF ChangeInv, syncFrame
  <1> QED
    BY <1>16, <1>21, <1>22

-----------------------------------------------------------------------------
(* What a step of a change leaves its goroutine with.                      *)
ChangeType == [pc : ChangeSteps, fam : Families, dir : {"good", "fail"},
               again : BOOLEAN, todo : SUBSET Entries,
               entry : Entries \cup {NoEntry}]

Others(c) ==
    /\ change' \in [Changers -> ChangeType]
    /\ \A d \in Changers \ {c} : change'[d] = change[d]

Continues(c, pc, todo, entry) ==
    /\ Others(c)
    /\ change'[c].pc = pc
    /\ change'[c].todo = todo
    /\ change'[c].entry = entry
    /\ change'[c].fam = change[c].fam
    /\ change'[c].dir = change[c].dir
    /\ change'[c].again = change[c].again

Idles(c) == Others(c) /\ change'[c] = IdleChange

LEMMA IdleChangeType == IdleChange \in ChangeType
  BY DEF IdleChange, ChangeType, ChangeSteps, Families

LEMMA IdleFacts ==
    ASSUME TypeOK, NEW c \in Changers, change' = [change EXCEPT ![c] = IdleChange]
    PROVE  Idles(c)
  <1>1. change \in [Changers -> ChangeType]
    BY DEF TypeOK, ChangeType
  <1> QED
    BY <1>1, IdleChangeType DEF Idles, Others

LEMMA ContinueFacts ==
    ASSUME TypeOK, NEW c \in Changers, NEW p \in ChangeSteps, NEW t \in SUBSET Entries,
           NEW e \in Entries \cup {NoEntry},
           change' = [change EXCEPT ![c] = [change[c] EXCEPT !.pc = p, !.todo = t,
                                                             !.entry = e]]
    PROVE  Continues(c, p, t, e)
  <1>1. change \in [Changers -> ChangeType]
    BY DEF TypeOK, ChangeType
  <1> DEFINE rec == [change[c] EXCEPT !.pc = p, !.todo = t, !.entry = e]
  <1>2. /\ rec \in ChangeType
        /\ rec.pc = p /\ rec.todo = t /\ rec.entry = e
        /\ rec.fam = change[c].fam /\ rec.dir = change[c].dir
        /\ rec.again = change[c].again
    <2>1. change[c] \in ChangeType
      BY <1>1
    <2> QED
      BY <2>1 DEF ChangeType
  <1>3. change' = [change EXCEPT ![c] = rec]
    OBVIOUS
  <1> HIDE DEF rec
  <1> QED
    BY <1>1, <1>2, <1>3 DEF Continues, Others

LEMMA BeginFacts ==
    ASSUME TypeOK, NEW c \in Changers, NEW f \in Families, NEW d \in {"good", "fail"},
           Begin(c, f, d)
    PROVE  /\ Others(c)
           /\ change'[c].pc = "list" /\ change'[c].fam = f /\ change'[c].dir = d
           /\ change'[c].again <=> last[f] = d
           /\ change'[c].todo = {} /\ change'[c].entry = NoEntry
  <1>1. change \in [Changers -> ChangeType]
    BY DEF TypeOK, ChangeType
  <1> DEFINE known == last[f] = d
  <1> DEFINE rec == [IdleChange EXCEPT !.pc = "list", !.fam = f, !.dir = d, !.again = known]
  <1>2. known \in BOOLEAN
    OBVIOUS
  <1>3. change' = [change EXCEPT ![c] = rec]
    BY Zenon DEF Begin
  <1>4. /\ rec \in ChangeType
        /\ rec.pc = "list" /\ rec.fam = f /\ rec.dir = d /\ rec.again = known
        /\ rec.todo = {} /\ rec.entry = NoEntry
    <2> HIDE DEF known
    <2>1. IdleChange \in ChangeType
      BY IdleChangeType
    <2>2. rec \in ChangeType /\ rec.again = known
      BY <1>2, <2>1 DEF ChangeType, ChangeSteps
    <2>3. rec.pc = "list" /\ rec.fam = f /\ rec.dir = d
      BY <2>1 DEF ChangeType
    <2>4. rec.todo = {} /\ rec.entry = NoEntry
      BY DEF IdleChange
    <2> QED
      BY <2>2, <2>3, <2>4
  <1>5. Others(c) /\ change'[c] = rec
    <2> HIDE DEF rec
    <2> QED
      BY <1>1, <1>3, <1>4 DEF Others
  <1>6. change'[c].again = known
    BY <1>4, <1>5
  <1> QED
    <2> HIDE DEF rec
    <2> QED
      BY <1>4, <1>5, <1>6

Listed(c) == IF change[c].dir = "good" THEN own \cap EntriesOf(change[c].fam)
                                       ELSE main \cap EntriesOf(change[c].fam)

LEMMA ListFacts ==
    ASSUME TypeOK, NEW c \in Changers, List(c)
    PROVE  \/ Continues(c, "add", Listed(c), change[c].entry) /\ UNCHANGED spoilt
           \/ Idles(c) /\ Spoil(change[c].fam, ~change[c].again)
  <1>1. change[c] \in ChangeType
    BY DEF TypeOK, ChangeType
  <1>2. CASE change' = [change EXCEPT ![c] = IdleChange]
             /\ Spoil(change[c].fam, ~change[c].again)
    BY <1>2, IdleFacts
  <1>3. CASE /\ change' = [change EXCEPT ![c].pc = "add", ![c].todo = Listed(c)]
             /\ UNCHANGED spoilt
    <2>1. change' = [change EXCEPT ![c] = [change[c] EXCEPT !.pc = "add",
                        !.todo = Listed(c), !.entry = change[c].entry]]
      BY <1>1, <1>3 DEF ChangeType
    <2>2. Listed(c) \in SUBSET Entries /\ change[c].entry \in Entries \cup {NoEntry}
      BY <1>1 DEF TypeOK, Listed, ChangeType
    <2> QED
      BY <1>3, <2>1, <2>2, ContinueFacts DEF ChangeSteps
  <1> QED
    BY <1>2, <1>3 DEF List, Listed

LEMMA ChangeAddFacts ==
    ASSUME TypeInv, NEW c \in Changers, NEW e \in Entries, ChangeAdd(c, e)
    PROVE  LET new == <<e[1], change[c].dir>>
           IN  \/ /\ new \notin main
                  /\ main' = main \cup {new}
                  /\ Continues(c, "delete", change[c].todo \ {e}, Source(c, e))
                  /\ Spoil(change[c].fam, e[1] \notin installed)
               \/ /\ main' = main
                  /\ Idles(c)
                  /\ Spoil(change[c].fam, ~change[c].again \/ new \notin main)
  <1> USE DEF TypeInv
  <1>1. change[c] \in ChangeType
    BY DEF TypeOK, ChangeType
  <1> DEFINE new == <<e[1], change[c].dir>>
  <1>2. CASE change' = [change EXCEPT ![c] = IdleChange] /\ main' = main
             /\ Spoil(change[c].fam, ~change[c].again \/ new \notin main)
    BY <1>2, IdleFacts
  <1>3. CASE /\ new \notin main
             /\ change' = [change EXCEPT ![c].todo = @ \ {e}, ![c].pc = "delete",
                                         ![c].entry = Source(c, e)]
             /\ main' = main \cup {new}
             /\ Spoil(change[c].fam, e[1] \notin installed)
    <2>2. change' = [change EXCEPT ![c] = [change[c] EXCEPT !.pc = "delete",
                        !.todo = change[c].todo \ {e}, !.entry = Source(c, e)]]
      BY <1>1, <1>3 DEF ChangeType
    <2>3. Source(c, e) \in Entries
      BY DEF Source, Entries, Metrics
    <2>4. change[c].todo \ {e} \in SUBSET Entries
      BY <1>1 DEF ChangeType
    <2>5. Continues(c, "delete", change[c].todo \ {e}, Source(c, e))
      BY <2>2, <2>3, <2>4, ContinueFacts DEF ChangeSteps
    <2> QED
      BY <1>3, <2>5
  <1> QED
    BY <1>2, <1>3 DEF ChangeAdd

LEMMA ChangeDeleteFacts ==
    ASSUME TypeInv, NEW c \in Changers, ChangeDelete(c)
    PROVE  /\ main' = main \ {change[c].entry}
           /\ IF change[c].entry \in main
              THEN Continues(c, "add", change[c].todo, NoEntry)
              ELSE Idles(c)
           /\ Spoil(change[c].fam, change[c].entry \notin main)
  <1> USE DEF TypeInv
  <1>1. change[c] \in ChangeType
    BY DEF TypeOK, ChangeType
  <1>2. CASE change[c].entry \in main
    <2>1. change' = [change EXCEPT ![c] = [change[c] EXCEPT !.pc = "add", !.entry = NoEntry]]
      BY <1>2 DEF ChangeDelete
    <2>2. change' = [change EXCEPT ![c] = [change[c] EXCEPT !.pc = "add",
                        !.todo = change[c].todo, !.entry = NoEntry]]
      BY <1>1, <2>1 DEF ChangeType
    <2>3. change[c].todo \in SUBSET Entries
      BY <1>1 DEF ChangeType
    <2> QED
      BY <1>2, <2>2, <2>3, ContinueFacts DEF ChangeSteps, ChangeDelete
  <1>3. CASE change[c].entry \notin main
    <2>1. change' = [change EXCEPT ![c] = IdleChange]
      BY <1>3 DEF ChangeDelete
    <2> QED
      BY <1>3, <2>1, IdleFacts DEF ChangeDelete
  <1> QED
    BY <1>2, <1>3

LEMMA ChangeDoneFacts ==
    ASSUME TypeOK, NEW c \in Changers, ChangeDone(c)
    PROVE  Idles(c)
  BY IdleFacts DEF ChangeDone

LEMMA ChangeFrame ==
    ASSUME NEW c \in Changers, ChangeRuns(c)
    PROVE  UNCHANGED <<metric, last, changeFrame>> /\ change[c].pc # "idle"
  BY DEF ChangeRuns, List, ChangeAdd, ChangeDelete, ChangeDone

LEMMA ChangeInvKept ==
    ASSUME ChangeInv, NEW c \in Changers, Others(c),
           change'[c].todo \subseteq EntriesOf(change'[c].fam),
           change'[c].pc = "delete" => change'[c].entry \in EntriesOf(change'[c].fam)
    PROVE  ChangeInv'
  BY DEF ChangeInv, Others

LEMMA SourceIn ==
    ASSUME NEW c, NEW f, NEW e \in EntriesOf(f)
    PROVE  Source(c, e) \in EntriesOf(f) /\ Source(c, e)[1] = e[1]
  BY DEF Source, EntriesOf, Entries, Metrics, IsGateway

LEMMA SpoilType ==
    ASSUME spoilt \in SUBSET Families, NEW f \in Families, NEW P, Spoil(f, P)
    PROVE  spoilt' \in SUBSET Families
  BY DEF Spoil

LEMMA ChangeRunsType ==
    ASSUME TypeInv, NEW c \in Changers, ChangeRuns(c)
    PROVE  TypeInv'
  <1> USE DEF TypeInv
  <1> DEFINE Kept == Others(c) /\ main' \in SUBSET Entries /\ spoilt' \in SUBSET Families
  <1>0. /\ change[c] \in ChangeType /\ main \in SUBSET Entries
        /\ spoilt \in SUBSET Families /\ change[c].fam \in Families
        /\ change[c].todo \subseteq EntriesOf(change[c].fam)
        /\ change[c].dir \in Metrics
    BY DEF TypeOK, ChangeType, ChangeInv, Metrics
  <1>1. ASSUME List(c) PROVE Kept /\ ChangeInv'
    <2>1. UNCHANGED main
      BY <1>1 DEF List
    <2>2. CASE Continues(c, "add", Listed(c), change[c].entry) /\ UNCHANGED spoilt
      <3>1. ChangeInv'
        BY <2>2, ChangeInvKept DEF Continues, Listed
      <3> QED
        BY <1>0, <2>1, <2>2, <3>1 DEF Continues
    <2>3. CASE Idles(c) /\ Spoil(change[c].fam, ~change[c].again)
      <3>1. ChangeInv'
        BY <2>3, ChangeInvKept DEF Idles, IdleChange
      <3> QED
        BY <1>0, <2>1, <2>3, <3>1, SpoilType DEF Idles
    <2> QED
      BY <1>1, <2>2, <2>3, ListFacts
  <1>2. ASSUME NEW e \in Entries, ChangeAdd(c, e) PROVE Kept /\ ChangeInv'
    <2> DEFINE new == <<e[1], change[c].dir>>
    <2>1. new \in Entries /\ e \in EntriesOf(change[c].fam)
      BY <1>0, <1>2 DEF Entries, ChangeAdd
    <2>2. CASE /\ main' = main
               /\ Idles(c)
               /\ Spoil(change[c].fam, ~change[c].again \/ new \notin main)
      <3>1. ChangeInv'
        BY <2>2, ChangeInvKept DEF Idles, IdleChange
      <3> QED
        BY <1>0, <2>2, <3>1, SpoilType DEF Idles
    <2>3. CASE /\ main' = main \cup {new}
               /\ Continues(c, "delete", change[c].todo \ {e}, Source(c, e))
               /\ Spoil(change[c].fam, e[1] \notin installed)
      <3>1. ChangeInv'
        BY <1>0, <2>1, <2>3, ChangeInvKept, SourceIn DEF Continues
      <3>2. spoilt' \in SUBSET Families
        BY <1>0, <2>3, SpoilType
      <3> QED
        BY <1>0, <2>1, <2>3, <3>1, <3>2 DEF Continues
    <2> QED
      BY <1>2, <2>2, <2>3, ChangeAddFacts
  <1>3. ASSUME ChangeDelete(c) PROVE Kept /\ ChangeInv'
    <2>1. /\ main' = main \ {change[c].entry}
          /\ \/ Continues(c, "add", change[c].todo, NoEntry)
             \/ Idles(c)
          /\ Spoil(change[c].fam, change[c].entry \notin main)
      BY <1>3, ChangeDeleteFacts
    <2>2. spoilt' \in SUBSET Families
      BY <1>0, <2>1, SpoilType
    <2>3. ChangeInv'
      BY <1>0, <2>1, ChangeInvKept DEF Continues, Idles, IdleChange
    <2> QED
      BY <1>0, <2>1, <2>2, <2>3 DEF Continues, Idles
  <1>4. ASSUME ChangeDone(c) PROVE Kept /\ ChangeInv'
    <2>1. Idles(c) /\ UNCHANGED <<main, spoilt>>
      BY <1>4, ChangeDoneFacts DEF ChangeDone
    <2>2. ChangeInv'
      BY <2>1, ChangeInvKept DEF Idles, IdleChange
    <2> QED
      BY <1>0, <2>1, <2>2 DEF Idles
  <1>5. Kept /\ ChangeInv'
    BY <1>1, <1>2, <1>3, <1>4 DEF ChangeRuns
  <1>6. TypeOK'
    BY <1>5, ChangeFrame
    DEF TypeOK, ChangeType, Others, changeFrame, beginFrame, operator
  <1>7. HandInv'
    <2>1. sync.pc # "dead"
      BY ChangeFrame DEF HandInv
    <2> QED
      BY <2>1, ChangeFrame DEF HandInv, Cleaning, changeFrame, beginFrame
  <1> QED
    BY <1>5, <1>6, <1>7

LEMMA BeginType ==
    ASSUME TypeInv, NEW c \in Changers, NEW f \in Families, NEW d \in {"good", "fail"},
           Begin(c, f, d)
    PROVE  TypeInv'
  <1> USE DEF TypeInv
  <1>1. /\ Others(c)
        /\ change'[c].pc = "list" /\ change'[c].todo = {}
    BY BeginFacts
  <1>2. ChangeInv'
    BY <1>1, ChangeInvKept
  <1>3. spoilt' \in SUBSET Families /\ last' \in [Families -> {"good", "fail"}]
    BY SpoilType DEF Begin, TypeOK
  <1>4. begun' \in 0 .. MaxChanges
    BY MaxChangesAssumption DEF Begin, TypeOK
  <1>5. outside' \in BOOLEAN
    BY DEF Begin, TypeOK
  <1>6. metric' \in {"good", "fail"} /\ UNCHANGED <<main, beginFrame>> /\ sync.pc # "dead"
    BY DEF Begin
  <1>7. TypeOK'
    BY <1>1, <1>3, <1>4, <1>5, <1>6 DEF TypeOK, ChangeType, Others, beginFrame, operator
  <1>8. HandInv'
    BY <1>6 DEF HandInv, Cleaning, beginFrame
  <1> QED
    BY <1>2, <1>7, <1>8

(* Stop, a crash and a new process.                                        *)
LEMMA LifeType ==
    ASSUME TypeInv, Stop \/ Crash \/ Restart
    PROVE  TypeInv'
  <1> USE DEF TypeInv
  <1>1. CASE Stop
    <2>1. stopping' = TRUE /\ outside' \in BOOLEAN
          /\ UNCHANGED <<tables, operator, metric, queue, sync, change, begun, crashes,
                         last, spoilt, lost, gone, refused>>
      BY <1>1 DEF Stop, TypeOK
    <2>2. TypeOK'
      BY <2>1 DEF TypeOK, tables, operator
    <2> QED
      BY <2>1, <2>2 DEF HandInv, ChangeInv, Cleaning
  <1>2. CASE Crash
    <2>1. Becomes("dead", "new", {}, NoEntry)
      <3>1. sync' = [IdleSync EXCEPT !.pc = "dead"]
        BY <1>2 DEF Crash
      <3> QED
        BY <3>1 DEF IdleSync, Becomes, SyncType, Metrics, SyncSteps
    <2>2. change' = [c \in Changers |-> IdleChange]
      BY <1>2 DEF Crash
    <2>3. change' \in [Changers -> ChangeType] /\ \A c \in Changers : change'[c] = IdleChange
      BY <2>2, IdleChangeType
    <2>4. crashes' \in 0 .. MaxCrashes
      BY <1>2, MaxCrashesAssumption DEF Crash, TypeOK
    <2>5. queue' = <<>> /\ Len(queue') = 0 /\ queue' \in Seq(Messages)
      BY <1>2, EmptySeq DEF Crash
    <2>6. /\ stopping' = FALSE /\ lost' = FALSE
          /\ outside' \in BOOLEAN
          /\ UNCHANGED <<tables, operator, metric, begun, last, spoilt, refused>>
      BY <1>2 DEF Crash, TypeOK
    <2>7. gone' \in SUBSET Routes
      BY <1>2 DEF Crash, TypeOK
    <2>8. TypeOK'
      <3>1. 0 <= MaxQueue + 1
        BY MaxQueueAssumption
      <3>2. sync' \in SyncType /\ sync'.pc \notin HasEntry
        BY <2>1 DEF Becomes, HasEntry
      <3> QED
        BY <2>3, <2>4, <2>5, <2>6, <2>7, <3>1, <3>2
        DEF TypeOK, SyncType, ChangeType, tables, operator
    <2>9. HandInv'
      BY <2>1, <2>3, <2>5 DEF HandInv, Cleaning, Becomes, IdleChange
    <2>10. ChangeInv'
      BY <2>3 DEF ChangeInv, IdleChange
    <2> QED
      BY <2>8, <2>9, <2>10
  <1>3. CASE Restart
    <2>1. sync' \in Dialled /\ metric' = "fail" /\ last' = [f \in Families |-> "fail"]
          /\ UNCHANGED <<tables, operator, queue, change, begun, stopping, crashes,
                         outside, lost, gone, refused>>
          /\ sync.pc = "dead"
      BY <1>3 DEF Restart
    <2>2. sync' \in SyncType /\ sync'.pc \in {"boot", "ended"}
          /\ sync'.kind = "new" /\ sync'.todo = {} /\ sync'.entry = NoEntry
      BY <2>1 DEF Dialled, IdleSync, SyncType, SyncSteps, Metrics
    <2>3. spoilt' \in SUBSET Families
      BY <1>3, GatewayRoutesAssumption, RouteFamilyAssumption DEF Restart
    <2>4. last' \in [Families -> {"good", "fail"}]
      BY <2>1
    <2>5. TypeOK'
      BY <2>1, <2>2, <2>3, <2>4 DEF TypeOK, SyncType, HasEntry, tables, operator
    <2>6. queue = <<>> /\ Len(queue) = 0
      BY <2>1, EmptySeq DEF HandInv
    <2>7. HandInv'
      BY <2>1, <2>2, <2>6, MaxQueueAssumption DEF HandInv, Cleaning
    <2> QED
      BY <2>1, <2>5, <2>7 DEF ChangeInv
  <1> QED
    BY <1>1, <1>2, <1>3

LEMMA TypeStep == TypeInv /\ [Next]_vars => TypeInv'
  <1> SUFFICES ASSUME TypeInv, [Next]_vars PROVE TypeInv'
    OBVIOUS
  <1>1. CASE Operator
    BY <1>1, OperatorType DEF Operator
  <1>2. CASE UNCHANGED vars
    BY <1>2 DEF vars, tables, operator, history, TypeInv, TypeOK, HandInv, ChangeInv, Cleaning
  <1>3. CASE \E c \in Changers : ChangeRuns(c)
    BY <1>3, ChangeRunsType
  <1>4. CASE \E c \in Changers, f \in Families, d \in {"good", "fail"} : Begin(c, f, d)
    BY <1>4, BeginType
  <1> QED
    BY <1>1, <1>2, <1>3, <1>4, SyncStepType, LifeType DEF Next

(* Every variable of the route sync stays in its type: the messages, what  *)
(* its goroutine and those of the server have in their hands               *)
(* (routesync/route.go, server/nexthop.go).                                *)
THEOREM RouteSyncTypeCorrect == Spec => []TypeOK
  <1>1. TypeInv => TypeOK
    BY DEF TypeInv
  <1> QED
    BY <1>1, TypeInit, TypeStep, PTL DEF Spec

-----------------------------------------------------------------------------
(* Counting the pairs of a route and those who are about to delete one.    *)
LEMMA EntryFacts ==
    ASSUME NEW e \in Entries
    PROVE  e[1] \in Routes /\ e[2] \in Metrics /\ e = <<e[1], e[2]>>
  BY DEF Entries

LEMMA FinitePairs ==
    ASSUME NEW S \in SUBSET Metrics
    PROVE  IsFiniteSet(S) /\ Cardinality(S) \in Nat
  <1>1. IsFiniteSet({}) /\ Metrics = (({} \cup {"good"}) \cup {"fail"}) \cup {"other"}
    BY FS_EmptySet DEF Metrics
  <1>2. IsFiniteSet({} \cup {"good"})
    BY <1>1, FS_AddElement
  <1>3. IsFiniteSet(({} \cup {"good"}) \cup {"fail"})
    BY <1>2, FS_AddElement
  <1>4. IsFiniteSet(Metrics)
    BY <1>1, <1>3, FS_AddElement
  <1> QED
    BY <1>4, FS_Subset, FS_CardinalityType

LEMMA FiniteChangers ==
    ASSUME NEW S \in SUBSET Changers
    PROVE  IsFiniteSet(S) /\ Cardinality(S) \in Nat
  BY ChangersAssumption, FS_Subset, FS_CardinalityType

LEMMA CountTypes ==
    ASSUME NEW r
    PROVE  /\ PairsOf(r) \in SUBSET Metrics /\ Cardinality(PairsOf(r)) \in Nat
           /\ PairsOf(r)' \in SUBSET Metrics /\ Cardinality(PairsOf(r))' \in Nat
           /\ Deleters(r) \in SUBSET Changers /\ Cardinality(Deleters(r)) \in Nat
           /\ Deleters(r)' \in SUBSET Changers /\ Cardinality(Deleters(r))' \in Nat
  <1>1. /\ PairsOf(r) \in SUBSET Metrics /\ PairsOf(r)' \in SUBSET Metrics
        /\ Deleters(r) \in SUBSET Changers /\ Deleters(r)' \in SUBSET Changers
    BY DEF PairsOf, Deleters
  <1> QED
    BY <1>1, FinitePairs, FiniteChangers

LEMMA PairAdded ==
    ASSUME NEW e \in Entries, main' = main \cup {e}, NEW r
    PROVE  /\ PairsOf(r)' = IF r = e[1] THEN PairsOf(r) \cup {e[2]} ELSE PairsOf(r)
           /\ Cardinality(PairsOf(r))' = IF r = e[1] /\ e \notin main
                                         THEN Cardinality(PairsOf(r)) + 1
                                         ELSE Cardinality(PairsOf(r))
  <1>1. PairsOf(r)' = IF r = e[1] THEN PairsOf(r) \cup {e[2]} ELSE PairsOf(r)
    BY EntryFacts DEF PairsOf
  <1>2. r = e[1] => (e[2] \in PairsOf(r) <=> e \in main)
    BY EntryFacts DEF PairsOf
  <1>3. IsFiniteSet(PairsOf(r))
    BY CountTypes, FinitePairs
  <1> QED
    BY <1>1, <1>2, <1>3, FS_AddElement

LEMMA PairRemoved ==
    ASSUME NEW e \in Entries, main' = main \ {e}, NEW r
    PROVE  /\ PairsOf(r)' = IF r = e[1] THEN PairsOf(r) \ {e[2]} ELSE PairsOf(r)
           /\ Cardinality(PairsOf(r))' = IF r = e[1] /\ e \in main
                                         THEN Cardinality(PairsOf(r)) - 1
                                         ELSE Cardinality(PairsOf(r))
  <1>1. PairsOf(r)' = IF r = e[1] THEN PairsOf(r) \ {e[2]} ELSE PairsOf(r)
    BY EntryFacts DEF PairsOf
  <1>2. r = e[1] => (e[2] \in PairsOf(r) <=> e \in main)
    BY EntryFacts DEF PairsOf
  <1>3. IsFiniteSet(PairsOf(r))
    BY CountTypes, FinitePairs
  <1> QED
    BY <1>1, <1>2, <1>3, FS_RemoveElement

LEMMA DeletersKept ==
    ASSUME NEW c \in Changers, Others(c), change[c].pc # "delete",
           change'[c].pc # "delete", NEW r
    PROVE  Deleters(r)' = Deleters(r)
  BY DEF Deleters, Others

LEMMA DeleterAdded ==
    ASSUME NEW c \in Changers, Others(c), change[c].pc # "delete",
           change'[c].pc = "delete", NEW r
    PROVE  Cardinality(Deleters(r))' = IF r = change'[c].entry[1]
                                       THEN Cardinality(Deleters(r)) + 1
                                       ELSE Cardinality(Deleters(r))
  <1>1. /\ c \notin Deleters(r)
        /\ Deleters(r)' = IF r = change'[c].entry[1] THEN Deleters(r) \cup {c}
                                                     ELSE Deleters(r)
    BY DEF Deleters, Others
  <1>2. IsFiniteSet(Deleters(r))
    BY CountTypes, FiniteChangers
  <1> QED
    BY <1>1, <1>2, FS_AddElement

LEMMA DeleterRemoved ==
    ASSUME NEW c \in Changers, Others(c), change[c].pc = "delete",
           change'[c].pc # "delete", NEW r
    PROVE  Cardinality(Deleters(r))' = IF r = change[c].entry[1]
                                       THEN Cardinality(Deleters(r)) - 1
                                       ELSE Cardinality(Deleters(r))
  <1>1. /\ r = change[c].entry[1] => c \in Deleters(r)
        /\ Deleters(r)' = IF r = change[c].entry[1] THEN Deleters(r) \ {c}
                                                    ELSE Deleters(r)
    BY DEF Deleters, Others
  <1>2. IsFiniteSet(Deleters(r))
    BY CountTypes, FiniteChangers
  <1> QED
    BY <1>1, <1>2, FS_RemoveElement

LEMMA CountSame ==
    ASSUME NEW r, Counts(r),
           main' = main, installed' = installed, Deleters(r)' = Deleters(r),
           ~SyncDeletes(r), ~SyncDeletes(r)'
    PROVE  Counts(r)'
  <1>1. PairsOf(r)' = PairsOf(r)
    BY DEF PairsOf
  <1> QED
    BY <1>1 DEF Counts, Bit

LEMMA SyncCount ==
    ASSUME TypeInv, CountInv, SyncRuns \/ Bootstrap
    PROVE  CountInv'
  <1> SUFFICES ASSUME ~Cleaning', NEW r \in Routes \ gone'
               PROVE  Counts(r)'
    BY DEF CountInv
  <1>1. gone' = gone /\ installed' = installed /\ Deleters(r)' = Deleters(r)
    BY SyncFrame DEF syncFrame, operator, Deleters
  <1>2. CASE SyncAdd
    <2> DEFINE e == sync.entry
    <2>1. e \in Entries /\ sync.target \in Metrics /\ sync.pc = "add"
      BY <1>2 DEF SyncAdd, TypeInv, TypeOK, HasEntry
    <2>2. Target \in Entries /\ Target[1] = e[1]
      BY <2>1 DEF Entries, Target
    <2>3. Counts(r) /\ ~SyncDeletes(r)
      BY <1>1, <2>1 DEF CountInv, Cleaning, SyncDeletes
    <2>4. CASE /\ Target \notin main
               /\ main' = main \cup {Target}
               /\ sync'.pc = "delete" /\ sync'.entry = e
      <3>1. Cardinality(PairsOf(r))' = IF r = e[1] THEN Cardinality(PairsOf(r)) + 1
                                                   ELSE Cardinality(PairsOf(r))
        BY <2>2, <2>4, PairAdded
      <3>2. SyncDeletes(r)' <=> r = e[1]
        BY <2>4 DEF SyncDeletes
      <3> QED
        BY <1>1, <2>3, <3>1, <3>2, CountTypes DEF Counts, Bit
    <2>5. CASE main' = main /\ sync'.pc = "copy"
      BY <1>1, <2>3, <2>5, CountSame DEF SyncDeletes
    <2> QED
      BY <1>2, <2>4, <2>5, AddFacts DEF Becomes, TypeInv
  <1>3. CASE SyncDelete
    <2> DEFINE e == sync.entry
    <2>1. e \in Entries /\ sync.pc = "delete" /\ main' = main \ {e}
      BY <1>3 DEF SyncDelete, TypeInv, TypeOK, HasEntry
    <2>2. sync'.pc = "copy"
      BY <1>3, StepFacts DEF Becomes, TypeInv
    <2>3. Counts(r)
      BY <1>1, <2>1 DEF CountInv, Cleaning
    <2>4. Cardinality(PairsOf(r))' = IF r = e[1] /\ e \in main
                                     THEN Cardinality(PairsOf(r)) - 1
                                     ELSE Cardinality(PairsOf(r))
      BY <2>1, PairRemoved
    <2>5. ~SyncDeletes(r)' /\ (SyncDeletes(r) <=> r = e[1])
      BY <2>1, <2>2 DEF SyncDeletes
    <2> QED
      BY <1>1, <2>3, <2>4, <2>5, CountTypes DEF Counts, Bit
  <1>4. CASE ~SyncAdd /\ ~SyncDelete
    <2>1. ~Cleaning /\ sync.pc # "delete" /\ sync'.pc # "delete" /\ main' = main
      <3>1. CASE Bootstrap \/ Deadline \/ BatchDone
        BY <3>1, LoopFacts DEF Bootstrap, Deadline, BatchDone, Becomes, Cleaning, tables,
           TypeInv
      <3>2. CASE LookAtContext
        BY <3>2, LookFacts DEF LookAtContext, Becomes, Cleaning, tables, TypeInv
      <3>3. CASE CleanFails
        BY <3>3, EndFacts DEF CleanFails, Becomes, Cleaning, tables, TypeInv
      <3>4. CASE Receive
        BY <3>4, ReceiveFacts DEF Receive, Becomes, Cleaning, tables, TypeInv
      <3>5. ASSUME NEW e \in Entries, Handle(e)
            PROVE  ~Cleaning /\ sync.pc # "delete" /\ sync'.pc # "delete" /\ main' = main
        <4>1. Becomes(AfterHandle(e), sync.kind, sync.todo \ {e}, e)
          BY <3>5, HandleFacts DEF TypeInv
        <4>2. sync.pc = "batch" /\ main' = main
          BY <3>5 DEF Handle, tables
        <4> QED
          BY <4>1, <4>2 DEF Becomes, AfterHandle, Cleaning
      <3>6. CASE SyncCopy \/ SyncUncopy
        BY <3>6, CopyFacts DEF SyncCopy, SyncUncopy, Becomes, Cleaning, tables, TypeInv
      <3>7. CASE Restore \/ Remove
        BY <3>7, StepFacts DEF Becomes, Cleaning, TypeInv
      <3>8. CASE CleanDone
        BY <3>8, EndFacts DEF Becomes, Cleaning, TypeInv
      <3>9. ASSUME NEW e \in Entries, CleanNext(e) PROVE FALSE
        <4>1. sync'.pc \in {"restore", "clean"}
          BY <3>9, CleanNextFacts DEF Becomes, TypeInv
        <4> QED
          BY <4>1 DEF Cleaning
      <3> QED
        BY <1>4, <3>1, <3>2, <3>3, <3>4, <3>5, <3>6, <3>7, <3>8, <3>9 DEF SyncRuns
    <2>2. Counts(r)
      BY <1>1, <2>1 DEF CountInv
    <2> QED
      BY <1>1, <2>1, <2>2, CountSame DEF SyncDeletes
  <1> QED
    BY <1>2, <1>3, <1>4

LEMMA ChangeCount ==
    ASSUME TypeInv, CountInv, NEW c \in Changers, ChangeRuns(c)
    PROVE  CountInv'
  <1> SUFFICES ASSUME ~Cleaning', NEW r \in Routes \ gone'
               PROVE  Counts(r)'
    BY DEF CountInv
  <1>1. UNCHANGED <<sync, installed, gone>> /\ Counts(r)
    BY ChangeFrame DEF changeFrame, beginFrame, operator, CountInv, Cleaning
  <1>2. SyncDeletes(r)' <=> SyncDeletes(r)
    BY <1>1 DEF SyncDeletes
  <1>3. ASSUME Deleters(r)' = Deleters(r), main' = main PROVE Counts(r)'
    BY <1>1, <1>2, <1>3 DEF Counts, Bit, PairsOf
  <1>4. CASE List(c)
    <2>1. Continues(c, "add", Listed(c), change[c].entry) \/ Idles(c)
      BY <1>4, ListFacts DEF TypeInv
    <2>2. main' = main /\ change[c].pc = "list"
      BY <1>4 DEF List
    <2> QED
      BY <1>3, <2>1, <2>2, DeletersKept DEF Continues, Idles, IdleChange
  <1>5. CASE ChangeDone(c)
    <2>1. Idles(c) /\ main' = main /\ change[c].pc = "add"
      BY <1>5, ChangeDoneFacts DEF ChangeDone, TypeInv
    <2> QED
      BY <1>3, <2>1, DeletersKept DEF Idles, IdleChange
  <1>6. ASSUME NEW e \in Entries, ChangeAdd(c, e) PROVE Counts(r)'
    <2> DEFINE new == <<e[1], change[c].dir>>
    <2>1. new \in Entries /\ new[1] = e[1] /\ change[c].pc = "add"
      BY <1>6 DEF ChangeAdd, TypeInv, TypeOK, Entries, Metrics
    <2>2. CASE Idles(c) /\ main' = main
      BY <1>3, <2>1, <2>2, DeletersKept DEF Idles, IdleChange
    <2>3. CASE /\ new \notin main
               /\ main' = main \cup {new}
               /\ Continues(c, "delete", change[c].todo \ {e}, Source(c, e))
      <3>2. Source(c, e)[1] = e[1]
        BY DEF Source
      <3>3. Cardinality(PairsOf(r))' = IF r = e[1] THEN Cardinality(PairsOf(r)) + 1
                                                   ELSE Cardinality(PairsOf(r))
        BY <2>1, <2>3, PairAdded
      <3>4. Cardinality(Deleters(r))' = IF r = e[1] THEN Cardinality(Deleters(r)) + 1
                                                    ELSE Cardinality(Deleters(r))
        BY <2>1, <2>3, <3>2, DeleterAdded DEF Continues
      <3> QED
        BY <1>1, <1>2, <2>3, <3>3, <3>4, CountTypes DEF Counts, Bit
    <2> QED
      BY <1>6, <2>2, <2>3, ChangeAddFacts
  <1>7. CASE ChangeDelete(c)
    <2> DEFINE e == change[c].entry
    <2>1. e \in Entries /\ change[c].pc = "delete"
      BY <1>7 DEF ChangeDelete, TypeInv, ChangeInv, EntriesOf
    <2>2. main' = main \ {e} /\ Others(c) /\ change'[c].pc # "delete"
      BY <1>7, ChangeDeleteFacts DEF Continues, Idles, IdleChange
    <2>3. Cardinality(PairsOf(r))' = IF r = e[1] /\ e \in main
                                     THEN Cardinality(PairsOf(r)) - 1
                                     ELSE Cardinality(PairsOf(r))
      BY <2>1, <2>2, PairRemoved
    <2>4. Cardinality(Deleters(r))' = IF r = e[1] THEN Cardinality(Deleters(r)) - 1
                                                  ELSE Cardinality(Deleters(r))
      BY <2>1, <2>2, DeleterRemoved
    <2> QED
      BY <1>1, <1>2, <2>3, <2>4, CountTypes DEF Counts, Bit
  <1> QED
    BY <1>4, <1>5, <1>6, <1>7 DEF ChangeRuns

LEMMA OperatorCount ==
    ASSUME TypeInv, CountInv, NEW r \in Routes, Install(r) \/ Uninstall(r)
    PROVE  CountInv'
  <1> SUFFICES ASSUME ~Cleaning', NEW q \in Routes \ gone'
               PROVE  Counts(q)'
    BY DEF CountInv
  <1>1. UNCHANGED <<sync, change, gone>>
    BY DEF Install, Uninstall, OperatorActs
  <1>2. Counts(q) /\ Deleters(q)' = Deleters(q) /\ (SyncDeletes(q)' <=> SyncDeletes(q))
    BY <1>1 DEF CountInv, Cleaning, Deleters, SyncDeletes
  <1>3. CASE Install(r)
    <2> DEFINE e == <<r, Original>>
    <2>1. e \in Entries /\ e[1] = r /\ e \notin main /\ main' = main \cup {e}
          /\ installed' = installed \cup {r} /\ r \notin installed
      BY <1>3, OriginalAssumption DEF Install, Entries
    <2>2. Cardinality(PairsOf(q))' = IF q = r THEN Cardinality(PairsOf(q)) + 1
                                              ELSE Cardinality(PairsOf(q))
      BY <2>1, PairAdded
    <2> QED
      BY <1>2, <2>1, <2>2, CountTypes DEF Counts, Bit
  <1>4. CASE Uninstall(r)
    <2>1. PICK m \in Metrics : <<r, m>> \in main /\ main' = main \ {<<r, m>>}
      BY <1>4 DEF Uninstall
    <2> DEFINE e == <<r, m>>
    <2>2. e \in Entries /\ e[1] = r
          /\ installed' = installed \ {r} /\ r \in installed
      BY <1>4, <2>1 DEF Uninstall, Entries
    <2>3. Cardinality(PairsOf(q))' = IF q = r THEN Cardinality(PairsOf(q)) - 1
                                              ELSE Cardinality(PairsOf(q))
      BY <2>1, <2>2, PairRemoved
    <2> QED
      BY <1>2, <2>2, <2>3, CountTypes DEF Counts, Bit
  <1> QED
    BY <1>3, <1>4

LEMMA NoDeleters ==
    ASSUME NEW r
    PROVE  /\ (\A c \in Changers : change[c].pc = "idle") => Cardinality(Deleters(r)) = 0
           /\ (\A c \in Changers : change'[c].pc = "idle") => Cardinality(Deleters(r))' = 0
  <1>1. /\ (\A c \in Changers : change[c].pc = "idle") => Deleters(r) = {}
        /\ (\A c \in Changers : change'[c].pc = "idle") => Deleters(r)' = {}
    BY DEF Deleters
  <1> QED
    BY <1>1, FS_EmptySet

LEMMA PairsNotEmpty ==
    ASSUME NEW r
    PROVE  PairsOf(r) # {} <=> Cardinality(PairsOf(r)) >= 1
  BY CountTypes, FinitePairs, FS_EmptySet

LEMMA LifeCount ==
    ASSUME TypeInv, CountInv, Stop \/ Crash \/ Restart
    PROVE  CountInv'
  <1> SUFFICES ASSUME ~Cleaning', NEW r \in Routes \ gone'
               PROVE  Counts(r)'
    BY DEF CountInv
  <1>1. CASE Stop
    BY <1>1 DEF Stop, tables, operator, CountInv, Counts, Cleaning, PairsOf, Deleters,
       SyncDeletes
  <1>2. CASE Crash
    <2>1. sync'.pc = "dead" /\ change' = [c \in Changers |-> IdleChange]
          /\ UNCHANGED <<main, installed>>
          /\ gone' = gone \cup {q \in installed : PairsOf(q) = {}}
      BY <1>2 DEF Crash, IdleSync, tables, operator
    <2>2. Cardinality(Deleters(r))' = 0
      BY <2>1, NoDeleters DEF IdleChange
    <2>3. r \in installed => Cardinality(PairsOf(r)) >= 1
      BY <2>1, PairsNotEmpty
    <2>4. PairsOf(r)' = PairsOf(r) /\ ~SyncDeletes(r)'
      BY <2>1 DEF PairsOf, SyncDeletes
    <2> QED
      BY <2>1, <2>2, <2>3, <2>4, CountTypes DEF Counts, Bit
  <1>3. CASE Restart
    <2>1. sync.pc = "dead" /\ sync'.pc \in {"boot", "ended"}
          /\ UNCHANGED <<tables, operator, change, gone>>
      BY <1>3 DEF Restart, Dialled, IdleSync
    <2>2. Counts(r)
      BY <2>1 DEF CountInv, Cleaning
    <2> QED
      BY <2>1, <2>2, CountSame DEF SyncDeletes, Deleters, tables, operator
  <1> QED
    BY <1>1, <1>2, <1>3

LEMMA BeginCount ==
    ASSUME TypeInv, CountInv, NEW c \in Changers, NEW f \in Families, NEW d \in {"good", "fail"},
           Begin(c, f, d)
    PROVE  CountInv'
  <1> SUFFICES ASSUME ~Cleaning', NEW r \in Routes \ gone'
               PROVE  Counts(r)'
    BY DEF CountInv
  <1>1. UNCHANGED <<main, installed, gone, sync>> /\ change[c].pc = "idle"
    BY DEF Begin, beginFrame, operator
  <1>2. Deleters(r)' = Deleters(r)
    BY <1>1, BeginFacts, DeletersKept DEF TypeInv
  <1>3. Counts(r)
    BY <1>1 DEF CountInv, Cleaning
  <1> QED
    BY <1>1, <1>2, <1>3 DEF Counts, PairsOf, SyncDeletes

LEMMA CountInit == Init => CountInv
  <1> SUFFICES ASSUME Init, NEW r \in Routes
               PROVE  Counts(r)
    BY DEF CountInv
  <1>1. main = installed \X {Original} /\ change = [c \in Changers |-> IdleChange]
        /\ sync.pc # "delete"
    BY DEF Init, Dialled, IdleSync
  <1>2. Cardinality(Deleters(r)) = 0
    BY <1>1, NoDeleters DEF IdleChange
  <1>3. r \in installed => Cardinality(PairsOf(r)) >= 1
    <2>1. r \in installed => Original \in PairsOf(r)
      BY <1>1, OriginalAssumption DEF PairsOf
    <2> QED
      BY <2>1, PairsNotEmpty
  <1> QED
    BY <1>1, <1>2, <1>3, CountTypes DEF Counts, Bit, SyncDeletes

LEMMA CountStep == TypeInv /\ CountInv /\ [Next]_vars => CountInv'
  <1> SUFFICES ASSUME TypeInv, CountInv, [Next]_vars PROVE CountInv'
    OBVIOUS
  <1>1. CASE UNCHANGED vars
    BY <1>1 DEF vars, tables, operator, history, CountInv, Counts, Cleaning, PairsOf,
       Deleters, SyncDeletes
  <1>2. CASE Operator
    BY <1>2, OperatorCount DEF Operator
  <1>3. CASE \E c \in Changers : ChangeRuns(c)
    BY <1>3, ChangeCount
  <1>4. CASE \E c \in Changers, f \in Families, d \in {"good", "fail"} : Begin(c, f, d)
    BY <1>4, BeginCount
  <1> QED
    BY <1>1, <1>2, <1>3, <1>4, SyncCount, LifeCount DEF Next

-----------------------------------------------------------------------------
(* While the program stops.                                                *)
LEMMA SyncMoves ==
    ASSUME TypeInv, SyncRuns \/ Bootstrap
    PROVE  /\ sync.pc \notin {"dead", "stopped", "ended"}
           /\ sync'.pc \notin {"dead", "boot"}
           /\ Cleaning => Cleaning'
           /\ Cleaning' => Cleaning \/ LookAtContext
           /\ Live' => Live
  <1> DEFINE Goal ==
          /\ sync.pc \notin {"dead", "stopped", "ended"}
          /\ sync'.pc \notin {"dead", "boot"}
          /\ Cleaning => Cleaning'
          /\ Cleaning' => Cleaning \/ LookAtContext
          /\ Live' => Live
  <1>1. CASE Bootstrap \/ Deadline \/ BatchDone
    BY <1>1, LoopFacts DEF Bootstrap, Deadline, BatchDone, Becomes, Cleaning, Live, TypeInv
  <1>2. CASE LookAtContext
    BY <1>2, LookFacts DEF LookAtContext, Becomes, Cleaning, Live, TypeInv
  <1>3. CASE CleanFails \/ CleanDone
    BY <1>3, EndFacts DEF CleanFails, CleanDone, Becomes, Cleaning, Live, TypeInv
  <1>4. CASE Receive
    BY <1>4, ReceiveFacts DEF Receive, Becomes, Cleaning, Live, TypeInv
  <1>5. ASSUME NEW e \in Entries, Handle(e) PROVE Goal
    <2>1. sync'.pc \in {"add", "copy", "uncopy"}
      BY <1>5, HandleFacts DEF Becomes, AfterHandle, TypeInv
    <2>2. sync.pc = "batch"
      BY <1>5 DEF Handle
    <2> QED
      BY <2>1, <2>2 DEF Cleaning, Live
  <1>6. CASE SyncAdd
    <2>1. sync'.pc \in {"copy", "delete"} /\ sync.pc = "add"
      BY <1>6, AddFacts DEF SyncAdd, Becomes, TypeInv
    <2> QED
      BY <2>1 DEF Cleaning, Live
  <1>7. CASE SyncCopy \/ SyncUncopy
    BY <1>7, CopyFacts DEF SyncCopy, SyncUncopy, Becomes, Cleaning, Live, TypeInv
  <1>8. CASE SyncDelete \/ Restore \/ Remove
    BY <1>8, StepFacts DEF SyncDelete, Restore, Remove, Becomes, Cleaning, Live, TypeInv
  <1>9. ASSUME NEW e \in Entries, CleanNext(e) PROVE Goal
    <2>1. sync'.pc \in {"restore", "clean"}
      BY <1>9, CleanNextFacts DEF Becomes, TypeInv
    <2>2. sync.pc = "clean"
      BY <1>9 DEF CleanNext
    <2> QED
      BY <2>1, <2>2 DEF Cleaning, Live
  <1> QED
    BY <1>1, <1>2, <1>3, <1>4, <1>5, <1>6, <1>7, <1>8, <1>9 DEF SyncRuns

LEMMA QuietInit == Init => QuietInv
  BY DEF Init, QuietInv, IdleChange

LEMMA QuietStep == TypeInv /\ QuietInv /\ [Next]_vars => QuietInv'
  <1> SUFFICES ASSUME TypeInv, QuietInv, [Next]_vars PROVE QuietInv'
    OBVIOUS
  <1>1. CASE SyncRuns \/ Bootstrap
    BY <1>1, SyncFrame, SyncMoves DEF QuietInv, syncFrame
  <1>2. CASE Operator
    BY <1>2 DEF Operator, Install, Uninstall, OperatorActs, QuietInv
  <1>3. ASSUME NEW c \in Changers, ChangeRuns(c) PROVE QuietInv'
    BY <1>3, ChangeFrame DEF QuietInv, changeFrame, beginFrame
  <1>4. ASSUME NEW c \in Changers, NEW f \in Families, NEW d \in {"good", "fail"},
               Begin(c, f, d)
        PROVE  QuietInv'
    BY <1>4 DEF Begin, beginFrame, QuietInv
  <1>5. CASE Stop
    BY <1>5 DEF Stop, QuietInv
  <1>6. CASE Crash
    BY <1>6 DEF Crash, QuietInv, IdleChange
  <1>7. CASE Restart
    <2>1. \A c \in Changers : change'[c].pc = "idle"
      BY <1>7 DEF Restart, TypeInv, HandInv
    <2> QED
      BY <2>1 DEF QuietInv
  <1>8. CASE UNCHANGED vars
    BY <1>8 DEF vars, history, QuietInv
  <1> QED
    BY <1>1, <1>2, <1>3, <1>4, <1>5, <1>6, <1>7, <1>8 DEF Next

LEMMA NoChangeBeside ==
    ASSUME QuietInv, HandInv, NEW c \in Changers, change[c].pc # "idle", ~outside
    PROVE  ~Cleaning /\ sync.pc # "boot" /\ ~stopping
  BY DEF QuietInv, HandInv

LEMMA NonEmpty ==
    ASSUME TypeInv, CountInv, ~Cleaning, NEW r \in installed \ gone
    PROVE  PairsOf(r) # {}
  <1>1. r \in Routes \ gone
    BY DEF TypeInv, TypeOK
  <1>2. Counts(r)
    BY <1>1 DEF CountInv
  <1>3. Cardinality(PairsOf(r)) >= 1
    BY <1>2, CountTypes DEF Counts, Bit
  <1> QED
    BY <1>3, PairsNotEmpty

(* What a step of the route sync does with the entries it has in hand.     *)
LEMMA HandMoves ==
    ASSUME TypeInv, SyncRuns \/ Bootstrap, ~Receive, ~LookAtContext
    PROVE  /\ sync'.todo \subseteq sync.todo
           /\ sync'.pc \in HasEntry =>
                  /\ sync'.kind = sync.kind
                  /\ sync'.entry \in sync.todo \/ (sync.pc \in HasEntry /\ sync'.entry = sync.entry)
           /\ sync'.todo # {} => sync'.kind = sync.kind
  <1> DEFINE Kept ==
          /\ sync'.todo \subseteq sync.todo
          /\ sync'.pc \in HasEntry =>
                 /\ sync'.kind = sync.kind
                 /\ sync'.entry \in sync.todo \/ (sync.pc \in HasEntry /\ sync'.entry = sync.entry)
          /\ sync'.todo # {} => sync'.kind = sync.kind
  <1>1. CASE Bootstrap \/ Deadline \/ BatchDone
    BY <1>1, LoopFacts DEF Becomes, HasEntry, TypeInv
  <1>2. CASE CleanFails \/ CleanDone
    BY <1>2, EndFacts DEF Becomes, HasEntry, TypeInv
  <1>3. ASSUME NEW e \in Entries, Handle(e) PROVE Kept
    BY <1>3, HandleFacts DEF Handle, Becomes, TypeInv
  <1>4. CASE SyncAdd
    <2>1. sync.pc \in HasEntry
      BY <1>4 DEF SyncAdd, HasEntry
    <2> QED
      BY <1>4, <2>1, AddFacts DEF Becomes, TypeInv
  <1>5. CASE SyncCopy \/ SyncUncopy
    BY <1>5, CopyFacts DEF Becomes, HasEntry, TypeInv
  <1>6. CASE SyncDelete \/ Restore \/ Remove
    BY <1>6, StepFacts DEF SyncDelete, Restore, Remove, Becomes, HasEntry, TypeInv
  <1>7. ASSUME NEW e \in Entries, CleanNext(e) PROVE Kept
    <2>1. sync'.todo = sync.todo \ {e} /\ sync'.entry = e /\ sync'.kind = sync.kind
      BY <1>7, CleanNextFacts DEF Becomes, TypeInv
    <2> QED
      BY <1>7, <2>1 DEF CleanNext
  <1> QED
    BY <1>1, <1>2, <1>3, <1>4, <1>5, <1>6, <1>7 DEF SyncRuns

LEMMA FirstInit == Init => FirstInv
  <1> SUFFICES ASSUME Init PROVE FirstInv
    OBVIOUS
  <1>1. own = {} /\ queue = <<>> /\ main = installed \X {Original} /\ installed \subseteq Routes
    BY DEF Init
  <1>2. sync.pc \in {"boot", "ended"} /\ sync.todo = {}
    BY DEF Init, Dialled, IdleSync
  <1>3. main \subseteq Originals
    BY <1>1, OriginalAssumption DEF Originals, Entries
  <1>4. DOMAIN queue = {}
    BY <1>1
  <1> QED
    BY <1>1, <1>2, <1>3, <1>4 DEF FirstInv, HasEntry

LEMMA SyncFirst ==
    ASSUME TypeInv, FirstInv, SyncRuns \/ Bootstrap
    PROVE  FirstInv'
  <1> SUFFICES ASSUME crashes = 0, ~outside PROVE FirstInv'
    BY SyncFrame DEF FirstInv, syncFrame
  <1>0. /\ own \subseteq Originals
        /\ sync.pc = "boot" => main \subseteq Originals
        /\ \A i \in DOMAIN queue :
               queue[i].kind = "new" => queue[i].entries \subseteq Originals
        /\ sync.kind = "new" =>
               /\ sync.todo \subseteq Originals
               /\ sync.pc \in HasEntry => sync.entry \in Originals
    BY DEF FirstInv
  <1>1. sync'.pc \notin {"dead", "boot"}
    BY SyncMoves
  <1>2. own' \subseteq Originals
    <2>1. CASE SyncCopy
      <3>1. sync.kind = "new" /\ sync.pc \in HasEntry
        BY <2>1 DEF SyncCopy, TypeInv, HandInv, HasEntry
      <3> QED
        BY <1>0, <2>1, <3>1 DEF SyncCopy
    <2> QED
      BY <1>0, <2>1, WhoMovesRoutes
  <1>3. \A i \in DOMAIN queue' :
            queue'[i].kind = "new" => queue'[i].entries \subseteq Originals
    <2>1. CASE Bootstrap /\ queue' = Append(queue, [kind |-> "new", entries |-> main])
      <3> DEFINE x == [kind |-> "new", entries |-> main]
      <3>1. x \in Messages /\ x.entries \subseteq Originals
        BY <1>0, <2>1 DEF Bootstrap, Messages, TypeInv, TypeOK
      <3>2. queue' = Append(queue, x) /\ queue \in Seq(Messages)
        BY <2>1 DEF TypeInv, TypeOK
      <3> HIDE DEF x
      <3> QED
        BY <1>0, <3>1, <3>2, QueueAppended
    <2>2. CASE Receive
      BY <1>0, <2>2, QueueTailed DEF Receive, TypeInv, TypeOK
    <2> QED
      BY <1>0, <2>1, <2>2, WhoHears
  <1>4. sync'.kind = "new" =>
            /\ sync'.todo \subseteq Originals
            /\ sync'.pc \in HasEntry => sync'.entry \in Originals
    <2>1. CASE LookAtContext
      BY <1>0, <2>1, LookFacts DEF Becomes, HasEntry, TypeInv
    <2>2. CASE Receive
      <3>1. Becomes("batch", queue[1].kind, queue[1].entries, sync.entry)
        BY <2>2, ReceiveFacts DEF TypeInv
      <3>2. 1 \in DOMAIN queue
        BY <2>2, QueueTailed DEF Receive, TypeInv, TypeOK
      <3> QED
        BY <1>0, <3>1, <3>2 DEF Becomes, HasEntry
    <2>3. CASE ~LookAtContext /\ ~Receive
      BY <1>0, <2>3, HandMoves
    <2> QED
      BY <2>1, <2>2, <2>3
  <1> QED
    BY <1>1, <1>2, <1>3, <1>4 DEF FirstInv

LEMMA OperatorFirst ==
    ASSUME TypeInv, FirstInv, NEW r \in Routes, Install(r) \/ Uninstall(r)
    PROVE  FirstInv'
  <1> SUFFICES ASSUME crashes = 0, ~outside PROVE FirstInv'
    BY DEF FirstInv, Install, Uninstall, OperatorActs
  <1>0. UNCHANGED <<own, sync, crashes, outside>>
    BY DEF Install, Uninstall, OperatorActs
  <1>1. main \subseteq Originals => main' \subseteq Originals
    <2>1. <<r, Original>> \in Originals
      BY OriginalAssumption DEF Originals, Entries
    <2>2. main' \subseteq main \cup {<<r, Original>>}
      BY DEF Install, Uninstall
    <2> QED
      BY <2>1, <2>2
  <1>2. PICK kind \in {"new", "del"}, e \in Entries :
            Tell(kind, e) /\ (kind = "new" => e \in Originals)
    <2>1. CASE Install(r)
      <3>1. Tell("new", <<r, Original>>)
        BY <2>1 DEF Install
      <3>2. <<r, Original>> \in Entries /\ <<r, Original>> \in Originals
        BY OriginalAssumption DEF Originals, Entries
      <3> QED
        BY <3>1, <3>2
    <2>2. CASE Uninstall(r)
      <3>1. PICK m \in Metrics : Tell("del", <<r, m>>)
        BY <2>2 DEF Uninstall
      <3>2. <<r, m>> \in Entries
        BY DEF Entries
      <3> QED
        BY <3>1, <3>2
    <2> QED
      BY <2>1, <2>2
  <1>3. \A i \in DOMAIN queue' :
            queue'[i].kind = "new" => queue'[i].entries \subseteq Originals
    <2> DEFINE x == [kind |-> kind, entries |-> {e}]
    <2>1. x \in Messages /\ (x.kind = "new" => x.entries \subseteq Originals)
      BY <1>2 DEF Messages
    <2>2. queue' = queue \/ queue' = Append(queue, x)
      BY <1>2, TellFacts DEF TypeInv
    <2> HIDE DEF x
    <2> QED
      BY <2>1, <2>2, QueueAppended DEF FirstInv, TypeInv, TypeOK
  <1> QED
    BY <1>0, <1>1, <1>3 DEF FirstInv

LEMMA FirstStep == TypeInv /\ QuietInv /\ FirstInv /\ [Next]_vars => FirstInv'
  <1> SUFFICES ASSUME TypeInv, QuietInv, FirstInv, [Next]_vars PROVE FirstInv'
    OBVIOUS
  <1>1. CASE SyncRuns \/ Bootstrap
    BY <1>1, SyncFirst
  <1>2. CASE Operator
    BY <1>2, OperatorFirst DEF Operator
  <1>3. ASSUME NEW c \in Changers, ChangeRuns(c) PROVE FirstInv'
    <2>1. UNCHANGED <<own, sync, queue, crashes, outside>> /\ change[c].pc # "idle"
      BY <1>3, ChangeFrame DEF changeFrame, beginFrame
    <2>2. ~outside => sync.pc # "boot"
      BY <2>1, NoChangeBeside DEF TypeInv
    <2> QED
      BY <2>1, <2>2 DEF FirstInv
  <1>4. ASSUME NEW c \in Changers, NEW f \in Families, NEW d \in {"good", "fail"},
               Begin(c, f, d)
        PROVE  FirstInv'
    <2>1. UNCHANGED <<main, own, sync, queue, crashes>> /\ (outside => outside')
      BY <1>4 DEF Begin, beginFrame
    <2> QED
      BY <2>1 DEF FirstInv
  <1>5. CASE Stop
    <2>1. UNCHANGED <<main, own, sync, queue, crashes>> /\ (outside => outside')
      BY <1>5 DEF Stop, tables
    <2> QED
      BY <2>1 DEF FirstInv
  <1>6. CASE Crash
    <2>1. crashes' # 0
      BY <1>6 DEF Crash, TypeInv, TypeOK
    <2> QED
      BY <2>1 DEF FirstInv
  <1>7. CASE Restart
    BY <1>7 DEF Restart, FirstInv
  <1>8. CASE UNCHANGED vars
    BY <1>8 DEF vars, tables, history, FirstInv
  <1> QED
    BY <1>1, <1>2, <1>3, <1>4, <1>5, <1>6, <1>7, <1>8 DEF Next

-----------------------------------------------------------------------------
(* Cleanup.                                                                *)
LEMMA SyncClean ==
    ASSUME TypeInv, CountInv, FirstInv, CleanInv, SyncRuns \/ Bootstrap
    PROVE  CleanInv'
  <1> SUFFICES ASSUME Cleaning', ~outside, crashes = 0, metric # Original
               PROVE  CleanInv'
    BY SyncFrame DEF CleanInv, syncFrame
  <1>1. /\ UNCHANGED <<installed, gone>> /\ (Cleaning \/ LookAtContext)
        /\ refused \subseteq refused'
    BY SyncFrame, SyncMoves, WhoIsRefused DEF syncFrame, operator
  <1> DEFINE Full == \A r \in installed \ (gone \cup refused) : PairsOf(r) # {}
             Put == sync.pc = "remove" /\ sync.entry[1] \in installed \ refused =>
                        Orig(sync.entry[1]) \in main
  <1>2. CASE LookAtContext
    <2>1. main' = main /\ sync.pc \in {"boot", "loop"}
      BY <1>2 DEF LookAtContext, tables
    <2>2. sync'.pc = "clean"
      BY <1>2, LookFacts DEF Becomes, Cleaning, TypeInv
    <2>3. Full
      BY <2>1, NonEmpty DEF Cleaning
    <2> QED
      BY <1>1, <2>1, <2>2, <2>3 DEF CleanInv, PairsOf
  <1>3. CASE ~LookAtContext
    <2>1. Full /\ Put /\ Cleaning
      BY <1>1, <1>3 DEF CleanInv
    <2>2. CASE Restore /\ main' = main \cup {sync.entry}
      <3>1. sync.entry \in Entries /\ sync.entry \in Originals
        BY <2>2 DEF Restore, TypeInv, TypeOK, HandInv, HasEntry, FirstInv
      <3>2. sync.entry = Orig(sync.entry[1])
        BY <3>1, EntryFacts DEF Originals, Orig
      <3>3. main' = main \cup {sync.entry} /\ sync'.entry = sync.entry
        BY <2>2, StepFacts DEF Restore, Becomes, TypeInv
      <3>4. Full'
        BY <1>1, <2>1, <3>3 DEF PairsOf
      <3>5. Orig(sync'.entry[1]) \in main'
        BY <3>2, <3>3
      <3> QED
        BY <3>4, <3>5 DEF CleanInv, Orig
    <2>6. CASE Restore /\ main' = main /\ refused' = refused \cup {sync.entry[1]}
      <3>1. sync'.entry = sync.entry
        BY <2>6, StepFacts DEF Becomes, TypeInv
      <3> QED
        BY <1>1, <2>1, <2>6, <3>1 DEF CleanInv, PairsOf
    <2>3. CASE Remove
      <3> DEFINE r == sync.entry[1]
      <3>1. sync'.pc = "clean" /\ sync.pc = "remove" /\ main' = main \ {<<r, metric>>}
        BY <2>3, StepFacts DEF Remove, Becomes, TypeInv
      <3>2. ASSUME NEW q \in installed \ (gone \cup refused) PROVE PairsOf(q)' # {}
        <4>1. CASE q = r
          <5>1. Orig(r) \in main'
            BY <2>1, <3>1, <4>1 DEF Orig
          <5> QED
            BY <4>1, <5>1, OriginalAssumption DEF PairsOf, Orig
        <4>2. CASE q # r
          BY <2>1, <3>1, <4>2 DEF PairsOf
        <4> QED
          BY <4>1, <4>2
      <3> QED
        BY <1>1, <3>1, <3>2 DEF CleanInv
    <2>4. CASE CleanDone
      BY <1>1, <2>1, <2>4, EndFacts DEF CleanDone, tables, Becomes, CleanInv, PairsOf, TypeInv
    <2>5. ASSUME NEW e \in Entries, CleanNext(e) PROVE CleanInv'
      <3>1. main' = main
        BY <2>5 DEF CleanNext
      <3>2. sync'.pc # "remove"
        BY <2>5, CleanNextFacts DEF Becomes, TypeInv
      <3> QED
        BY <1>1, <2>1, <3>1, <3>2 DEF CleanInv, PairsOf
    <2> QED
      BY <1>3, <2>1, <2>2, <2>3, <2>4, <2>5, <2>6 DEF SyncRuns, Cleaning, Bootstrap, CleanFails,
         Deadline, Receive, Handle, BatchDone, SyncAdd, SyncDelete, SyncCopy, SyncUncopy,
         Restore
  <1> QED
    BY <1>2, <1>3

LEMMA OperatorClean ==
    ASSUME TypeInv, CleanInv, NEW r \in Routes, Install(r) \/ Uninstall(r)
    PROVE  CleanInv'
  <1>1. UNCHANGED <<sync, metric, outside, crashes, gone, refused>>
    BY DEF Install, Uninstall, OperatorActs
  <1> SUFFICES ASSUME Cleaning, ~outside, crashes = 0, metric # Original
               PROVE  CleanInv'
    BY <1>1 DEF CleanInv, Cleaning
  <1>2. /\ \A q \in installed \ (gone \cup refused) : PairsOf(q) # {}
        /\ sync.pc = "remove" /\ sync.entry[1] \in installed \ refused =>
               Orig(sync.entry[1]) \in main
    BY DEF CleanInv
  <1>3. CASE Install(r)
    <2>1. installed' = installed \cup {r} /\ main' = main \cup {Orig(r)}
      BY <1>3 DEF Install, Orig
    <2>2. Original \in PairsOf(r)'
      BY <2>1, OriginalAssumption DEF PairsOf, Orig
    <2>3. \A q \in installed \ (gone \cup refused) : PairsOf(q)' # {}
      BY <1>2, <2>1 DEF PairsOf
    <2>4. \A q \in installed' \ (gone' \cup refused') : PairsOf(q)' # {}
      BY <1>1, <2>1, <2>2, <2>3
    <2> QED
      BY <1>1, <1>2, <2>1, <2>4 DEF CleanInv, Orig
  <1>4. CASE Uninstall(r)
    <2>1. installed' = installed \ {r} /\ \E m \in Metrics : main' = main \ {<<r, m>>}
      BY <1>4 DEF Uninstall
    <2>2. \A q \in installed \ (gone \cup refused) : q # r => PairsOf(q)' # {}
      BY <1>2, <2>1 DEF PairsOf
    <2>3. \A q \in installed' \ (gone' \cup refused') : PairsOf(q)' # {}
      BY <1>1, <2>1, <2>2
    <2> QED
      BY <1>1, <1>2, <2>1, <2>3 DEF CleanInv, Orig
  <1> QED
    BY <1>3, <1>4

LEMMA CleanStep ==
    TypeInv /\ CountInv /\ QuietInv /\ FirstInv /\ CleanInv /\ [Next]_vars => CleanInv'
  <1> SUFFICES ASSUME TypeInv, CountInv, QuietInv, FirstInv, CleanInv, [Next]_vars
               PROVE CleanInv'
    OBVIOUS
  <1>1. CASE SyncRuns \/ Bootstrap
    BY <1>1, SyncClean
  <1>2. CASE Operator
    BY <1>2, OperatorClean DEF Operator
  <1>3. ASSUME NEW c \in Changers, ChangeRuns(c) PROVE CleanInv'
    BY <1>3, ChangeFrame, NoChangeBeside DEF CleanInv, Cleaning, changeFrame, beginFrame,
       TypeInv
  <1>4. ASSUME NEW c \in Changers, NEW f \in Families, NEW d \in {"good", "fail"},
               Begin(c, f, d)
        PROVE  CleanInv'
    <2>1. Cleaning' => outside'
      BY <1>4 DEF Begin, beginFrame, TypeInv, HandInv, Cleaning
    <2> QED
      BY <2>1 DEF CleanInv
  <1>5. CASE Stop
    <2>1. ~Cleaning'
      BY <1>5 DEF Stop, TypeInv, HandInv, Cleaning
    <2> QED
      BY <2>1 DEF CleanInv
  <1>6. CASE Crash \/ Restart
    BY <1>6 DEF Crash, Restart, Dialled, IdleSync, CleanInv, Cleaning
  <1>7. CASE UNCHANGED vars
    BY <1>7 DEF vars, tables, operator, history, CleanInv, Cleaning, PairsOf
  <1> QED
    BY <1>1, <1>2, <1>3, <1>4, <1>5, <1>6, <1>7 DEF Next

(* A route that is wanted is in the main table as long as cleanup has not  *)
(* begun, whatever metric the operator gives to routes: ChangeMetric adds  *)
(* the new pair before it deletes the old one (route.go:340-359).          *)
THEOREM ChangesLeaveNoGap ==
    Spec => [](~Cleaning => \A r \in installed \ gone : PairsOf(r) # {})
  <1>1. TypeInv /\ CountInv => (~Cleaning => \A r \in installed \ gone : PairsOf(r) # {})
    BY NonEmpty
  <1> QED
    BY <1>1, TypeInit, TypeStep, CountInit, CountStep, PTL DEF Spec

(* The whole of it, cleanup included (route.go:340 and 256-281): the route *)
(* is put back before the other pair is removed, so that only a refusal of *)
(* the kernel, or a metric the two pairs share, leaves a route missing     *)
(* there.                                                                  *)
THEOREM NeverWithoutRoute == Spec => []NoGap
  <1>1. TypeInv /\ CountInv /\ CleanInv => NoGap
    BY NonEmpty DEF NoGap, CleanInv, TypeInv, TypeOK
  <1>2. Init => CleanInv
    BY DEF Init, Dialled, IdleSync, CleanInv, Cleaning
  <1> QED
    BY <1>1, <1>2, TypeInit, TypeStep, CountInit, CountStep, QuietInit, QuietStep,
       FirstInit, FirstStep, CleanStep, PTL DEF Spec

-----------------------------------------------------------------------------
(* What the route sync still hears of a set of entries.                    *)
LEMMA TalkKept ==
    ASSUME queue' = queue, NEW S
    PROVE  (Announces(S)' <=> Announces(S)) /\ (Silent(S)' <=> Silent(S))
  BY DEF Announces, Silent, Tells

LEMMA TalkAppended ==
    ASSUME queue \in Seq(Messages), NEW x \in Messages, queue' = Append(queue, x), NEW S
    PROVE  /\ x.kind = "new" /\ x.entries \cap S # {} => Announces(S)'
           /\ ~(x.kind = "del" /\ x.entries \cap S # {}) =>
                  (Announces(S) => Announces(S)') /\ (Silent(S) => Silent(S)')
  <1>1. /\ Len(queue) \in Nat /\ Len(queue') = Len(queue) + 1
        /\ DOMAIN queue = 1 .. Len(queue) /\ DOMAIN queue' = 1 .. Len(queue')
        /\ \A i \in DOMAIN queue : queue'[i] = queue[i]
        /\ queue'[Len(queue')] = x
    BY QueueAppended
  <1>2. /\ Len(queue') \in DOMAIN queue'
        /\ \A j \in DOMAIN queue' : ~(j > Len(queue'))
        /\ \A j \in DOMAIN queue' : j \in DOMAIN queue \/ j = Len(queue')
        /\ \A j \in DOMAIN queue : j \in DOMAIN queue'
    BY <1>1
  <1>3. ASSUME x.kind = "new", x.entries \cap S # {} PROVE Announces(S)'
    BY <1>1, <1>2, <1>3 DEF Announces, Tells
  <1>4. ASSUME ~(x.kind = "del" /\ x.entries \cap S # {})
        PROVE  (Announces(S) => Announces(S)') /\ (Silent(S) => Silent(S)')
    <2>1. \A i \in DOMAIN queue : \A kind : Tells(i, kind, S)' <=> Tells(i, kind, S)
      BY <1>1 DEF Tells
    <2>2. \A j \in DOMAIN queue' : j \notin DOMAIN queue => ~Tells(j, "del", S)'
      BY <1>1, <1>2, <1>4 DEF Tells
    <2> QED
      BY <1>2, <2>1, <2>2 DEF Announces, Silent
  <1> QED
    BY <1>3, <1>4

LEMMA TalkTailed ==
    ASSUME queue \in Seq(Messages), queue # <<>>, queue' = Tail(queue), NEW S
    PROVE  /\ Announces(S) => Announces(S)' \/ (Silent(S)' /\ Tells(1, "new", S))
           /\ Silent(S) => Silent(S)' /\ ~Tells(1, "del", S)
  <1>1. /\ Len(queue) \in Nat \ {0} /\ Len(queue') = Len(queue) - 1
        /\ DOMAIN queue = 1 .. Len(queue) /\ DOMAIN queue' = 1 .. Len(queue')
        /\ \A i \in DOMAIN queue' : queue'[i] = queue[i + 1]
    BY QueueTailed
  <1>2. /\ 1 \in DOMAIN queue
        /\ \A i \in DOMAIN queue' : i + 1 \in DOMAIN queue /\ i + 1 > 1
        /\ \A i \in DOMAIN queue : i # 1 => i - 1 \in DOMAIN queue' /\ (i - 1) + 1 = i
        /\ \A i \in DOMAIN queue, j \in DOMAIN queue' : j > i - 1 => j + 1 > i
    BY <1>1
  <1>3. \A i \in DOMAIN queue' : \A kind : Tells(i, kind, S)' <=> Tells(i + 1, kind, S)
    BY <1>1 DEF Tells
  <1>4. ASSUME Announces(S) PROVE Announces(S)' \/ (Silent(S)' /\ Tells(1, "new", S))
    <2>1. PICK i \in DOMAIN queue :
              /\ Tells(i, "new", S)
              /\ \A j \in DOMAIN queue : j > i => ~Tells(j, "del", S)
      BY <1>4 DEF Announces
    <2>2. CASE i = 1
      BY <1>2, <1>3, <2>1, <2>2 DEF Silent
    <2>3. CASE i # 1
      <3>1. i - 1 \in DOMAIN queue' /\ Tells(i - 1, "new", S)'
        BY <1>2, <1>3, <2>1, <2>3
      <3>2. \A j \in DOMAIN queue' : j > i - 1 => ~Tells(j, "del", S)'
        BY <1>2, <1>3, <2>1
      <3> QED
        BY <3>1, <3>2 DEF Announces
    <2> QED
      BY <2>2, <2>3
  <1>5. Silent(S) => Silent(S)' /\ ~Tells(1, "del", S)
    BY <1>2, <1>3 DEF Silent
  <1> QED
    BY <1>4, <1>5

LEMMA BootEnds ==
    ASSUME TypeInv, SyncRuns, Live'
    PROVE  sync.pc # "boot"
  <1>1. sync.pc = "boot" => LookAtContext \/ CleanFails
    BY DEF SyncRuns, Deadline, Receive, Handle, CleanNext, BatchDone,
       SyncAdd, SyncDelete, SyncCopy, SyncUncopy, Restore, Remove, CleanDone
  <1>2. ASSUME sync.pc = "boot", LookAtContext PROVE FALSE
    <2>1. stopping
      BY <1>2 DEF LookAtContext
    <2>2. sync'.pc = "clean"
      BY <1>2, <2>1, LookFacts DEF Becomes, TypeInv
    <2> QED
      BY <2>2 DEF Live
  <1>3. ~CleanFails
    BY EndFacts DEF Becomes, Live, TypeInv
  <1> QED
    BY <1>1, <1>2, <1>3

LEMMA HeldKept ==
    ASSUME TypeInv, SyncRuns, ~Receive, Live', NEW S, Held(S),
           \A e \in S : e[1] \notin refused'
    PROVE  Held(S)'
  <1>0. sync.pc # "boot"
    BY BootEnds
  <1>1. Adding(S) \/ (own \cap S # {} /\ ~Removing(S))
    BY <1>0 DEF Held
  <1>2. CASE Deadline \/ BatchDone
    <2>1. sync'.kind = "new" /\ own' = own
      BY <1>2, LoopFacts DEF Deadline, BatchDone, Becomes, tables, TypeInv
    <2>2. ~Adding(S)
      BY <1>2 DEF Deadline, BatchDone, Adding
    <2> QED
      BY <1>1, <2>1, <2>2 DEF Held, Removing
  <1>3. CASE LookAtContext
    <2>1. sync'.kind = "new" /\ own' = own
      BY <1>3, LookFacts DEF LookAtContext, Becomes, tables, TypeInv
    <2>2. ~Adding(S)
      BY <1>0, <1>3 DEF LookAtContext, Adding
    <2> QED
      BY <1>1, <2>1, <2>2 DEF Held, Removing
  <1>4. ASSUME NEW e \in Entries, Handle(e) PROVE Held(S)'
    <2>1. /\ sync'.pc = AfterHandle(e) /\ sync'.kind = sync.kind
          /\ sync'.todo = sync.todo \ {e} /\ sync'.entry = e
      BY <1>4, HandleFacts DEF Becomes, TypeInv
    <2>2. sync.pc = "batch" /\ e \in sync.todo /\ own' = own
      BY <1>4 DEF Handle, tables
    <2>3. sync.kind \in {"new", "del"}
      BY DEF TypeInv, TypeOK
    <2>4. CASE sync.kind = "new"
      <3>1. sync'.pc \in {"add", "copy"}
        BY <2>1, <2>4 DEF AfterHandle
      <3>2. Adding(S) => Adding(S)'
        BY <2>1, <2>2, <3>1 DEF Adding
      <3>3. ~Removing(S)'
        BY <2>1, <2>4 DEF Removing
      <3> QED
        BY <1>1, <2>2, <3>2, <3>3 DEF Held
    <2>5. CASE sync.kind = "del"
      <3>1. sync'.pc = "uncopy" /\ ~Adding(S)
        BY <2>1, <2>5 DEF AfterHandle, Adding
      <3>2. Removing(S)' => Removing(S)
        BY <2>1, <2>2, <2>5, <3>1 DEF Removing
      <3> QED
        BY <1>1, <2>2, <3>1, <3>2 DEF Held
    <2> QED
      BY <2>3, <2>4, <2>5
  <1>5. CASE SyncAdd \/ SyncDelete
    <2>1. sync'.pc \in {"copy", "delete"} /\ sync'.kind = sync.kind
          /\ sync'.todo = sync.todo /\ sync'.entry = sync.entry
      <3>1. CASE SyncAdd
        BY <3>1, AddFacts DEF Becomes, TypeInv
      <3>2. CASE SyncDelete
        BY <3>2, StepFacts DEF Becomes, TypeInv
      <3> QED
        BY <1>5, <3>1, <3>2
    <2>2. sync.pc \in {"add", "delete"} /\ own' = own
      BY <1>5 DEF SyncAdd, SyncDelete
    <2>3. sync.kind = "new"
      BY <2>2 DEF TypeInv, HandInv
    <2> QED
      BY <1>1, <2>1, <2>2, <2>3 DEF Held, Adding, Removing
  <1>6. CASE SyncCopy
    <2>1. sync'.pc = "batch" /\ sync'.kind = sync.kind /\ sync'.todo = sync.todo
      BY <1>6, CopyFacts DEF Becomes, TypeInv
    <2>2. /\ sync.pc = "copy"
          /\ \/ own' = own \cup {sync.entry}
             \/ own' = own /\ sync.entry \notin S
      BY <1>6 DEF SyncCopy
    <2>3. sync.kind = "new"
      BY <2>2 DEF TypeInv, HandInv
    <2> QED
      BY <1>1, <2>1, <2>2, <2>3 DEF Held, Adding, Removing
  <1>7. CASE SyncUncopy
    <2>1. sync'.pc = "batch" /\ sync'.kind = sync.kind /\ sync'.todo = sync.todo
      BY <1>7, CopyFacts DEF Becomes, TypeInv
    <2>2. sync.pc = "uncopy" /\ own' = own \ {sync.entry}
      BY <1>7 DEF SyncUncopy
    <2>3. sync.kind = "del"
      BY <2>2 DEF TypeInv, HandInv
    <2> QED
      BY <1>1, <2>1, <2>2, <2>3 DEF Held, Adding, Removing
  <1>8. CASE CleanFails \/ CleanDone \/ Restore \/ Remove
    BY <1>8, EndFacts, StepFacts DEF Becomes, Live, TypeInv
  <1>9. ASSUME NEW e \in Entries, CleanNext(e) PROVE Held(S)'
    <2>1. sync'.pc \in {"clean", "restore"}
      BY <1>9, CleanNextFacts DEF Becomes, TypeInv
    <2> QED
      BY <2>1 DEF Live
  <1> QED
    BY <1>2, <1>3, <1>4, <1>5, <1>6, <1>7, <1>8, <1>9 DEF SyncRuns

LEMMA SyncCopied ==
    ASSUME TypeInv, SyncRuns \/ Bootstrap, Live', ~lost', NEW S, Copied(S),
           \A e \in S : e[1] \notin refused'
    PROVE  Copied(S)'
  <1>1. queue \in Seq(Messages)
    BY DEF TypeInv, TypeOK
  <1>2. CASE Bootstrap
    <2> DEFINE x == [kind |-> "new", entries |-> main]
    <2>1. x \in Messages /\ x.kind = "new" /\ x.entries = main
      BY DEF Messages, TypeInv, TypeOK
    <2>2. queue' = Append(queue, x) /\ sync.pc = "boot" /\ own' = own
      BY <1>2, Zenon DEF Bootstrap, tables
    <2>3. /\ main \cap S # {} => Announces(S)'
          /\ Announces(S) => Announces(S)'
          /\ Silent(S) => Silent(S)'
      <3> HIDE DEF x
      <3> QED
        BY <1>1, <2>1, <2>2, TalkAppended
    <2>4. sync'.kind = "new"
      BY <1>2, LoopFacts DEF Becomes, TypeInv
    <2> QED
      BY <2>2, <2>3, <2>4 DEF Copied, Held, Adding, Removing
  <1>3. CASE Receive
    <2>1. queue # <<>> /\ queue' = Tail(queue) /\ sync.pc = "receive" /\ own' = own
      BY <1>3 DEF Receive, tables
    <2>2. sync'.pc = "batch" /\ sync'.kind = queue[1].kind /\ sync'.todo = queue[1].entries
      BY <1>3, ReceiveFacts DEF Becomes, TypeInv
    <2>3. /\ Announces(S) => Announces(S)' \/ (Silent(S)' /\ Tells(1, "new", S))
          /\ Silent(S) => Silent(S)' /\ ~Tells(1, "del", S)
      BY <1>1, <2>1, TalkTailed
    <2>4. Tells(1, "new", S) => Adding(S)'
      BY <2>2 DEF Tells, Adding
    <2>5. Removing(S)' => Tells(1, "del", S)
      BY <2>2 DEF Tells, Removing
    <2>6. Held(S) => own \cap S # {}
      BY <2>1 DEF Held, Adding
    <2> QED
      BY <2>1, <2>3, <2>4, <2>5, <2>6 DEF Copied, Held
  <1>4. CASE ~Bootstrap /\ ~Receive
    <2>1. queue' = queue
      BY <1>4, WhoHears
    <2> QED
      BY <1>4, <2>1, HeldKept, TalkKept DEF Copied
  <1> QED
    BY <1>2, <1>3, <1>4

(* A step of another than the route sync, which does not remove a route    *)
(* of S.                                                                   *)
LEMMA OtherCopied ==
    ASSUME TypeInv, UNCHANGED <<sync, own>>, NEW S, Copied(S),
           sync.pc = "boot" /\ main \cap S # {} => main' \cap S # {},
           \/ queue' = queue
           \/ \E x \in Messages : /\ queue' = Append(queue, x)
                                  /\ ~(x.kind = "del" /\ x.entries \cap S # {})
    PROVE  Copied(S)'
  <1>1. Held(S) => Held(S)'
    BY DEF Held, Adding, Removing
  <1>2. (Announces(S) => Announces(S)') /\ (Silent(S) => Silent(S)')
    BY TalkKept, TalkAppended DEF TypeInv, TypeOK
  <1> QED
    BY <1>1, <1>2 DEF Copied

LEMMA OperatorCopied ==
    ASSUME TypeInv, Live, ~lost', NEW q \in Routes, NEW S
    PROVE  /\ Install(q) => /\ Orig(q) \in S => Copied(S)'
                            /\ Copied(S) => Copied(S)'
           /\ Uninstall(q) /\ Copied(S) /\ PairsIn(q) \cap S = {} => Copied(S)'
  <1>1. ASSUME Install(q)
        PROVE  (Orig(q) \in S => Copied(S)') /\ (Copied(S) => Copied(S)')
    <2> DEFINE x == [kind |-> "new", entries |-> {Orig(q)}]
    <2>1. Orig(q) \in Entries
      BY OriginalAssumption DEF Orig, Entries
    <2>2. x \in Messages /\ x.kind = "new" /\ x.entries = {Orig(q)}
      BY <2>1 DEF Messages
    <2>3. queue' = Append(queue, x)
      <3>1. Tell("new", Orig(q))
        BY <1>1 DEF Install, Orig
      <3> QED
        BY <2>1, <3>1, TellFacts DEF TypeInv
    <2>4. UNCHANGED <<sync, own>> /\ main' = main \cup {Orig(q)}
      BY <1>1 DEF Install, OperatorActs, Orig
    <2> HIDE DEF x
    <2>5. Orig(q) \in S => Announces(S)'
      BY <2>2, <2>3, TalkAppended DEF TypeInv, TypeOK
    <2>6. Copied(S) => Copied(S)'
      BY <2>2, <2>3, <2>4, OtherCopied
    <2> QED
      BY <2>5, <2>6 DEF Copied
  <1>2. ASSUME Uninstall(q), Copied(S), PairsIn(q) \cap S = {} PROVE Copied(S)'
    <2>1. PICK m \in Metrics : main' = main \ {<<q, m>>} /\ Tell("del", <<q, m>>)
      BY <1>2 DEF Uninstall
    <2> DEFINE x == [kind |-> "del", entries |-> {<<q, m>>}]
    <2>2. <<q, m>> \in Entries /\ <<q, m>> \notin S
      BY <1>2 DEF Entries, PairsIn
    <2>3. x \in Messages /\ x.entries = {<<q, m>>}
      BY <2>2 DEF Messages
    <2>4. queue' = Append(queue, x)
      BY <2>1, <2>2, TellFacts DEF TypeInv
    <2>5. UNCHANGED <<sync, own>>
      BY <1>2 DEF Uninstall, OperatorActs
    <2> HIDE DEF x
    <2> QED
      BY <1>2, <2>1, <2>2, <2>3, <2>4, <2>5, OtherCopied
  <1> QED
    BY <1>1, <1>2

LEMMA BootCopied ==
    ASSUME TypeInv, Restart, Live', NEW S, (main \cup own) \cap S # {}
    PROVE  Copied(S)'
  <1>1. queue' = <<>> /\ DOMAIN queue' = {} /\ UNCHANGED tables
    BY DEF Restart, TypeInv, HandInv
  <1>2. sync'.pc = "boot" /\ sync'.kind = "new"
    BY DEF Restart, Dialled, IdleSync, Live
  <1> QED
    BY <1>1, <1>2 DEF Copied, Held, Silent, Removing, tables

LEMMA NonEmptyNext ==
    ASSUME TypeInv', CountInv', ~Cleaning', NEW r \in (installed \ gone)'
    PROVE  main' \cap PairsIn(r) # {}
  <1>1. r \in Routes \ gone'
    BY DEF TypeInv, TypeOK
  <1>2. Counts(r)'
    BY <1>1 DEF CountInv
  <1>3. Cardinality(PairsOf(r))' >= 1
    BY <1>2, CountTypes DEF Counts, Bit
  <1>4. PairsOf(r)' # {}
    BY <1>3, CountTypes, FS_EmptySet
  <1>5. PICK m \in Metrics : <<r, m>> \in main'
    BY <1>4 DEF PairsOf
  <1>6. <<r, m>> \in PairsIn(r)
    BY <1>1 DEF PairsIn, Entries
  <1> QED
    BY <1>5, <1>6

LEMMA OperatorFrame ==
    ASSUME TypeInv, NEW r \in Routes, Install(r) \/ Uninstall(r)
    PROVE  /\ UNCHANGED <<own, metric, sync, change, begun, stopping, crashes, last,
                          outside, gone, refused>>
           /\ lost => lost'
  <1>1. \E kind \in {"new", "del"}, e \in Entries : Tell(kind, e)
    BY OriginalAssumption DEF Install, Uninstall, Entries
  <1> QED
    BY <1>1, TellFacts DEF TypeInv, Install, Uninstall, OperatorActs

LEMMA CoverInit == Init => CoverInv
  <1> SUFFICES ASSUME Init, Live, NEW r \in installed
               PROVE  Copied(PairsIn(r))
    BY DEF CoverInv
  <1>1. queue = <<>> /\ DOMAIN queue = {} /\ sync.pc = "boot"
    BY DEF Init, Dialled, IdleSync, Live
  <1>2. Orig(r) \in main \cap PairsIn(r)
    BY OriginalAssumption DEF Init, Orig, PairsIn, Entries
  <1> QED
    BY <1>1, <1>2 DEF Copied, Held, Silent

LEMMA CoverStep == TypeInv /\ CountInv /\ CoverInv /\ [Next]_vars => CoverInv'
  <1> SUFFICES ASSUME TypeInv, CountInv, CoverInv, [Next]_vars, Live', ~lost',
                      NEW r \in (installed \ (gone \cup refused))'
               PROVE  Copied(PairsIn(r))'
    BY DEF CoverInv
  <1> DEFINE S == PairsIn(r)
  <1>1. main' \cap S # {}
    BY TypeStep, CountStep, NonEmptyNext DEF Live, Cleaning
  <1>2. CASE SyncRuns \/ Bootstrap
    <2>1. Live /\ ~lost /\ r \in installed \ (gone \cup refused)
      <3>1. Live
        BY <1>2, SyncMoves
      <3>4. ~lost
        BY <1>2, SyncFrame
      <3>2. installed' = installed /\ gone' = gone
        BY <1>2, SyncFrame DEF syncFrame, operator
      <3>3. refused \subseteq refused'
        BY <1>2, WhoIsRefused
      <3> QED
        BY <3>1, <3>2, <3>3, <3>4
    <2>2. \A e \in S : e[1] \notin refused'
      BY DEF PairsIn
    <2> QED
      BY <1>2, <2>1, <2>2, SyncCopied DEF CoverInv
  <1>3. ASSUME NEW q \in Routes, Install(q) \/ Uninstall(q) PROVE Copied(S)'
    <2>1. sync' = sync /\ gone' = gone /\ refused' = refused /\ Live /\ (lost => lost')
      BY <1>3, OperatorFrame DEF Live
    <2>2. CASE Install(q)
      <3>1. r \in installed \/ r = q
        BY <2>2 DEF Install
      <3>2. r = q => Orig(q) \in S
        BY <2>2, OriginalAssumption DEF Orig, PairsIn, Entries
      <3> QED
        BY <2>1, <2>2, <3>1, <3>2, OperatorCopied DEF CoverInv
    <2>3. CASE Uninstall(q)
      <3>1. r \in installed /\ r # q
        BY <2>3 DEF Uninstall
      <3>2. PairsIn(q) \cap S = {}
        BY <3>1 DEF PairsIn
      <3> QED
        BY <2>1, <2>3, <3>1, <3>2, OperatorCopied DEF CoverInv
    <2> QED
      BY <1>3, <2>2, <2>3
  <1>4. ASSUME UNCHANGED <<sync, own, queue, installed, gone, lost, refused>>
        PROVE  Copied(S)'
    <2>1. Copied(S)
      BY <1>4 DEF CoverInv, Live
    <2> QED
      BY <1>1, <1>4, <2>1, OtherCopied
  <1>5. ASSUME NEW c \in Changers, ChangeRuns(c) PROVE Copied(S)'
    BY <1>4, <1>5, ChangeFrame DEF changeFrame, beginFrame, operator
  <1>6. ASSUME NEW c \in Changers, NEW f \in Families, NEW d \in {"good", "fail"},
               Begin(c, f, d)
        PROVE  Copied(S)'
    BY <1>4, <1>6 DEF Begin, beginFrame, operator
  <1>7. CASE Stop
    BY <1>4, <1>7 DEF Stop, tables, operator
  <1>8. CASE Crash
    BY <1>8 DEF Crash, IdleSync, Live
  <1>9. CASE Restart
    <2>1. main \cap S # {}
      BY <1>1, <1>9 DEF Restart, tables
    <2> QED
      BY <1>9, <2>1, BootCopied
  <1>10. CASE UNCHANGED vars
    BY <1>4, <1>10 DEF vars, tables, operator, history
  <1> QED
    BY <1>2, <1>3, <1>5, <1>6, <1>7, <1>8, <1>9, <1>10 DEF Next, Operator

(* Every wanted route has a copy in the interface's table once the route   *)
(* sync has handled its messages, if none was lost (route.go:182-215,      *)
(* 286-333): a route is copied after its metric was changed, and its copy  *)
(* goes when a removal is the last the route sync has heard of it.         *)
THEOREM RoutesCovered == Spec => []Covered
  <1>1. TypeInv /\ CoverInv => Covered
    <2> SUFFICES ASSUME TypeInv, CoverInv, Settled, ~lost,
                        NEW r \in installed \ (gone \cup refused)
                 PROVE  \E m \in Metrics : <<r, m>> \in own
      BY DEF Covered
    <2>1. DOMAIN queue = {} /\ sync.pc \in {"loop", "receive"}
      BY DEF Settled
    <2>2. Copied(PairsIn(r))
      BY <2>1 DEF CoverInv, Live
    <2>3. own \cap PairsIn(r) # {}
      BY <2>1, <2>2 DEF Copied, Held, Announces, Adding
    <2>4. PICK e \in Entries : e \in own /\ e[1] = r
      BY <2>3 DEF PairsIn
    <2> QED
      BY <2>4, EntryFacts
  <1> QED
    BY <1>1, TypeInit, TypeStep, CountInit, CountStep, CoverInit, CoverStep, PTL DEF Spec

-----------------------------------------------------------------------------
(* The pair a route was installed with.                                    *)
LEMMA OnLinkStep == TypeInv /\ OnLinkInv /\ [Next]_vars => OnLinkInv'
  <1> SUFFICES ASSUME TypeInv, OnLinkInv, [Next]_vars PROVE OnLinkInv'
    OBVIOUS
  <1>1. ASSUME installed' = installed,
               \/ main \subseteq main'
               \/ \E e : IsGateway(e) /\ main' = main \ {e}
        PROVE  OnLinkInv'
    BY <1>1 DEF OnLinkInv, Orig, IsGateway
  <1>2. CASE SyncRuns \/ Bootstrap
    <2>1. CASE SyncDelete \/ Remove
      <3>1. IsGateway(sync.entry) /\ IsGateway(<<sync.entry[1], metric>>)
        BY <2>1 DEF SyncDelete, Remove, TypeInv, HandInv, IsGateway
      <3> QED
        BY <1>1, <1>2, <2>1, <3>1, SyncFrame DEF SyncDelete, Remove, syncFrame, operator
    <2>2. CASE SyncAdd
      BY <1>1, <2>2 DEF SyncAdd, syncFrame, operator
    <2> QED
      BY <1>1, <1>2, <2>1, <2>2, SyncFrame, WhoMovesRoutes DEF syncFrame, operator
  <1>3. ASSUME NEW c \in Changers, ChangeRuns(c) PROVE OnLinkInv'
    <2>1. installed' = installed
      BY <1>3, ChangeFrame DEF changeFrame, beginFrame, operator
    <2>2. CASE ChangeDelete(c)
      <3>1. main' = main \ {change[c].entry} /\ IsGateway(change[c].entry)
        BY <2>2 DEF ChangeDelete, TypeInv, ChangeInv, EntriesOf
      <3> QED
        BY <1>1, <2>1, <3>1
    <2>3. ~ChangeDelete(c) => main \subseteq main'
      BY <1>3 DEF ChangeRuns, List, ChangeAdd, ChangeDone
    <2> QED
      BY <1>1, <2>1, <2>2, <2>3
  <1>4. ASSUME NEW q \in Routes, Install(q) PROVE OnLinkInv'
    BY <1>4 DEF Install, OnLinkInv, Orig
  <1>5. ASSUME NEW q \in Routes, Uninstall(q) PROVE OnLinkInv'
    BY <1>5 DEF Uninstall, OnLinkInv, Orig
  <1>6. CASE Stop \/ Crash \/ Restart
    BY <1>1, <1>6 DEF Stop, Crash, Restart, tables, operator
  <1>7. ASSUME NEW c \in Changers, NEW f \in Families, NEW d \in {"good", "fail"},
               Begin(c, f, d)
        PROVE  OnLinkInv'
    BY <1>1, <1>7 DEF Begin, beginFrame, operator
  <1>8. CASE UNCHANGED vars
    BY <1>1, <1>8 DEF vars, tables, operator
  <1> QED
    BY <1>2, <1>3, <1>4, <1>5, <1>6, <1>7, <1>8 DEF Next, Operator

LEMMA UnreadKept ==
    ASSUME TypeInv, NEW r, Unread(r),
           \/ queue' = queue
           \/ \E x \in Messages : queue' = Append(queue, x)
    PROVE  Unread(r)'
  <1>1. PICK i \in DOMAIN queue : \E e \in queue[i].entries : e[1] = r
    BY DEF Unread
  <1>2. i \in DOMAIN queue' /\ queue'[i] = queue[i]
    <2>1. ASSUME NEW x \in Messages, queue' = Append(queue, x)
          PROVE  i \in DOMAIN queue' /\ queue'[i] = queue[i]
      BY <2>1, QueueAppended DEF TypeInv, TypeOK
    <2> QED
      BY <2>1
  <1> QED
    BY <1>1, <1>2 DEF Unread

LEMMA AnnouncedIsUnread ==
    ASSUME NEW r, Announces({Orig(r)})
    PROVE  Unread(r)
  BY DEF Announces, Tells, Unread, Orig

LEMMA SyncKeeps ==
    ASSUME TypeInv, OnLinkInv, KeepInv, ~outside, SyncRuns \/ Bootstrap
    PROVE  KeptLive' /\ KeptDead' /\ KeptClean'
  <1>0. /\ KeptLive /\ KeptDead /\ KeptClean /\ UNCHANGED <<installed, metric>>
        /\ (lost => lost') /\ refused \subseteq refused'
    <2>1. UNCHANGED <<installed, metric>>
      BY SyncFrame DEF syncFrame, operator
    <2>2. lost => lost'
      BY SyncFrame
    <2>3. refused \subseteq refused'
      BY WhoIsRefused
    <2> QED
      BY <2>1, <2>2, <2>3 DEF KeepInv
  <1>1. KeptLive'
    <2> SUFFICES ASSUME Live', ~lost', NEW r \in installed \ refused'
                 PROVE  Copied({Orig(r)})'
      BY <1>0 DEF KeptLive
    <2>1. Copied({Orig(r)})
      BY <1>0, SyncMoves DEF KeptLive
    <2>2. \A e \in {Orig(r)} : e[1] \notin refused'
      BY DEF Orig
    <2> QED
      BY <2>1, <2>2, SyncCopied
  <1>2. KeptDead'
    BY SyncMoves DEF KeptDead
  <1>3. ASSUME Cleaning', ~lost, metric # Original, NEW r \in installed \ refused'
        PROVE  Saved(r)'
    <2>1. Cleaning \/ LookAtContext
      BY <1>3, SyncMoves
    <2>2. CASE LookAtContext
      <3>1. sync.pc \in {"boot", "loop"} /\ UNCHANGED <<tables, queue>>
        BY <2>2 DEF LookAtContext
      <3>2. sync'.pc = "clean" /\ sync'.todo = own
        BY <1>3, <2>2, LookFacts DEF Becomes, Cleaning, TypeInv
      <3>3. Copied({Orig(r)})
        BY <1>0, <1>3, <3>1 DEF KeptLive, Live
      <3>4. CASE Announces({Orig(r)})
        BY <3>1, <3>4, AnnouncedIsUnread, UnreadKept DEF Saved
      <3>5. CASE Held({Orig(r)})
        <4>1. ~Adding({Orig(r)})
          BY <3>1 DEF Adding
        <4>2. Orig(r) \in main \cup own
          BY <3>5, <4>1 DEF Held
        <4> QED
          BY <3>1, <3>2, <4>2 DEF Saved, tables
      <3> QED
        BY <3>3, <3>4, <3>5 DEF Copied
    <2>3. CASE Cleaning /\ ~LookAtContext
      <3>1. Saved(r)
        BY <1>0, <1>3, <2>3 DEF KeptClean
      <3>2. queue' = queue
        BY <2>3, WhoHears DEF Cleaning, Bootstrap, Receive
      <3>3. Unread(r) => Unread(r)'
        BY <3>2, UnreadKept
      <3>4. CASE Restore
        <4>1. /\ sync.pc = "restore" /\ sync'.pc = "remove" /\ sync'.todo = sync.todo
              /\ \/ main' = main \cup {sync.entry}
                 \/ main' = main /\ sync.entry # Orig(r)
          BY <1>3, <3>4, StepFacts DEF Restore, Becomes, TypeInv, Orig
        <4> QED
          BY <3>1, <3>3, <4>1 DEF Saved
      <3>5. CASE Remove
        <4>1. main' = main \ {<<sync.entry[1], metric>>} /\ sync.pc = "remove"
              /\ sync'.pc = "clean" /\ sync'.todo = sync.todo
          BY <3>5, StepFacts DEF Remove, Becomes, TypeInv
        <4>2. Orig(r) # <<sync.entry[1], metric>>
          BY <1>3 DEF Orig
        <4> QED
          BY <3>1, <3>3, <4>1, <4>2 DEF Saved
      <3>6. CASE CleanDone
        BY <3>1, <3>3, <3>6 DEF CleanDone, tables, Saved
      <3>7. ASSUME NEW e \in Entries, CleanNext(e) PROVE Saved(r)'
        <4>1. main' = main /\ sync.pc = "clean"
          BY <3>7 DEF CleanNext
        <4>2. sync'.todo = sync.todo \ {e} /\ sync'.entry = e
              /\ sync'.pc = IF IsGateway(e) THEN "restore" ELSE "clean"
          BY <3>7, CleanNextFacts DEF Becomes, TypeInv
        <4>3. CASE Orig(r) = e /\ IsGateway(e)
          BY <4>2, <4>3 DEF Saved
        <4>4. CASE Orig(r) = e /\ ~IsGateway(e)
          BY <4>1, <4>4 DEF Saved, OnLinkInv, IsGateway, Orig
        <4>5. CASE Orig(r) # e
          <5>1. sync'.pc # "stopped"
            BY <4>2
          <5> QED
            BY <3>1, <3>3, <4>1, <4>2, <4>5, <5>1 DEF Saved
        <4> QED
          BY <4>3, <4>4, <4>5
      <3> QED
        BY <2>3, <3>4, <3>5, <3>6, <3>7 DEF SyncRuns, Cleaning, Bootstrap, CleanFails,
           Deadline, Receive, Handle, BatchDone, SyncAdd, SyncDelete, SyncCopy, SyncUncopy
    <2> QED
      BY <2>1, <2>2, <2>3
  <1> QED
    BY <1>0, <1>1, <1>2, <1>3 DEF KeptClean

LEMMA OperatorKeeps ==
    ASSUME TypeInv, KeepInv, ~outside, NEW q \in Routes, Install(q) \/ Uninstall(q)
    PROVE  KeptLive' /\ KeptDead' /\ KeptClean'
  <1>0. /\ KeptLive /\ KeptDead /\ KeptClean
        /\ UNCHANGED <<own, sync, metric, refused>> /\ (lost => lost')
    BY OperatorFrame DEF KeepInv
  <1>1. /\ Install(q) => installed' = installed \cup {q} /\ main' = main \cup {Orig(q)}
        /\ Uninstall(q) => /\ installed' = installed \ {q}
                           /\ \E m \in Metrics : main' = main \ {<<q, m>>}
    BY DEF Install, Uninstall, Orig
  <1>2. ASSUME NEW r \in installed', r # q
        PROVE  r \in installed /\ PairsIn(q) \cap {Orig(r)} = {}
               /\ (Orig(r) \in main => Orig(r) \in main')
    BY <1>1, <1>2 DEF PairsIn, Orig
  <1>3. q \in installed' => Install(q) /\ Orig(q) \in main'
    BY <1>1
  <1>4. KeptLive'
    <2> SUFFICES ASSUME Live, ~lost', NEW r \in installed' \ refused
                 PROVE  Copied({Orig(r)})'
      BY <1>0 DEF KeptLive, Live
    <2>1. CASE r = q
      BY <1>3, <2>1, OperatorCopied
    <2>2. CASE r # q
      <3>1. Copied({Orig(r)})
        BY <1>0, <1>2, <2>2 DEF KeptLive
      <3> QED
        BY <1>2, <2>2, <3>1, OperatorCopied
    <2> QED
      BY <2>1, <2>2
  <1>5. KeptDead'
    BY <1>0, <1>2, <1>3 DEF KeptDead
  <1>6. KeptClean'
    <2> SUFFICES ASSUME Cleaning, ~lost', metric # Original, NEW r \in installed' \ refused
                 PROVE  Saved(r)'
      BY <1>0 DEF KeptClean, Cleaning
    <2>1. CASE r = q
      BY <1>3, <2>1 DEF Saved
    <2>2. CASE r # q
      <3>1. Saved(r)
        BY <1>0, <1>2, <2>2 DEF KeptClean
      <3>2. PICK kind \in {"new", "del"}, e \in Entries : Tell(kind, e)
        BY OriginalAssumption DEF Install, Uninstall, Entries
      <3> DEFINE x == [kind |-> kind, entries |-> {e}]
      <3>3. x \in Messages
        BY DEF Messages
      <3>4. queue' = queue \/ queue' = Append(queue, x)
        BY <3>2, TellFacts DEF TypeInv
      <3> HIDE DEF x
      <3>5. Unread(r) => Unread(r)'
        BY <3>3, <3>4, UnreadKept
      <3> QED
        BY <1>0, <1>2, <2>2, <3>1, <3>5 DEF Saved
    <2> QED
      BY <2>1, <2>2
  <1> QED
    BY <1>4, <1>5, <1>6

LEMMA OutsideStays ==
    ASSUME TypeInv, [Next]_vars, outside
    PROVE  outside'
  <1>1. CASE SyncRuns \/ Bootstrap
    BY <1>1, SyncFrame DEF syncFrame
  <1>2. CASE Operator
    BY <1>2, OperatorFrame DEF Operator
  <1>3. CASE \E c \in Changers : ChangeRuns(c)
    BY <1>3, ChangeFrame DEF changeFrame
  <1>4. CASE \E c \in Changers, f \in Families, d \in {"good", "fail"} : Begin(c, f, d)
    BY <1>4 DEF Begin
  <1>5. CASE Stop \/ Crash \/ Restart
    BY <1>5 DEF Stop, Crash, Restart
  <1>6. CASE UNCHANGED vars
    BY <1>6 DEF vars, history
  <1> QED
    BY <1>1, <1>2, <1>3, <1>4, <1>5, <1>6 DEF Next

LEMMA KeepStep == TypeInv /\ QuietInv /\ OnLinkInv /\ KeepInv /\ [Next]_vars => KeepInv'
  <1> DEFINE Kept == KeptLive /\ KeptDead /\ KeptClean
  <1> SUFFICES ASSUME TypeInv, QuietInv, OnLinkInv, KeepInv, [Next]_vars, ~outside'
               PROVE  Kept'
    BY DEF KeepInv
  <1>1. ~outside /\ Kept
    BY OutsideStays DEF KeepInv
  <1>2. CASE SyncRuns \/ Bootstrap
    BY <1>1, <1>2, SyncKeeps
  <1>3. CASE Operator
    BY <1>1, <1>3, OperatorKeeps DEF Operator
  <1>4. ASSUME UNCHANGED <<sync, own, queue, installed, lost, refused>>,
               sync.pc \in {"dead", "boot"} => main' = main,
               Cleaning => UNCHANGED <<main, metric>>
        PROVE  Kept'
    <2>1. KeptLive'
      BY <1>1, <1>4, OtherCopied DEF KeptLive, Live
    <2>2. KeptDead'
      BY <1>1, <1>4 DEF KeptDead
    <2>3. KeptClean'
      BY <1>1, <1>4 DEF KeptClean, Cleaning, Saved, Unread
    <2> QED
      BY <2>1, <2>2, <2>3
  <1>5. ASSUME NEW c \in Changers, ChangeRuns(c) PROVE Kept'
    <2>1. sync.pc \notin {"dead", "boot"} /\ ~Cleaning
      BY <1>1, <1>5, ChangeFrame, NoChangeBeside DEF TypeInv, HandInv
    <2> QED
      BY <1>4, <1>5, <2>1, ChangeFrame DEF changeFrame, beginFrame, operator
  <1>6. ASSUME NEW c \in Changers, NEW f \in Families, NEW d \in {"good", "fail"},
               Begin(c, f, d)
        PROVE  Kept'
    <2>1. ~Cleaning
      BY <1>6 DEF Begin, TypeInv, HandInv
    <2> QED
      BY <1>4, <1>6, <2>1 DEF Begin, beginFrame, operator
  <1>7. CASE Stop
    BY <1>4, <1>7 DEF Stop, tables, operator
  <1>8. CASE Crash
    <2>1. sync'.pc = "dead" /\ UNCHANGED <<tables, operator>>
      BY <1>8 DEF Crash, IdleSync
    <2>2. \A r \in installed \cap GatewayRoutes : Orig(r) \in main \cup own
      BY <1>8 DEF Crash, Orig
    <2>3. KeptDead'
      BY <2>1, <2>2 DEF KeptDead, OnLinkInv, tables, operator
    <2> QED
      BY <2>1, <2>3 DEF KeptLive, KeptClean, Live, Cleaning
  <1>9. CASE Restart
    <2>1. sync.pc = "dead" /\ sync'.pc \in {"boot", "ended"} /\ UNCHANGED operator
      BY <1>9 DEF Restart, Dialled, IdleSync
    <2>2. KeptLive'
      <3> SUFFICES ASSUME Live', NEW r \in installed PROVE Copied({Orig(r)})'
        BY <2>1 DEF KeptLive, operator
      <3>1. (main \cup own) \cap {Orig(r)} # {}
        BY <1>1, <2>1 DEF KeptDead
      <3> QED
        BY <1>9, <3>1, BootCopied
    <2> QED
      BY <2>1, <2>2 DEF KeptDead, KeptClean, Cleaning
  <1>10. CASE UNCHANGED vars
    BY <1>4, <1>10 DEF vars, tables, operator, history
  <1> QED
    BY <1>2, <1>3, <1>5, <1>6, <1>7, <1>8, <1>9, <1>10 DEF Next

(* A stop puts every route back as the operator installed it               *)
(* (route.go:256-281), but for the exceptions that Restored names: its     *)
(* first metric is in the main table, or in the interface's, or announced, *)
(* until cleanup has restored it.                                          *)
THEOREM RoutesRestored == Spec => []Restored
  <1>1. Init => OnLinkInv
    BY OriginalAssumption DEF Init, OnLinkInv, Orig
  <1>2. Init => KeepInv
    <2> SUFFICES ASSUME Init PROVE KeptLive /\ KeptDead /\ KeptClean
      BY DEF KeepInv
    <2>1. queue = <<>> /\ DOMAIN queue = {} /\ sync.pc \in {"boot", "ended"}
      BY DEF Init, Dialled, IdleSync
    <2>2. \A r \in installed : Orig(r) \in main
      BY OriginalAssumption DEF Init, Orig
    <2> QED
      BY <2>1, <2>2 DEF KeptLive, KeptDead, KeptClean, Live, Cleaning, Copied, Held, Silent
  <1>3. KeepInv => Restored
    BY DEF KeepInv, KeptClean, Saved, Restored, Cleaning, Unread, Orig
  <1> QED
    BY <1>1, <1>2, <1>3, TypeInit, TypeStep, QuietInit, QuietStep, OnLinkStep, KeepStep,
       PTL DEF Spec

-----------------------------------------------------------------------------
(* Changes that were not spoilt.                                           *)
Busy == sync.pc \in {"batch", "add", "delete", "copy", "uncopy"}

LEMMA NoEntryFacts == NoEntry \notin Entries
  BY DEF NoEntry, Entries, Metrics

LEMMA SpoilGrows ==
    ASSUME NEW f, NEW P, Spoil(f, P)
    PROVE  spoilt \subseteq spoilt' /\ (P => f \in spoilt')
  BY DEF Spoil

LEMMA SpoiltStays ==
    ASSUME [Next]_vars, ~Restart
    PROVE  spoilt \subseteq spoilt'
  <1>1. CASE SyncRuns \/ Bootstrap
    BY <1>1, WhoSpoils, SpoilGrows DEF Handle, SyncAdd
  <1>2. CASE Operator
    BY <1>2, SpoilGrows DEF Operator, Install, Uninstall, OperatorActs
  <1>3. CASE \E c \in Changers : ChangeRuns(c)
    BY <1>3, SpoilGrows DEF ChangeRuns, List, ChangeAdd, ChangeDelete, ChangeDone
  <1>4. CASE \E c \in Changers, f \in Families, d \in {"good", "fail"} : Begin(c, f, d)
    BY <1>4, SpoilGrows DEF Begin
  <1>5. CASE Stop \/ Crash
    BY <1>5 DEF Stop, Crash
  <1>6. CASE UNCHANGED vars
    BY <1>6 DEF vars, history
  <1> QED
    BY <1>1, <1>2, <1>3, <1>4, <1>5, <1>6 DEF Next

LEMMA AnnouncedBefore ==
    ASSUME TypeInv, SyncRuns, ~Bootstrap, NEW f, Announced(f)'
    PROVE  Announced(f)
  <1> DEFINE E == EntriesOf(f)
  <1>1. queue \in Seq(Messages) /\ E \subseteq Entries
    BY DEF TypeInv, TypeOK, EntriesOf
  <1>2. CASE Receive
    <2>1. queue # <<>> /\ queue' = Tail(queue)
      BY <1>2 DEF Receive
    <2>2. 1 \in DOMAIN queue
          /\ \A i \in DOMAIN queue' : i + 1 \in DOMAIN queue /\ queue'[i] = queue[i + 1]
      BY <1>1, <2>1, QueueTailed
    <2>3. sync'.todo = queue[1].entries /\ sync'.entry = sync.entry /\ sync.pc = "receive"
      BY <1>2, ReceiveFacts DEF Receive, Becomes, TypeInv
    <2>4. sync'.entry \notin E
      BY <1>1, <2>3, NoEntryFacts DEF TypeInv, HandInv
    <2> QED
      BY <2>2, <2>3, <2>4 DEF Announced
  <1>3. CASE ~Receive
    <2>1. queue' = queue
      BY <1>3, WhoHears
    <2>2. ASSUME Busy' PROVE Busy /\ sync'.todo \subseteq sync.todo
                             /\ sync'.entry \in sync.todo \cup {sync.entry, NoEntry}
      <3>1. CASE Deadline \/ BatchDone
        BY <2>2, <3>1, LoopFacts DEF Becomes, Busy, TypeInv
      <3>2. CASE LookAtContext
        BY <2>2, <3>2, LookFacts DEF Becomes, Busy, TypeInv
      <3>3. CASE CleanFails \/ CleanDone \/ Restore \/ Remove
        BY <2>2, <3>3, EndFacts, StepFacts DEF Becomes, Busy, TypeInv
      <3>4. ASSUME NEW e \in Entries, Handle(e)
            PROVE  Busy /\ sync'.todo \subseteq sync.todo /\ sync'.entry \in sync.todo
        BY <3>4, HandleFacts DEF Handle, Becomes, Busy, TypeInv
      <3>5. CASE SyncAdd
        BY <3>5, AddFacts DEF SyncAdd, Becomes, Busy, TypeInv
      <3>6. CASE SyncDelete
        BY <3>6, StepFacts DEF SyncDelete, Becomes, Busy, TypeInv
      <3>7. CASE SyncCopy \/ SyncUncopy
        BY <3>7, CopyFacts DEF SyncCopy, SyncUncopy, Becomes, Busy, TypeInv
      <3>8. ASSUME NEW e \in Entries, CleanNext(e) PROVE FALSE
        <4>1. sync'.pc \in {"clean", "restore"}
          BY <3>8, CleanNextFacts DEF Becomes, TypeInv
        <4> QED
          BY <2>2, <4>1 DEF Busy
      <3> QED
        BY <1>3, <3>1, <3>2, <3>3, <3>4, <3>5, <3>6, <3>7, <3>8 DEF SyncRuns
    <2>3. Busy' /\ (sync'.todo \cup {sync'.entry}) \cap E # {} =>
              Busy /\ (sync.todo \cup {sync.entry}) \cap E # {}
      BY <1>1, <2>2, NoEntryFacts
    <2> QED
      BY <2>1, <2>3 DEF Announced, Busy
  <1> QED
    BY <1>2, <1>3

LEMMA AnnouncedAppended ==
    ASSUME TypeInv, UNCHANGED sync, NEW f, Announced(f)',
           \/ queue' = queue
           \/ \E x \in Messages :
                  queue' = Append(queue, x) /\ x.entries \cap EntriesOf(f) = {}
    PROVE  Announced(f)
  <1>1. CASE queue' = queue
    BY <1>1 DEF Announced
  <1>2. ASSUME NEW x \in Messages, queue' = Append(queue, x),
               x.entries \cap EntriesOf(f) = {}
        PROVE  Announced(f)
    <2>1. \A i \in DOMAIN queue' : \/ i \in DOMAIN queue /\ queue'[i] = queue[i]
                                   \/ queue'[i] = x
      BY <1>2, QueueAppended DEF TypeInv, TypeOK
    <2> QED
      BY <1>2, <2>1 DEF Announced
  <1> QED
    BY <1>1, <1>2

(* The operator's message is about its route.                              *)
LEMMA OperatorMessage ==
    ASSUME TypeInv, NEW r \in Routes, Install(r) \/ Uninstall(r)
    PROVE  \E kind \in {"new", "del"}, e \in Entries :
              /\ e[1] = r
              /\ [kind |-> kind, entries |-> {e}] \in Messages
              /\ \/ queue' = queue
                 \/ queue' = Append(queue, [kind |-> kind, entries |-> {e}])
  <1>1. PICK kind \in {"new", "del"}, e \in Entries : Tell(kind, e) /\ e[1] = r
    <2>1. Install(r) => Tell("new", <<r, Original>>)
      BY DEF Install
    <2>2. Uninstall(r) => \E m \in Metrics : Tell("del", <<r, m>>)
      BY DEF Uninstall
    <2>3. \A m \in Metrics : <<r, m>> \in Entries /\ <<r, m>>[1] = r
      BY DEF Entries
    <2> QED
      BY <2>1, <2>2, <2>3, OriginalAssumption
  <1>2. [kind |-> kind, entries |-> {e}] \in Messages
    BY DEF Messages
  <1>3. queue' = queue \/ queue' = Append(queue, [kind |-> kind, entries |-> {e}])
    BY <1>1, TellFacts DEF TypeInv
  <1> QED
    BY <1>1, <1>2, <1>3

LEMMA AloneStep == TypeInv /\ AloneInv /\ [Next]_vars => AloneInv'
  <1> SUFFICES ASSUME TypeInv, AloneInv, [Next]_vars, Live', NEW f \in Families,
                      f \notin spoilt', Changing(f)'
               PROVE  Alone(f)'
    BY DEF AloneInv, Alone
  <1>1. ASSUME Live, Changing(f), ~Restart PROVE Alone(f)
    BY <1>1, SpoiltStays DEF AloneInv, Alone
  <1>2. CASE SyncRuns \/ Bootstrap
    <2>1. Alone(f) /\ UNCHANGED <<change, last>> /\ ~Restart
      <3>1. UNCHANGED <<change, last>> /\ ~Restart /\ Live
        BY <1>2, SyncFrame, SyncMoves DEF syncFrame, Restart
      <3> QED
        BY <1>1, <3>1 DEF Changing
    <2>2. ~Bootstrap
      BY <2>1 DEF Alone, Bootstrap
    <2>3. ~Announced(f)' /\ sync'.pc # "boot"
      BY <1>2, <2>1, <2>2, AnnouncedBefore, SyncMoves DEF Alone
    <2> QED
      BY <2>1, <2>3 DEF Alone, On
  <1>3. ASSUME NEW r \in Routes, Install(r) \/ Uninstall(r) PROVE Alone(f)'
    <2>1. UNCHANGED <<sync, change, last>> /\ OperatorActs(r)
      BY <1>3, OperatorFrame DEF Install, Uninstall
    <2>2. Live /\ Changing(f)
      BY <2>1 DEF Live, Changing
    <2>3. Alone(f)
      BY <1>1, <2>1, <2>2 DEF Restart, Live
    <2>4. ~(r \in GatewayRoutes /\ FamilyOf[r] = f)
      BY <2>1, <2>2, SpoilGrows DEF OperatorActs
    <2>5. ~Announced(f)'
      <3>1. PICK kind \in {"new", "del"}, e \in Entries :
                /\ e[1] = r
                /\ [kind |-> kind, entries |-> {e}] \in Messages
                /\ \/ queue' = queue
                   \/ queue' = Append(queue, [kind |-> kind, entries |-> {e}])
        BY <1>3, OperatorMessage
      <3> DEFINE x == [kind |-> kind, entries |-> {e}]
      <3>2. x \in Messages /\ x.entries \cap EntriesOf(f) = {}
        BY <2>4, <3>1 DEF EntriesOf, IsGateway
      <3>3. queue' = queue \/ queue' = Append(queue, x)
        BY <3>1
      <3> HIDE DEF x
      <3> QED
        BY <2>1, <2>3, <3>2, <3>3, AnnouncedAppended DEF Alone
    <2> QED
      BY <2>1, <2>3, <2>5 DEF Alone, On
  <1>4. ASSUME UNCHANGED <<sync, queue, last>>,
               \A c \in Changers : On(c, f)' =>
                   On(c, f) /\ change'[c].dir = change[c].dir
        PROVE  Alone(f)'
    <2>1. Live /\ Changing(f) /\ ~Restart
      BY <1>4 DEF Live, Changing, On, Restart
    <2>2. Alone(f)
      BY <1>1, <2>1
    <2>3. ~Announced(f)'
      BY <1>4, <2>2 DEF Alone, Announced
    <2> QED
      BY <1>4, <2>2, <2>3 DEF Alone
  <1>5. ASSUME NEW c \in Changers, ChangeRuns(c) PROVE Alone(f)'
    <2>1. UNCHANGED <<sync, queue, last>> /\ change[c].pc # "idle"
      BY <1>5, ChangeFrame DEF changeFrame, beginFrame
    <2>2. \/ Idles(c)
          \/ /\ Others(c)
             /\ change'[c].fam = change[c].fam
             /\ change'[c].dir = change[c].dir
      BY <1>5, ListFacts, ChangeAddFacts, ChangeDeleteFacts, ChangeDoneFacts
      DEF ChangeRuns, Continues, TypeInv
    <2> QED
      BY <1>4, <2>1, <2>2 DEF On, Idles, Others, IdleChange
  <1>6. ASSUME NEW c \in Changers, NEW g \in Families, NEW d \in {"good", "fail"},
               Begin(c, g, d)
        PROVE  Alone(f)'
    <2>1. /\ Others(c) /\ change'[c].pc = "list" /\ change'[c].fam = g
          /\ change'[c].dir = d
      BY <1>6, BeginFacts DEF TypeInv
    <2>2. /\ change[c].pc = "idle" /\ UNCHANGED <<sync, queue>>
          /\ last' = [last EXCEPT ![g] = d]
          /\ Spoil(g, Changing(g) \/ Announced(g) \/ outside')
          /\ outside' = (outside \/ sync.pc = "boot" \/ stopping)
      BY <1>6 DEF Begin, beginFrame
    <2>3. CASE g = f
      <3>1. ~Changing(f) /\ ~Announced(f) /\ sync.pc # "boot"
        BY <2>2, <2>3, SpoilGrows
      <3>2. \A b \in Changers : On(b, f)' => b = c
        BY <2>1, <3>1 DEF On, Others, Changing
      <3>3. last'[f] = d
        BY <2>2, <2>3 DEF TypeInv, TypeOK
      <3>4. ~Announced(f)'
        BY <2>2, <3>1 DEF Announced
      <3> QED
        BY <2>1, <2>2, <3>1, <3>2, <3>3, <3>4 DEF Alone
    <2>4. CASE g # f
      <3>1. last'[f] = last[f]
        BY <2>2, <2>4 DEF TypeInv, TypeOK
      <3>2. \A b \in Changers : On(b, f)' => On(b, f) /\ change'[b] = change[b]
        BY <2>1, <2>4 DEF On, Others
      <3>3. Live /\ Changing(f) /\ ~Restart
        BY <2>2, <3>2 DEF Live, Changing, On, Restart
      <3>4. Alone(f)
        BY <1>1, <3>3
      <3>5. ~Announced(f)'
        BY <2>2, <3>4 DEF Alone, Announced
      <3> QED
        BY <2>2, <3>1, <3>2, <3>4, <3>5 DEF Alone
    <2> QED
      BY <2>3, <2>4
  <1>7. CASE Stop
    BY <1>4, <1>7 DEF Stop, On
  <1>8. CASE Crash \/ Restart
    <2>1. ~Changing(f)'
      BY <1>8 DEF Crash, Restart, TypeInv, HandInv, Changing, IdleChange
    <2> QED
      BY <2>1
  <1>9. CASE UNCHANGED vars
    BY <1>4, <1>9 DEF vars, history, On
  <1> QED
    BY <1>2, <1>3, <1>5, <1>6, <1>7, <1>8, <1>9 DEF Next, Operator

LEMMA TargetStep == TypeInv /\ TargetInv /\ [Next]_vars => TargetInv'
  <1> SUFFICES ASSUME TypeInv, TargetInv, [Next]_vars, Live', NEW f \in Families,
                      f \notin spoilt', sync'.pc \in {"add", "delete"},
                      FamilyOf[sync'.entry[1]] = f
               PROVE  sync'.target = last'[f]
    BY DEF TargetInv
  <1>1. ~Restart /\ f \notin spoilt
    <2>1. ~Restart
      BY DEF Restart, Dialled, IdleSync
    <2> QED
      BY <2>1, SpoiltStays
  <1>2. CASE sync' = sync /\ last' = last
    <2>1. Live
      BY <1>2 DEF Live
    <2> QED
      BY <1>1, <1>2, <2>1 DEF TargetInv
  <1>3. CASE SyncRuns \/ Bootstrap
    <2>0. last' = last
      BY <1>3, SyncFrame DEF syncFrame
    <2>1. ASSUME NEW e \in Entries, Handle(e) PROVE sync'.target = last[f]
      <3>1. sync'.pc = AfterHandle(e) /\ sync'.entry = e /\ sync'.target = metric
        BY <2>1, HandleFacts DEF Becomes, TypeInv
      <3>2. sync.kind = "new" /\ IsGateway(e)
        BY <3>1 DEF AfterHandle
      <3>3. metric = last[f]
        BY <2>1, <3>1, <3>2, SpoilGrows DEF Handle
      <3> QED
        BY <3>1, <3>3
    <2>2. CASE SyncAdd
      <3>1. sync'.target = sync.target /\ sync'.entry = sync.entry /\ sync.pc = "add"
        BY <2>2, AddFacts DEF SyncAdd, Becomes, TypeInv
      <3> QED
        BY <1>1, <2>0, <3>1 DEF TargetInv, Live
    <2>3. CASE Receive
      BY <2>3, ReceiveFacts DEF Becomes, TypeInv
    <2>4. CASE Bootstrap \/ Deadline \/ BatchDone
      BY <2>4, LoopFacts DEF Becomes, TypeInv
    <2>5. CASE LookAtContext
      BY <2>5, LookFacts DEF Becomes, TypeInv
    <2>6. CASE CleanFails \/ CleanDone \/ SyncDelete \/ Restore \/ Remove
      BY <2>6, EndFacts, StepFacts DEF Becomes, TypeInv
    <2>7. CASE SyncCopy \/ SyncUncopy
      BY <2>7, CopyFacts DEF Becomes, TypeInv
    <2>8. ASSUME NEW e \in Entries, CleanNext(e) PROVE FALSE
      <3>1. sync'.pc \in {"clean", "restore"}
        BY <2>8, CleanNextFacts DEF Becomes, TypeInv
      <3> QED
        BY <3>1
    <2> QED
      BY <1>3, <2>0, <2>1, <2>2, <2>3, <2>4, <2>5, <2>6, <2>7, <2>8 DEF SyncRuns
  <1>4. ASSUME NEW c \in Changers, NEW g \in Families, NEW d \in {"good", "fail"},
               Begin(c, g, d)
        PROVE  sync'.target = last'[f]
    <2>1. sync' = sync /\ last' = [last EXCEPT ![g] = d] /\ (Announced(g) => g \in spoilt')
      BY <1>4, SpoilGrows DEF Begin, beginFrame
    <2>2. Announced(f)
      <3>1. sync.entry \in Entries /\ IsGateway(sync.entry) /\ FamilyOf[sync.entry[1]] = f
        BY <2>1 DEF TypeInv, TypeOK, HandInv, HasEntry
      <3> QED
        BY <2>1, <3>1 DEF Announced, EntriesOf
    <2>3. last'[f] = last[f]
      BY <2>1, <2>2 DEF TypeInv, TypeOK
    <2> QED
      BY <1>1, <2>1, <2>3 DEF TargetInv, Live
  <1>5. CASE Operator
    BY <1>2, <1>5, OperatorFrame DEF Operator
  <1>6. CASE \E c \in Changers : ChangeRuns(c)
    BY <1>2, <1>6, ChangeFrame DEF changeFrame, beginFrame
  <1>7. CASE Stop
    BY <1>2, <1>7 DEF Stop
  <1>8. CASE Crash
    BY <1>8 DEF Crash, IdleSync
  <1>9. CASE UNCHANGED vars
    BY <1>2, <1>9 DEF vars, history
  <1> QED
    BY <1>1, <1>3, <1>4, <1>5, <1>6, <1>7, <1>8, <1>9 DEF Next

LEMMA GhostStep == TypeInv /\ GhostInv /\ [Next]_vars => GhostInv'
  <1> SUFFICES ASSUME TypeInv, GhostInv, [Next]_vars, Live',
                      NEW r \in GatewayRoutes \ installed', FamilyOf[r] \notin spoilt'
               PROVE  PairsOf(r)' = {}
    BY DEF GhostInv
  <1>0. r \in Routes
    BY GatewayRoutesAssumption
  <1>1. ASSUME Live, ~Restart, r \notin installed PROVE PairsOf(r) = {}
    BY <1>1, SpoiltStays DEF GhostInv
  <1>2. ASSUME Live, ~Restart, r \notin installed,
               \A m \in Metrics : <<r, m>> \in main' => <<r, m>> \in main
        PROVE  PairsOf(r)' = {}
    BY <1>1, <1>2 DEF PairsOf
  <1>3. CASE SyncRuns \/ Bootstrap
    <2>1. Live /\ ~Restart /\ r \notin installed
      BY <1>3, SyncMoves, SyncFrame DEF syncFrame, operator, Restart
    <2>2. CASE SyncAdd
      <3>1. CASE main' = main
        BY <1>2, <2>1, <3>1
      <3>2. CASE /\ main' = main \cup {Target}
                 /\ Spoil(FamilyOf[sync.entry[1]], sync.entry[1] \notin installed)
        <4>1. sync.entry[1] # r
          BY <2>1, <3>2, SpoilGrows
        <4> QED
          BY <1>2, <2>1, <3>2, <4>1 DEF Target
      <3> QED
        BY <2>2, <3>1, <3>2, AddFacts DEF TypeInv
    <2>3. CASE Restore
      BY <2>1, <2>3 DEF Restore, Live
    <2> QED
      BY <1>2, <1>3, <2>1, <2>2, <2>3, WhoMovesRoutes
  <1>4. ASSUME NEW c \in Changers, ChangeRuns(c) PROVE PairsOf(r)' = {}
    <2>1. UNCHANGED <<sync, installed>>
      BY <1>4, ChangeFrame DEF changeFrame, beginFrame, operator
    <2>2. Live /\ ~Restart /\ r \notin installed
      BY <2>1 DEF Live, Restart
    <2>3. ASSUME NEW e \in Entries, ChangeAdd(c, e)
          PROVE  \A m \in Metrics : <<r, m>> \in main' => <<r, m>> \in main
      <3> DEFINE new == <<e[1], change[c].dir>>
      <3>1. FamilyOf[e[1]] = change[c].fam
        BY <2>3 DEF ChangeAdd, TypeInv, ChangeInv, EntriesOf
      <3>2. CASE main' = main
        BY <3>2
      <3>3. CASE main' = main \cup {new} /\ Spoil(change[c].fam, e[1] \notin installed)
        <4>1. e[1] # r
          BY <2>2, <3>1, <3>3, SpoilGrows
        <4> QED
          BY <3>3, <4>1
      <3> QED
        BY <2>3, <3>2, <3>3, ChangeAddFacts
    <2>4. (\E e \in Entries : ChangeAdd(c, e)) \/ main' \subseteq main
      BY <1>4 DEF ChangeRuns, List, ChangeDelete, ChangeDone
    <2> QED
      BY <1>2, <2>2, <2>3, <2>4
  <1>5. ASSUME NEW q \in Routes, Install(q) \/ Uninstall(q) PROVE PairsOf(r)' = {}
    <2>1. UNCHANGED sync /\ OperatorActs(q)
      BY <1>5, OperatorFrame DEF Install, Uninstall
    <2>2. Live /\ ~Restart
      BY <2>1 DEF Live, Restart
    <2>3. CASE r = q
      <3>1. ~ \E m \in Metrics : <<q, m>> \in main'
        BY <2>1, <2>3, SpoilGrows DEF OperatorActs
      <3> QED
        BY <2>3, <3>1 DEF PairsOf
    <2>4. CASE r # q
      <3>1. main' \subseteq main \cup {<<q, Original>>} /\ installed \subseteq installed' \cup {q}
        BY <1>5 DEF Install, Uninstall
      <3>2. \A m \in Metrics : <<r, m>> \in main' => <<r, m>> \in main
        BY <2>4, <3>1
      <3> QED
        BY <1>2, <2>2, <2>4, <3>1, <3>2
    <2> QED
      BY <2>3, <2>4
  <1>6. ASSUME NEW c \in Changers, NEW f \in Families, NEW d \in {"good", "fail"},
               Begin(c, f, d)
        PROVE  PairsOf(r)' = {}
    <2>1. UNCHANGED <<sync, installed, main>>
      BY <1>6 DEF Begin, beginFrame, operator
    <2> QED
      BY <1>2, <2>1 DEF Live, Restart
  <1>7. CASE Stop \/ UNCHANGED vars
    <2>1. UNCHANGED <<sync, installed, main>>
      BY <1>7 DEF Stop, vars, tables, operator
    <2> QED
      BY <1>2, <2>1 DEF Live, Restart
  <1>8. CASE Crash
    BY <1>8 DEF Crash, IdleSync, Live
  <1>9. CASE Restart
    <2>1. UNCHANGED <<installed, main>>
          /\ spoilt' = {FamilyOf[x] : x \in {q \in GatewayRoutes :
                  Cardinality(PairsOf(q)) # IF q \in installed THEN 1 ELSE 0}}
      BY <1>9 DEF Restart, tables, operator
    <2>2. Cardinality(PairsOf(r)) = 0
      BY <2>1
    <2>3. PairsOf(r) = {}
      BY <2>2, CountTypes, FinitePairs, FS_EmptySet
    <2> QED
      BY <2>1, <2>3 DEF PairsOf
  <1> QED
    BY <1>3, <1>4, <1>5, <1>6, <1>7, <1>8, <1>9 DEF Next, Operator

-----------------------------------------------------------------------------
(* What becomes of a pair with another metric.                             *)
LEMMA DoomedQueued ==
    ASSUME TypeInv, UNCHANGED sync, NEW e, Doomed(e),
           queue' = queue \/ \E x \in Messages : queue' = Append(queue, x)
    PROVE  Doomed(e)'
  <1>1. \A i \in DOMAIN queue : i \in DOMAIN queue' /\ queue'[i] = queue[i]
    <2>1. ASSUME NEW x \in Messages, queue' = Append(queue, x)
          PROVE  \A i \in DOMAIN queue : i \in DOMAIN queue' /\ queue'[i] = queue[i]
      BY <2>1, QueueAppended DEF TypeInv, TypeOK
    <2> QED
      BY <2>1
  <1> QED
    BY <1>1 DEF Doomed

LEMMA DoomedAnnounced ==
    ASSUME NEW f, NEW e \in EntriesOf(f), Doomed(e)
    PROVE  Announced(f) \/ sync.pc = "boot"
  BY DEF Doomed, Announced

LEMMA DoomedKept ==
    ASSUME TypeInv, SyncRuns, Live', NEW e \in Entries, IsGateway(e), Doomed(e),
           ~(SyncAdd /\ sync.entry = e /\ sync'.pc = "copy"),
           ~(SyncDelete /\ sync.entry = e)
    PROVE  Doomed(e)'
  <1>0. sync.pc # "boot"
    BY BootEnds
  <1> DEFINE Waits == \E i \in DOMAIN queue : queue[i].kind = "new" /\ e \in queue[i].entries
  <1>1. CASE Receive
    <2>1. queue # <<>> /\ queue' = Tail(queue) /\ sync.pc = "receive" /\ queue \in Seq(Messages)
      BY <1>1 DEF Receive, TypeInv, TypeOK
    <2>2. PICK i \in DOMAIN queue : queue[i].kind = "new" /\ e \in queue[i].entries
      BY <2>1 DEF Doomed
    <2>3. CASE i = 1
      <3>1. sync'.pc = "batch" /\ sync'.kind = "new" /\ e \in sync'.todo
        BY <1>1, <2>2, <2>3, ReceiveFacts DEF Becomes, TypeInv
      <3> QED
        BY <3>1 DEF Doomed
    <2>4. CASE i # 1
      <3>1. i - 1 \in DOMAIN queue' /\ queue'[i - 1] = queue[i]
        BY <2>1, <2>2, <2>4, QueueTailed
      <3> QED
        BY <2>2, <3>1 DEF Doomed
    <2> QED
      BY <2>3, <2>4
  <1>2. CASE ~Receive
    <2>1. queue' = queue \/ Bootstrap
      BY <1>2, WhoHears
    <2>2. queue' = queue
      BY <1>0, <2>1 DEF Bootstrap
    <2>3. Waits => Doomed(e)'
      BY <2>2 DEF Doomed
    <2>4. ASSUME ~Waits PROVE Doomed(e)'
      <3>1. /\ sync.kind = "new"
            /\ \/ sync.pc \in {"batch", "add", "delete", "copy"} /\ e \in sync.todo
               \/ sync.pc \in {"add", "delete"} /\ sync.entry = e
        BY <1>0, <2>4 DEF Doomed
      <3>2. ASSUME NEW x \in Entries, Handle(x) PROVE Doomed(e)'
        <4>1. /\ sync'.pc = AfterHandle(x) /\ sync'.kind = sync.kind
              /\ sync'.todo = sync.todo \ {x} /\ sync'.entry = x
          BY <3>2, HandleFacts DEF Becomes, TypeInv
        <4>2. sync.pc = "batch"
          BY <3>2 DEF Handle
        <4>3. CASE x = e
          BY <3>1, <4>1, <4>3 DEF AfterHandle, Doomed
        <4>4. CASE x # e
          BY <3>1, <4>1, <4>2, <4>4 DEF AfterHandle, Doomed
        <4> QED
          BY <4>3, <4>4
      <3>3. CASE SyncAdd
        <4>1. /\ sync'.pc \in {"copy", "delete"} /\ sync'.kind = sync.kind
              /\ sync'.todo = sync.todo /\ sync'.entry = sync.entry
          BY <3>3, AddFacts DEF Becomes, TypeInv
        <4>2. sync.entry = e => sync'.pc = "delete"
          BY <3>3, <4>1
        <4> QED
          BY <3>1, <4>1, <4>2 DEF Doomed
      <3>4. CASE SyncDelete
        BY <3>1, <3>4, StepFacts DEF Becomes, Doomed, TypeInv
      <3>5. CASE SyncCopy
        BY <3>1, <3>5, CopyFacts DEF SyncCopy, Becomes, Doomed, TypeInv
      <3>6. ~BatchDone
        BY <3>1 DEF BatchDone
      <3> QED
        BY <1>2, <3>1, <3>2, <3>3, <3>4, <3>5, <3>6 DEF SyncRuns, LookAtContext, CleanFails,
           Deadline, CleanNext, SyncUncopy, Restore, Remove, CleanDone, TypeInv, HandInv
    <2> QED
      BY <2>3, <2>4
  <1> QED
    BY <1>1, <1>2

LEMMA MovesKept ==
    ASSUME NEW e, NEW c \in Changers, change'[c] = change[c]
    PROVE  Moves(c, e)' <=> Moves(c, e)
  BY DEF Moves, On

LEMMA SyncMetric ==
    ASSUME TypeInv, TargetInv, MetricInv, SyncRuns \/ Bootstrap, Live', ~lost',
           NEW r \in (installed' \ (gone' \cup refused')) \cap GatewayRoutes, FamilyOf[r] \notin spoilt',
           NEW m \in Wrong(r)'
    PROVE  Seen(<<r, m>>)'
  <1> DEFINE e == <<r, m>>
             f == FamilyOf[r]
  <1>1. /\ UNCHANGED <<change, last, installed, gone, lost>> /\ Live /\ ~Restart
        /\ r \notin refused
    BY SyncFrame, SyncMoves, WhoIsRefused DEF syncFrame, operator, Restart
  <1>2. /\ e \in main' /\ m # last[f] /\ e \in Entries /\ IsGateway(e) /\ f \in Families
        /\ f \notin spoilt
    <2>1. f \notin spoilt
      BY <1>1, SpoiltStays DEF Next
    <2> QED
      BY <1>1, <2>1, RouteFamilyAssumption, GatewayRoutesAssumption
      DEF Wrong, PairsOf, Entries, IsGateway
  <1>3. CASE Bootstrap
    <2> DEFINE x == [kind |-> "new", entries |-> main]
    <2>1. x \in Messages /\ x.kind = "new" /\ x.entries = main
      BY DEF Messages, TypeInv, TypeOK
    <2>2. queue' = Append(queue, x) /\ main' = main
      BY <1>1, <1>3 DEF Bootstrap, tables
    <2> HIDE DEF x
    <2>3. Len(queue') \in DOMAIN queue' /\ queue'[Len(queue')] = x
      BY <2>1, <2>2, QueueAppended DEF TypeInv, TypeOK
    <2> QED
      BY <1>2, <2>1, <2>2, <2>3 DEF Seen, Doomed
  <1>4. CASE SyncRuns
    <2>1. ASSUME SyncAdd, sync.entry[1] = r PROVE Target = <<r, last[f]>>
      <3>1. sync.pc = "add"
        BY <2>1 DEF SyncAdd
      <3>2. sync.target = last[f]
        BY <1>1, <1>2, <2>1, <3>1 DEF TargetInv
      <3> QED
        BY <2>1, <3>2 DEF Target
    <2>2. e \in main
      <3>1. ASSUME SyncAdd PROVE e \in main
        <4>1. main' \subseteq main \cup {Target}
          BY <3>1, AddFacts DEF TypeInv
        <4>2. Target # e
          BY <1>2, <2>1, <3>1 DEF Target
        <4> QED
          BY <1>2, <4>1, <4>2
      <3>2. ~Restore
        BY <1>1 DEF Restore, Live
      <3> QED
        BY <1>2, <3>1, <3>2, WhoMovesRoutes
    <2>3. ~(SyncAdd /\ sync.entry = e /\ sync'.pc = "copy")
      <3>1. SUFFICES ASSUME SyncAdd, sync.entry = e, sync'.pc = "copy" PROVE FALSE
        OBVIOUS
      <3>2. Target # sync.entry
        BY <1>2, <2>1, <3>1
      <3>3. Spoil(f, Target # sync.entry \/ r \notin installed)
        BY <3>1, AddFacts DEF TypeInv, Becomes
      <3> QED
        BY <3>2, <3>3, SpoilGrows
    <2>4. m \in Wrong(r)
      BY <1>1, <1>2, <2>2 DEF Wrong, PairsOf, Entries
    <2>5. Seen(e)
      BY <1>1, <1>2, <2>4 DEF MetricInv
    <2>6. ~(SyncDelete /\ sync.entry = e)
      BY <1>2 DEF SyncDelete
    <2>7. Doomed(e) => Doomed(e)'
      BY <1>2, <1>4, <2>3, <2>6, DoomedKept
    <2>8. \A c \in Changers : Moves(c, e) => Moves(c, e)'
      BY <1>1, MovesKept
    <2> QED
      BY <2>5, <2>7, <2>8 DEF Seen
  <1> QED
    BY <1>3, <1>4

LEMMA OperatorMetric ==
    ASSUME TypeInv, GhostInv, MetricInv, NEW q \in Routes, Install(q) \/ Uninstall(q),
           Live', ~lost',
           NEW r \in (installed' \ (gone' \cup refused')) \cap GatewayRoutes, FamilyOf[r] \notin spoilt',
           NEW m \in Wrong(r)'
    PROVE  Seen(<<r, m>>)'
  <1> DEFINE e == <<r, m>>
             f == FamilyOf[r]
  <1>1. UNCHANGED <<sync, change, last, gone, refused>> /\ Live /\ ~lost
    BY OperatorFrame DEF Live
  <1>2. f \notin spoilt
    BY SpoilGrows DEF Install, Uninstall, OperatorActs
  <1>3. e \in main' /\ m \in Metrics /\ m # last[f]
    BY <1>1 DEF Wrong, PairsOf
  <1>4. CASE r # q
    <2>1. r \in installed
      BY <1>4 DEF Install, Uninstall
    <2>2. e \in main
      <3>1. main' \subseteq main \cup {<<q, Original>>}
        BY DEF Install, Uninstall
      <3> QED
        BY <1>3, <1>4, <3>1
    <2>3. m \in Wrong(r)
      BY <1>3, <2>2 DEF Wrong, PairsOf
    <2>4. Seen(e)
      BY <1>1, <1>2, <2>1, <2>3 DEF MetricInv
    <2>5. queue' = queue \/ \E x \in Messages : queue' = Append(queue, x)
      BY OperatorMessage
    <2>6. Doomed(e) => Doomed(e)'
      BY <1>1, <2>5, DoomedQueued
    <2>7. \A c \in Changers : Moves(c, e) => Moves(c, e)'
      BY <1>1, MovesKept
    <2> QED
      BY <2>4, <2>6, <2>7 DEF Seen
  <1>5. CASE r = q
    <2>1. Install(r) /\ r \notin installed /\ main' = main \cup {Orig(r)}
      BY <1>5 DEF Install, Uninstall, Orig
    <2>2. PairsOf(r) = {}
      BY <1>1, <1>2, <2>1 DEF GhostInv
    <2>3. e = Orig(r)
      BY <1>3, <2>1, <2>2 DEF PairsOf
    <2> DEFINE x == [kind |-> "new", entries |-> {e}]
    <2>4. e \in Entries
      BY <1>3, <1>5 DEF Entries
    <2>5. x \in Messages /\ x.kind = "new" /\ e \in x.entries
      BY <2>4 DEF Messages
    <2>6. queue' = Append(queue, x)
      <3>1. Tell("new", e)
        BY <2>1, <2>3 DEF Install, Orig
      <3> QED
        BY <1>1, <2>4, <3>1, TellFacts DEF TypeInv
    <2> HIDE DEF x
    <2>7. Len(queue') \in DOMAIN queue' /\ queue'[Len(queue')] = x
      BY <2>5, <2>6, QueueAppended DEF TypeInv, TypeOK
    <2> QED
      BY <2>5, <2>7 DEF Seen, Doomed
  <1> QED
    BY <1>4, <1>5

LEMMA BeginMetric ==
    ASSUME TypeInv, MetricInv, NEW c \in Changers, NEW g \in Families,
           NEW d \in {"good", "fail"}, Begin(c, g, d), Live', ~lost',
           NEW r \in (installed' \ (gone' \cup refused')) \cap GatewayRoutes, FamilyOf[r] \notin spoilt',
           NEW m \in Wrong(r)'
    PROVE  Seen(<<r, m>>)'
  <1> DEFINE e == <<r, m>>
             f == FamilyOf[r]
  <1>1. /\ UNCHANGED <<main, installed, gone, refused, queue, sync, lost>>
        /\ change[c].pc = "idle" /\ last' = [last EXCEPT ![g] = d]
        /\ Spoil(g, Changing(g) \/ Announced(g) \/ outside')
        /\ outside' = (outside \/ sync.pc = "boot" \/ stopping)
    BY DEF Begin, beginFrame, operator
  <1>2. /\ Others(c) /\ change'[c].pc = "list" /\ change'[c].fam = g
        /\ change'[c].dir = d /\ (change'[c].again <=> last[g] = d)
    BY BeginFacts DEF TypeInv
  <1>3. /\ f \in Families /\ f \notin spoilt /\ e \in main /\ e \in EntriesOf(f)
        /\ m \in Metrics
    <2>1. f \in Families /\ IsGateway(e)
      BY RouteFamilyAssumption, GatewayRoutesAssumption DEF IsGateway
    <2> QED
      BY <1>1, <2>1, SpoilGrows, GatewayRoutesAssumption
      DEF Wrong, PairsOf, Entries, EntriesOf
  <1>4. m # last[f] => Seen(e)
    <2>1. m # last[f] => m \in Wrong(r)
      BY <1>3 DEF Wrong, PairsOf
    <2>2. Live
      BY <1>1 DEF Live
    <2> QED
      BY <1>1, <1>3, <2>1, <2>2 DEF MetricInv
  <1>5. CASE g # f
    <2>1. last'[f] = last[f]
      BY <1>1, <1>5 DEF TypeInv, TypeOK
    <2>2. m # last[f]
      BY <2>1 DEF Wrong
    <2>3. Doomed(e) => Doomed(e)'
      BY <1>1, DoomedQueued
    <2>4. \A b \in Changers : Moves(b, e) => Moves(b, e)'
      <3>1. ~Moves(c, e)
        BY <1>1 DEF Moves, On
      <3> QED
        BY <1>2, <3>1, MovesKept DEF Others
    <2> QED
      BY <1>4, <2>2, <2>3, <2>4 DEF Seen
  <1>6. CASE g = f
    <2>1. ~Changing(f) /\ ~Announced(f) /\ sync.pc # "boot"
      BY <1>1, <1>6, SpoilGrows
    <2>2. ~Doomed(e)
      BY <1>3, <2>1, DoomedAnnounced
    <2>3. ~ \E b \in Changers : Moves(b, e)
      BY <2>1 DEF Moves, On, Changing
    <2>4. m = last[f]
      BY <1>4, <2>2, <2>3 DEF Seen
    <2>5. m # d
      BY <1>1, <1>3, <1>6 DEF Wrong, TypeInv, TypeOK
    <2>6. m = Other(d) /\ ~change'[c].again
      BY <1>2, <1>3, <1>6, <2>4, <2>5 DEF Other, TypeInv, TypeOK
    <2>7. Moves(c, e)'
      BY <1>2, <1>6, <2>6 DEF Moves, On
    <2> QED
      BY <2>7 DEF Seen
  <1> QED
    BY <1>5, <1>6

(* A goroutine that changes the family of the pair: it is alone, and the   *)
(* route sync has nothing to say about it.                                 *)
LEMMA OwnMetricStep ==
    ASSUME TypeInv, CoverInv, Live, ~lost, NEW c \in Changers, ChangeRuns(c),
           NEW r \in (installed \ (gone \cup refused)) \cap GatewayRoutes,
           NEW m \in Metrics, m # last[FamilyOf[r]], <<r, m>> \in main',
           change[c].fam = FamilyOf[r], Alone(FamilyOf[r]), FamilyOf[r] \notin spoilt',
           <<r, m>> \in main => Moves(c, <<r, m>>)
    PROVE  Moves(c, <<r, m>>)'
  <1> DEFINE e == <<r, m>>
             f == FamilyOf[r]
             Has(todo) == IF change[c].dir = "good" THEN \E x \in Metrics : <<r, x>> \in todo
                                                    ELSE e \in todo
  <1>1. /\ change[c].dir = last[f] /\ change[c].dir \in {"good", "fail"}
        /\ r \in Routes /\ e \in Entries
    BY ChangeFrame, GatewayRoutesAssumption
    DEF Alone, On, TypeInv, TypeOK, Entries
  <1>2. ASSUME NEW p \in {"add", "delete"}, NEW todo, NEW x, Continues(c, p, todo, x),
               Moves(c, e), Has(todo) \/ (p = "delete" /\ x = e)
        PROVE  Moves(c, e)'
    BY <1>2 DEF Continues, Moves, On
  <1>0. ASSUME Idles(c), main' = main, NEW P, Spoil(f, ~change[c].again \/ P)
        PROVE  Moves(c, e)'
    BY <1>0, SpoilGrows DEF Moves
  <1>3. ASSUME Continues(c, "add", Listed(c), change[c].entry), List(c)
        PROVE  Moves(c, e)'
    <2>1. Continues(c, "add", Listed(c), change[c].entry) /\ main' = main
      BY <1>3 DEF List
    <2>2. e \in EntriesOf(f)
      BY <1>1 DEF EntriesOf, IsGateway
    <2>3. CASE change[c].dir = "good"
      <3>1. Copied(PairsIn(r))
        BY DEF CoverInv
      <3>2. PairsIn(r) \subseteq EntriesOf(f)
        BY DEF PairsIn, EntriesOf, IsGateway
      <3>3. ~Announced(f) /\ sync.pc # "boot"
        BY DEF Alone
      <3>4. ~Announces(PairsIn(r)) /\ ~Adding(PairsIn(r))
        BY <3>2, <3>3 DEF Announces, Tells, Adding, Announced
      <3>5. own \cap PairsIn(r) # {}
        BY <3>1, <3>3, <3>4 DEF Copied, Held
      <3>6. PICK y \in Entries : y \in own /\ y[1] = r
        BY <3>5 DEF PairsIn
      <3>7. y \in EntriesOf(f) /\ y[2] \in Metrics /\ y = <<r, y[2]>>
        BY <3>2, <3>6, EntryFacts DEF PairsIn
      <3>8. Has(Listed(c))
        BY <2>3, <3>6, <3>7 DEF Listed
      <3> QED
        BY <1>2, <2>1, <3>8
    <2>4. CASE change[c].dir = "fail"
      <3>1. Has(Listed(c))
        BY <2>1, <2>2, <2>4 DEF Listed
      <3> QED
        BY <1>2, <2>1, <3>1
    <2> QED
      BY <1>1, <2>3, <2>4
  <1>4. ASSUME NEW x \in Entries, ChangeAdd(c, x) PROVE Moves(c, e)'
    <2> DEFINE new == <<x[1], change[c].dir>>
    <2>1. CASE /\ main' = main /\ Idles(c)
               /\ Spoil(f, ~change[c].again \/ new \notin main)
      BY <1>0, <2>1
    <2>2. CASE /\ Continues(c, "delete", change[c].todo \ {x}, Source(c, x))
               /\ main' = main \cup {new}
      <3>1. Continues(c, "delete", change[c].todo \ {x}, Source(c, x))
            /\ main' = main \cup {new}
        BY <2>2
      <3>2. e # new
        BY <1>1
      <3>3. Moves(c, e) /\ change[c].pc = "add"
        BY <1>4, <3>1, <3>2 DEF ChangeAdd
      <3>4. Has(change[c].todo) /\ m = Other(change[c].dir)
        BY <3>3 DEF Moves
      <3>5. CASE x[1] = r /\ change[c].dir = "good"
        <4>1. Source(c, x) = e
          BY <3>4, <3>5 DEF Source, Other
        <4> QED
          BY <1>2, <3>1, <3>3, <4>1
      <3>6. CASE x[1] # r /\ change[c].dir = "good"
        <4>1. Has(change[c].todo \ {x})
          BY <3>4, <3>6
        <4> QED
          BY <1>2, <3>1, <3>3, <4>1
      <3>7. CASE change[c].dir = "fail"
        <4>1. Has(change[c].todo \ {x}) \/ Source(c, x) = e
          BY <3>4, <3>7 DEF Source
        <4> QED
          BY <1>2, <3>1, <3>3, <4>1
      <3> QED
        BY <1>1, <3>5, <3>6, <3>7
    <2> QED
      BY <1>4, <2>1, <2>2, ChangeAddFacts
  <1>5. CASE ChangeDelete(c)
    <2> DEFINE x == change[c].entry
    <2>1. /\ main' = main \ {x} /\ Spoil(f, x \notin main)
          /\ x \in main => Continues(c, "add", change[c].todo, NoEntry)
      BY <1>5, ChangeDeleteFacts
    <2>2. x \in main
      BY <2>1, SpoilGrows
    <2>3. Moves(c, e) /\ e # x /\ change[c].pc = "delete"
      BY <1>5, <2>1 DEF ChangeDelete
    <2>4. Has(change[c].todo)
      BY <2>3 DEF Moves
    <2> QED
      BY <1>2, <2>1, <2>2, <2>3, <2>4
  <1>6. CASE ChangeDone(c)
    BY <1>6 DEF ChangeDone, Moves
  <1>7. CASE List(c)
    <2>1. CASE Idles(c) /\ Spoil(f, ~change[c].again)
      <3>1. Spoil(f, ~change[c].again \/ FALSE) /\ main' = main
        BY <1>7, <2>1 DEF List
      <3> QED
        BY <1>0, <2>1, <3>1
    <2> QED
      BY <1>3, <1>7, <2>1, ListFacts DEF TypeInv
  <1> QED
    BY <1>4, <1>5, <1>6, <1>7 DEF ChangeRuns

LEMMA ChangeMetric ==
    ASSUME TypeInv, CoverInv, AloneInv, MetricInv, NEW c \in Changers, ChangeRuns(c),
           Live', ~lost',
           NEW r \in (installed' \ (gone' \cup refused')) \cap GatewayRoutes, FamilyOf[r] \notin spoilt',
           NEW m \in Wrong(r)'
    PROVE  Seen(<<r, m>>)'
  <1> DEFINE e == <<r, m>>
             f == FamilyOf[r]
             g == change[c].fam
  <1>1. /\ UNCHANGED <<installed, gone, refused, queue, sync, lost, last>>
        /\ change[c].pc # "idle" /\ Live /\ ~Restart
    BY ChangeFrame DEF changeFrame, beginFrame, operator, Live, Restart
  <1>2. /\ f \in Families /\ f \notin spoilt /\ e \in main' /\ m \in Metrics
        /\ m # last[f] /\ r \in Routes
    <2>1. f \notin spoilt
      BY <1>1, SpoiltStays DEF Next
    <2> QED
      BY <1>1, <2>1, RouteFamilyAssumption, GatewayRoutesAssumption DEF Wrong, PairsOf
  <1>3. e \in main => Seen(e)
    <2>1. e \in main => m \in Wrong(r)
      BY <1>2 DEF Wrong, PairsOf
    <2> QED
      BY <1>1, <1>2, <2>1 DEF MetricInv
  <1>4. Others(c)
    BY ListFacts, ChangeAddFacts, ChangeDeleteFacts, ChangeDoneFacts
    DEF ChangeRuns, Continues, Idles, TypeInv
  <1>5. \A b \in Changers \ {c} : Moves(b, e)' <=> Moves(b, e)
    BY <1>4, MovesKept DEF Others
  <1>6. CASE g # f
    <2>1. ~Moves(c, e)
      BY <1>6 DEF Moves, On
    <2>2. e \in main
      <3>1. ASSUME NEW x \in Entries, ChangeAdd(c, x) PROVE e \in main
        <4>1. FamilyOf[x[1]] = g
          BY <3>1 DEF ChangeAdd, TypeInv, ChangeInv, EntriesOf
        <4>2. main' \subseteq main \cup {<<x[1], change[c].dir>>}
          BY <3>1, ChangeAddFacts
        <4> QED
          BY <1>2, <1>6, <4>1, <4>2
      <3>2. (\E x \in Entries : ChangeAdd(c, x)) \/ main' \subseteq main
        BY DEF ChangeRuns, List, ChangeDelete, ChangeDone
      <3> QED
        BY <1>2, <3>1, <3>2
    <2>3. Doomed(e) => Doomed(e)'
      BY <1>1, DoomedQueued
    <2> QED
      BY <1>3, <1>5, <2>1, <2>2, <2>3 DEF Seen
  <1>7. CASE g = f
    <2>1. On(c, f) /\ Alone(f)
      <3>1. On(c, f) /\ Changing(f)
        BY <1>1, <1>7 DEF On, Changing
      <3> QED
        BY <1>1, <1>2, <3>1 DEF AloneInv, Alone
    <2>2. ASSUME e \in main PROVE Moves(c, e)
      <3>1. e \in EntriesOf(f)
        BY <1>2 DEF EntriesOf, Entries, IsGateway
      <3>2. ~Doomed(e)
        BY <2>1, <3>1, DoomedAnnounced DEF Alone
      <3>3. \A b \in Changers : Moves(b, e) => b = c
        BY <2>1 DEF Moves, Alone
      <3> QED
        BY <1>3, <2>2, <3>2, <3>3 DEF Seen
    <2>3. Moves(c, e)'
      BY <1>1, <1>2, <1>7, <2>1, <2>2, OwnMetricStep
    <2> QED
      BY <2>3 DEF Seen
  <1> QED
    BY <1>6, <1>7

LEMMA MetricStep ==
    TypeInv /\ CoverInv /\ AloneInv /\ TargetInv /\ GhostInv /\ MetricInv /\ [Next]_vars
        => MetricInv'
  <1> SUFFICES ASSUME TypeInv, CoverInv, AloneInv, TargetInv, GhostInv, MetricInv,
                      [Next]_vars, Live', ~lost',
                      NEW r \in (installed' \ (gone' \cup refused')) \cap GatewayRoutes,
                      FamilyOf[r] \notin spoilt', NEW m \in Wrong(r)'
               PROVE  Seen(<<r, m>>)'
    BY DEF MetricInv
  <1>1. CASE SyncRuns \/ Bootstrap
    BY <1>1, SyncMetric
  <1>2. CASE Operator
    BY <1>2, OperatorMetric DEF Operator
  <1>3. CASE \E c \in Changers : ChangeRuns(c)
    BY <1>3, ChangeMetric
  <1>4. CASE \E c \in Changers, f \in Families, d \in {"good", "fail"} : Begin(c, f, d)
    BY <1>4, BeginMetric
  <1>5. CASE Stop \/ UNCHANGED vars
    <2>1. UNCHANGED <<main, installed, gone, refused, queue, sync, change, lost, last,
                      spoilt>>
      BY <1>5 DEF Stop, vars, tables, operator, history
    <2>2. Live /\ m \in Wrong(r) /\ Seen(<<r, m>>)
      <3>1. Live /\ m \in Wrong(r)
        BY <2>1 DEF Live, Wrong, PairsOf
      <3> QED
        BY <2>1, <3>1 DEF MetricInv
    <2> QED
      BY <2>1, <2>2, DoomedQueued, MovesKept DEF Seen
  <1>6. CASE Crash
    BY <1>6 DEF Crash, IdleSync, Live
  <1>7. CASE Restart
    BY <1>7 DEF Restart, Dialled, IdleSync, Live, Seen, Doomed
  <1> QED
    BY <1>1, <1>2, <1>3, <1>4, <1>5, <1>6, <1>7 DEF Next

(* Once everything is handled, the gateway routes of a family that was     *)
(* never spoilt have the metric of the family's last change, and no other  *)
(* (nexthop.go:77-133, route.go:302-311): a pair with another metric is    *)
(* announced to the route sync, which reads the metric as it handles it,   *)
(* or in the hands of the one goroutine that changes the family.           *)
THEOREM MetricsAgree == Spec => []MetricAgrees
  <1>1. TypeInv /\ CountInv /\ MetricInv => MetricAgrees
    <2> SUFFICES ASSUME TypeInv, CountInv, MetricInv, Settled, ~lost,
                        NEW r \in (installed \ (gone \cup refused)) \cap GatewayRoutes,
                        FamilyOf[r] \notin spoilt
                 PROVE  PairsOf(r) = {last[FamilyOf[r]]}
      BY DEF MetricAgrees
    <2>1. Live /\ ~Cleaning /\ DOMAIN queue = {}
      BY DEF Settled, Live, Cleaning
    <2>2. PairsOf(r) # {}
      BY <2>1, NonEmpty
    <2>3. ASSUME NEW m \in Wrong(r) PROVE FALSE
      <3>1. Seen(<<r, m>>)
        BY <2>1, <2>3 DEF MetricInv
      <3> QED
        BY <2>1, <3>1 DEF Seen, Doomed, Moves, On, Settled
    <2> QED
      BY <2>2, <2>3 DEF Wrong
  <1>2. Init => AloneInv /\ TargetInv /\ GhostInv /\ MetricInv
    <2> SUFFICES ASSUME Init PROVE AloneInv /\ TargetInv /\ GhostInv /\ MetricInv
      OBVIOUS
    <2>1. sync.pc \in {"boot", "ended"} /\ \A c \in Changers : change[c].pc = "idle"
      BY DEF Init, Dialled, IdleSync, IdleChange
    <2>2. AloneInv /\ TargetInv
      BY <2>1 DEF AloneInv, TargetInv, Changing
    <2>3. GhostInv
      BY DEF Init, GhostInv, PairsOf
    <2>4. MetricInv
      BY <2>1 DEF MetricInv, Seen, Doomed, Live
    <2> QED
      BY <2>2, <2>3, <2>4
  <1> QED
    BY <1>1, <1>2, TypeInit, TypeStep, CountInit, CountStep, CoverInit, CoverStep,
       AloneStep, TargetStep, GhostStep, MetricStep, PTL DEF Spec
=============================================================================
