-------------------------- MODULE IcmpMonitorProofs --------------------------
(***************************************************************************)
(* Proofs about IcmpMonitor, for any set of goroutines that call Stop.     *)
(*                                                                         *)
(* The WaitGroup counts the burst exactly while one is under way           *)
(* (CountInv), and whoever has called Stop has cancelled the context       *)
(* first (StopInv).  So a Stop that finds the counter at zero knows that   *)
(* no burst can decide on a callback any more.                             *)
(***************************************************************************)
EXTENDS IcmpMonitor, TLAPS

Counted == {"ping", "check", "decided", "down", "up", "deferred"}

CountInv == count = IF loop \in Counted THEN 1 ELSE 0

StopInv == \A s \in Stoppers : stop[s] # "none" => ctx

IInv == TypeOK /\ CountInv /\ StopInv /\ NoCallbackAfterStop

LEMMA InitInv == Init => IInv
<1> SUFFICES ASSUME Init PROVE IInv
  OBVIOUS
<1>1. TypeOK
  <2>1. stop \in [Stoppers -> Stops]
    BY DEF Init, Stops
  <2>2. leaked \in 0 .. MaxLeaked /\ count \in 0 .. 1
    BY MaxLeakedAssumption DEF Init
  <2> QED
    BY <2>1, <2>2 DEF Init, TypeOK, Loops
<1>2. CountInv /\ StopInv
  BY DEF Init, CountInv, StopInv, Counted
<1>3. NoCallbackAfterStop
  BY DEF Init, NoCallbackAfterStop
<1> QED
  BY <1>1, <1>2, <1>3 DEF IInv

LEMMA TypeInv == TypeOK /\ CountInv /\ [Next]_vars => TypeOK'
<1> SUFFICES ASSUME TypeOK, CountInv, [Next]_vars PROVE TypeOK'
  OBVIOUS
<1> USE DEF TypeOK, Loops
<1>1. CASE Tick \/ Leave \/ TakeTick \/ WatcherEnds \/ ParentCancel
  BY <1>1 DEF Tick, Leave, TakeTick, WatcherEnds, ParentCancel
<1>2. CASE LeakedEnds
  <2>1. leaked' \in 0 .. MaxLeaked
    BY <1>2, MaxLeakedAssumption DEF LeakedEnds
  <2> QED
    BY <1>2, <2>1 DEF LeakedEnds
<1>3. CASE Add
  BY <1>3 DEF Add, CountInv, Counted
<1>4. CASE PingFails
  <2>1. leaked' \in 0 .. MaxLeaked
    BY <1>4, MaxLeakedAssumption DEF PingFails
  <2> QED
    BY <1>4, <2>1 DEF PingFails
<1>5. CASE PingEnds \/ Check \/ Call \/ CallReturns
  BY <1>5 DEF PingEnds, Check, Call, CallReturns
<1>6. CASE Done
  <2>1. count' \in 0 .. 1
    BY <1>6 DEF Done, CountInv, Counted
  <2>2. stop' \in [Stoppers -> Stops]
    BY <1>6 DEF Done, Stops
  <2> QED
    BY <1>6, <2>1, <2>2 DEF Done
<1>7. ASSUME NEW s \in Stoppers, CallStop(s) \/ Wait(s) \/ Wake(s)
      PROVE  TypeOK'
  BY <1>7 DEF CallStop, Wait, Wake, Stops
<1>8. CASE UNCHANGED vars
  BY <1>8 DEF vars
<1> QED
  BY <1>1, <1>2, <1>3, <1>4, <1>5, <1>6, <1>7, <1>8 DEF Next, Burst

LEMMA InvStep == IInv /\ [Next]_vars => IInv'
<1> SUFFICES ASSUME IInv, [Next]_vars PROVE IInv'
  OBVIOUS
<1>0. TypeOK'
  BY TypeInv DEF IInv
<1> USE DEF IInv, CountInv, StopInv, NoCallbackAfterStop, Returned, Counted
<1>1. CASE Tick \/ Leave \/ TakeTick \/ WatcherEnds \/ LeakedEnds \/ ParentCancel
  BY <1>0, <1>1
  DEF Tick, Leave, TakeTick, WatcherEnds, LeakedEnds, ParentCancel
<1>2. CASE Add \/ PingEnds \/ PingFails \/ Check \/ Call \/ CallReturns
  BY <1>0, <1>2
  DEF Add, PingEnds, PingFails, Check, Call, CallReturns, TypeOK
<1>3. CASE Done
  BY <1>0, <1>3 DEF Done, TypeOK
<1>4. ASSUME NEW s \in Stoppers, CallStop(s) \/ Wait(s) \/ Wake(s)
      PROVE  IInv'
  <2>1. CASE CallStop(s)
    BY <1>0, <2>1 DEF CallStop, TypeOK
  <2>2. CASE Wait(s)
    BY <1>0, <2>2 DEF Wait, TypeOK
  <2>3. CASE Wake(s)
    BY <1>0, <2>3 DEF Wake, TypeOK
  <2> QED
    BY <1>4, <2>1, <2>2, <2>3
<1>5. CASE UNCHANGED vars
  BY <1>0, <1>5 DEF vars
<1> QED
  BY <1>1, <1>2, <1>3, <1>4, <1>5 DEF Next, Burst

LEMMA Invariance == Spec => []IInv
BY InitInv, InvStep, PTL DEF Spec

(* The variables stay in their types.                                      *)
THEOREM TypeCorrect == Spec => []TypeOK
<1>1. IInv => TypeOK
  BY DEF IInv
<1> QED
  BY <1>1, Invariance, PTL

(* Once a Stop has returned no callback runs, or is decided on, any more.  *)
THEOREM StopIsFinal == Spec => []NoCallbackAfterStop
<1>1. IInv => NoCallbackAfterStop
  BY DEF IInv
<1> QED
  BY <1>1, Invariance, PTL

-----------------------------------------------------------------------------
(* Every step of the monitor is a step of its contract, or leaves the      *)
(* contract's variables alone.                                             *)
LEMMA ContractStep == IInv /\ IInv' /\ [Next]_vars => [Contract!Next]_(Contract!vars)
<1> SUFFICES ASSUME IInv, IInv', [Next]_vars
             PROVE  Contract!Next \/ UNCHANGED Contract!vars
  OBVIOUS
<1> USE DEF Contract!Next, Contract!vars, Returned
<1>1. CASE Tick \/ Leave \/ TakeTick \/ WatcherEnds \/ LeakedEnds
  BY <1>1 DEF Tick, Leave, TakeTick, WatcherEnds, LeakedEnds
<1>2. CASE Add \/ PingEnds \/ PingFails
  BY <1>2 DEF Add, PingEnds, PingFails
<1>3. CASE Check
  <2>1. CASE ctx
    BY <1>3, <2>1 DEF Check
  <2>2. CASE ~ctx
    <3>1. Contract!Decide
      BY <1>3, <2>2 DEF Check, Contract!Decide
    <3> QED
      BY <3>1
  <2> QED
    BY <2>1, <2>2
<1>4. CASE Call
  <2>1. Contract!Begin
    BY <1>4 DEF Call, Contract!Begin
  <2> QED
    BY <2>1
<1>5. CASE CallReturns
  <2>1. Contract!End
    BY <1>5 DEF CallReturns, Contract!End
  <2> QED
    BY <2>1
<1>6. CASE Done
  BY <1>6 DEF Done, IInv, TypeOK
<1>7. CASE ParentCancel
  <2>1. Contract!Cancel
    BY <1>7 DEF ParentCancel, Contract!Cancel
  <2> QED
    BY <2>1
<1>8. ASSUME NEW s \in Stoppers, CallStop(s) \/ Wait(s) \/ Wake(s)
      PROVE  Contract!Next \/ UNCHANGED Contract!vars
  <2>1. CASE CallStop(s)
    <3>1. Contract!Cancel
      BY <2>1 DEF CallStop, Contract!Cancel, IInv, TypeOK
    <3> QED
      BY <3>1
  <2>2. CASE Wait(s) \/ Wake(s)
    <3>1. CASE stop'[s] = "returned"
      <4>1. count = 0 /\ ctx /\ Returned' /\ UNCHANGED <<loop, ctx>>
        BY <2>2, <3>1 DEF Wait, Wake, IInv, StopInv, TypeOK
      <4>2. Contract!Return
        BY <4>1 DEF Contract!Return, IInv, CountInv, Counted, TypeOK
      <4> QED
        BY <4>2
    <3>2. CASE stop'[s] # "returned"
      BY <2>2, <3>2 DEF Wait, Wake, IInv, TypeOK
    <3> QED
      BY <3>1, <3>2
  <2> QED
    BY <1>8, <2>1, <2>2
<1>9. CASE UNCHANGED vars
  BY <1>9 DEF vars
<1> QED
  BY <1>1, <1>2, <1>3, <1>4, <1>5, <1>6, <1>7, <1>8, <1>9 DEF Next, Burst

(* The monitor keeps the contract under which the server stops it.         *)
THEOREM KeepsContract == Spec => ImplementsContract
<1>1. Init => Contract!Init
  BY DEF Init, Contract!Init, Returned
<1> QED
  BY <1>1, ContractStep, Invariance, PTL
  DEF Spec, ImplementsContract, Contract!Spec
=============================================================================
