-------------------------- MODULE ThreadPoolProofs --------------------------
(***************************************************************************)
(* What the start of the pool promises for any number of threads.          *)
(***************************************************************************)
EXTENDS ThreadPool, TLAPS

HasSlot == {"published", "loop", "ended"}

\* The threads before slot i have taken their slots in turn, thread i is
\* being started, and the later ones do not exist: so index_ is i until
\* thread i advances it.
InTurn ==
  /\ \A k \in Slots : k < i => thread[k] \in HasSlot
  /\ \A k \in Slots : k > i => thread[k] = "none"
  /\ \A k \in Slots : loops_[k] = IF thread[k] \in HasSlot THEN k ELSE NULL
  /\ index_ = IF i < Num /\ thread[i] \in HasSlot THEN i + 1 ELSE i
  /\ starter \in {"done", "join", "joined"} <=> i = Num
  /\ i < Num => (starter = "create" <=> thread[i] = "none")

\* The starter is past Thread::start() only when thread i has incremented its
\* counter, so it does not wait on the pool for a thread still to be started.
CountersTell ==
  /\ \A k \in Slots : cond_num[k] = IF thread[k] \in {"none", "created"} THEN 0 ELSE 1
  /\ starter \in {"poolTest", "poolWait"} => cond_num[i] = 1

\* The inductive invariant.
IInv ==
  /\ TypeOK
  /\ InTurn
  /\ PoolSignalToCome
  /\ NextLoopNotNull
  /\ CountersTell

USE ThreadPoolAssumption DEF Slots, HasSlot, poolVars

\* The inductive invariant holds before the pool is started.
LEMMA InitIInv == Init => IInv
  BY DEF Init, IInv, TypeOK, InTurn, CountersTell, PoolSignalToCome, NextLoopNotNull

\* Every step of the starter and of the threads keeps it.
LEMMA StepIInv == IInv /\ [Next]_vars => IInv'
  <1> SUFFICES ASSUME IInv, [Next]_vars PROVE IInv'
    OBVIOUS
  <1> USE DEF IInv, TypeOK, InTurn, CountersTell, PoolSignalToCome, NextLoopNotNull
  <1>1. CASE CreateThread
    BY <1>1 DEF CreateThread
  <1>2. CASE TestCondNum
    BY <1>2 DEF TestCondNum
  <1>3. CASE WaitForThread
    BY <1>3 DEF WaitForThread
  <1>4. CASE PoolTest
    <2>1. i < Num /\ thread[i] # "none" /\ cond_num[i] = 1
      BY <1>4 DEF PoolTest, Ready
    <2>2. CASE loops_[i] = NULL
      BY <1>4, <2>1, <2>2 DEF PoolTest, Ready
    <2>3. CASE loops_[i] # NULL /\ i + 1 < Num
      BY <1>4, <2>1, <2>3 DEF PoolTest, Ready
    <2>4. CASE loops_[i] # NULL /\ ~(i + 1 < Num)
      BY <1>4, <2>1, <2>4 DEF PoolTest, Ready
    <2> QED BY <2>2, <2>3, <2>4
  <1>5. CASE SpuriousWakeup
    BY <1>5 DEF SpuriousWakeup
  <1>6. ASSUME NEW k \in Slots, Increment(k) PROVE IInv'
    BY <1>6 DEF Increment
  <1>7. ASSUME NEW k \in Slots, SignalStarter(k) PROVE IInv'
    BY <1>7 DEF SignalStarter
  <1>8. ASSUME NEW k \in Slots, PublishLoop(k) PROVE IInv'
    <2>1. k = i /\ i < Num /\ index_ = i
      BY <1>8 DEF PublishLoop, NextIndex
    <2> QED BY <1>8, <2>1 DEF PublishLoop, NextIndex
  <1>9. ASSUME NEW k \in Slots, SignalPool(k) PROVE IInv'
    BY <1>9 DEF SignalPool, WakeUpOne
  <1>10. CASE GetNextLoop
    <2>1. CASE Num = 0
      BY <1>10, <2>1 DEF GetNextLoop
    <2>2. CASE Num # 0
      <3>1. currentLoop' \in Slots
        BY <1>10, <2>2 DEF GetNextLoop
      <3>2. nextLoop' = currentLoop'
        BY <1>10, <2>2, <3>1 DEF GetNextLoop
      <3> QED BY <1>10, <2>2, <3>1, <3>2 DEF GetNextLoop
    <2> QED BY <2>1, <2>2
  <1>11. ASSUME NEW k \in Slots, LoopEnds(k) PROVE IInv'
    BY <1>11 DEF LoopEnds
  <1>12. CASE Join
    BY <1>12 DEF Join
  <1>13. CASE JoinThread
    BY <1>13 DEF JoinThread
  <1>14. CASE UNCHANGED vars
    BY <1>14 DEF vars
  <1> QED
    BY <1>1, <1>2, <1>3, <1>4, <1>5, <1>6, <1>7, <1>8, <1>9, <1>10, <1>11,
       <1>12, <1>13, <1>14
    DEF Next, StarterStep, ThreadStep

\* The inductive invariant holds in every behaviour.
LEMMA IInvHolds == Spec => []IInv
  BY InitIInv, StepIInv, PTL DEF Spec

\* Every variable of the pool keeps its type, whatever its size.
THEOREM Typing == Spec => []TypeOK
  <1>1. IInv => TypeOK
    BY DEF IInv
  <1> QED BY <1>1, IInvHolds, PTL

\* Whatever the size of the pool, every thread ends up in the slot it was
\* started for.
THEOREM SlotsAreOwn == Spec => []OwnSlot
  <1>1. IInv => OwnSlot
    BY DEF IInv, TypeOK, InTurn, OwnSlot
  <1> QED BY <1>1, IInvHolds, PTL

\* Whatever the size of the pool, getNextLoop() returns a loop: the assertion
\* of newConnection() cannot fail.
THEOREM NextLoopExists == Spec => []NextLoopNotNull
  <1>1. IInv => NextLoopNotNull
    BY DEF IInv
  <1> QED BY <1>1, IInvHolds, PTL

\* The handshake of the pool, unlike that of Thread, never misses its signal.
THEOREM PoolSignalNeverMissed == Spec => []PoolSignalToCome
  <1>1. IInv => PoolSignalToCome
    BY DEF IInv
  <1> QED BY <1>1, IInvHolds, PTL
=============================================================================
