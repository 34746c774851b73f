----------------------------- MODULE ThreadPool -----------------------------
(***************************************************************************)
(* An EventLoopThreadPool (net/EventLoopThreadPool.cc): start() with the   *)
(* handshake of Thread::start() (base/Thread.cc) inside it, the calls of   *)
(* getNextLoop() that follow, the end of a loop, and join().               *)
(*                                                                         *)
(* The starter first waits on the condition of the Thread, whose counter   *)
(* the new thread increments and signals without the mutex, and then on    *)
(* the condition of the pool, whose predicate is set under mutex_.  A      *)
(* critical section of mutex_ that does not wait is one step.              *)
(***************************************************************************)
EXTENDS Integers

CONSTANTS
  Num,    \* num_, the number of threads of the pool
  NULL,   \* no loop
  loop_   \* the loop of the starter

ASSUME ThreadPoolAssumption ==
  /\ Num \in Nat
  /\ NULL \notin -1..(Num - 1)
  /\ loop_ # NULL

Slots == 0..(Num - 1)

VARIABLES
  starter,      \* where the thread that starts and joins the pool is
  i,            \* the loop variable of start()
  thread,       \* where each created thread is
  cond_num,     \* the counter of each Thread
  loops_,       \* slot to the thread whose EventLoop it points to
  index_,       \* the next slot
  currentLoop,  \* cursor of getNextLoop()
  nextLoop,     \* the loop getNextLoop() returned last, -1 before
  joined        \* the loop variable of join()

poolVars == <<loops_, index_, currentLoop, nextLoop, joined>>
vars == <<starter, i, thread, cond_num, poolVars>>

Init ==
  /\ starter = IF Num = 0 THEN "done" ELSE "create"
  /\ i = 0
  /\ thread = [k \in Slots |-> "none"]
  /\ cond_num = [k \in Slots |-> 0]
  /\ loops_ = [k \in Slots |-> NULL]
  /\ index_ = 0
  /\ currentLoop = -1
  /\ nextLoop = -1
  /\ joined = 0
-----------------------------------------------------------------------------
(* Thread::start(): pthread_create, then while(cond_num==0) _cond.wait().  *)

CreateThread ==
  /\ starter = "create"
  /\ thread' = [thread EXCEPT ![i] = "created"]
  /\ starter' = "test"
  /\ UNCHANGED <<i, cond_num, poolVars>>

TestCondNum ==
  /\ starter = "test"
  /\ starter' = IF cond_num[i] = 0 THEN "beforeWait" ELSE "poolTest"
  /\ UNCHANGED <<i, thread, cond_num, poolVars>>

\* Mutex held by the starter only: nothing keeps the signal from coming first.
WaitForThread ==
  /\ starter = "beforeWait"
  /\ starter' = "wait"
  /\ UNCHANGED <<i, thread, cond_num, poolVars>>

(* EventLoopThreadPool::start(): while(loops_[i]==NULL) cond_.wait().      *)

\* Mutant: cond_num alone is taken for the loop being ready.
ReadyOnceRunning == TRUE

Ready == loops_[i] # NULL

PoolTest ==
  /\ starter = "poolTest"
  /\ IF ~Ready
     THEN starter' = "poolWait" /\ UNCHANGED i
     ELSE starter' = (IF i + 1 < Num THEN "create" ELSE "done") /\ i' = i + 1
  /\ UNCHANGED <<thread, cond_num, poolVars>>

\* pthread_cond_wait may return with no signal.
SpuriousWakeup ==
  /\ \/ starter = "wait" /\ starter' = "test"
     \/ starter = "poolWait" /\ starter' = "poolTest"
  /\ UNCHANGED <<i, thread, cond_num, poolVars>>
-----------------------------------------------------------------------------
(* The new thread k: ThreadData::run(), then threadFunc().                 *)

Increment(k) ==
  /\ thread[k] = "created"
  /\ cond_num' = [cond_num EXCEPT ![k] = @ + 1]
  /\ thread' = [thread EXCEPT ![k] = "signal"]
  /\ UNCHANGED <<starter, i, poolVars>>

\* The starter waits on the condition of the Thread it is starting.
SignalStarter(k) ==
  /\ thread[k] = "signal"
  /\ thread' = [thread EXCEPT ![k] = "threadFunc"]
  /\ starter' = IF starter = "wait" /\ i = k THEN "test" ELSE starter
  /\ UNCHANGED <<i, cond_num, poolVars>>

\* Mutant: index_ is not advanced.
IndexKept == index_

NextIndex == index_ + 1

\* loops_[index_++]=&loop, under mutex_.
PublishLoop(k) ==
  /\ thread[k] = "threadFunc"
  /\ loops_' = [loops_ EXCEPT ![index_] = k]
  /\ index_' = NextIndex
  /\ thread' = [thread EXCEPT ![k] = "published"]
  /\ UNCHANGED <<starter, i, cond_num, currentLoop, nextLoop, joined>>

\* Mutant: cond_.wakeUpOne() is forgotten.
WakeNobody == starter

WakeUpOne == IF starter = "poolWait" THEN "poolTest" ELSE starter

SignalPool(k) ==
  /\ thread[k] = "published"
  /\ thread' = [thread EXCEPT ![k] = "loop"]
  /\ starter' = WakeUpOne
  /\ UNCHANGED <<i, cond_num, poolVars>>

\* epoll_wait() fails: loop() returns, the EventLoop on the stack of
\* threadFunc() is destroyed, its slot still points to it.
LoopEnds(k) ==
  /\ thread[k] = "loop"
  /\ thread' = [thread EXCEPT ![k] = "ended"]
  /\ UNCHANGED <<starter, i, cond_num, poolVars>>
-----------------------------------------------------------------------------
\* getNextLoop(), called by newConnection() once start() has returned.
GetNextLoop ==
  /\ starter = "done"
  /\ IF Num = 0 THEN nextLoop' = loop_ /\ UNCHANGED currentLoop
     ELSE currentLoop' = (currentLoop + 1) % Num /\ nextLoop' = loops_[currentLoop']
  /\ UNCHANGED <<starter, i, thread, cond_num, loops_, index_, joined>>

\* join(): Thread::join() of each thread in turn.
Join ==
  /\ starter = "done"
  /\ starter' = "join"
  /\ UNCHANGED <<i, thread, cond_num, poolVars>>

JoinThread ==
  /\ starter = "join"
  /\ IF joined < Num
     THEN thread[joined] = "ended" /\ joined' = joined + 1 /\ UNCHANGED starter
     ELSE starter' = "joined" /\ UNCHANGED joined
  /\ UNCHANGED <<i, thread, cond_num, loops_, index_, currentLoop, nextLoop>>

ThreadStep(k) == Increment(k) \/ SignalStarter(k) \/ PublishLoop(k) \/ SignalPool(k)
StarterStep == CreateThread \/ TestCondNum \/ WaitForThread \/ PoolTest

Next ==
  \/ StarterStep \/ SpuriousWakeup
  \/ GetNextLoop \/ Join \/ JoinThread
  \/ \E k \in Slots : ThreadStep(k) \/ LoopEnds(k)

Spec == Init /\ [][Next]_vars

\* The scheduler runs every thread that is not waiting.  A condition may
\* return without a signal but nobody may count on it.
Fairness == WF_vars(StarterStep) /\ \A k \in Slots : WF_vars(ThreadStep(k))

FairSpec == Spec /\ Fairness
-----------------------------------------------------------------------------
\* The types; joining begins when all threads have their slots.
TypeOK ==
  /\ starter \in {"create", "test", "beforeWait", "wait", "poolTest", "poolWait",
                  "done", "join", "joined"}
  /\ i \in 0..Num
  /\ thread \in [Slots -> {"none", "created", "signal", "threadFunc", "published",
                           "loop", "ended"}]
  /\ cond_num \in [Slots -> 0..1]
  /\ loops_ \in [Slots -> Slots \cup {NULL}]
  /\ index_ \in 0..Num
  /\ currentLoop \in -1..(Num - 1)
  /\ nextLoop \in Slots \cup {-1, NULL, loop_}
  /\ joined \in 0..Num

\* Each slot points to the loop of the thread started for it, although the
\* threads take their slots themselves, from a shared index_: start() does
\* not create the next thread before this one has taken its slot.
OwnSlot ==
  \A k \in Slots : loops_[k] # NULL => loops_[k] = k

\* getNextLoop() never returns a slot that is still empty (the assertion at
\* TcpServer.cc:73): start() returns only when every loop is published.
NextLoopNotNull == nextLoop # NULL

\* The wait for loops_[i] loses no signal: while the starter sleeps on the
\* condition of the pool, the signal of the thread it waits for is to come.
PoolSignalToCome ==
  starter = "poolWait" => thread[i] \in {"signal", "threadFunc", "published"}

\* Thread.cc:37 says that start() waits for the created thread to run: once
\* the thread runs the function it was given, start() does not wait for it.
\* The signal may come between the test of cond_num and the wait.
StartReturnsOnceRunning ==
  \A k \in Slots :
    thread[k] \in {"threadFunc", "published", "loop"} ~> ~(starter = "wait" /\ i = k)
=============================================================================
