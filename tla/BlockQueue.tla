----------------------------- MODULE BlockQueue -----------------------------
(***************************************************************************)
(* base/BlockQueue.h: the bounded queue between the threads that log and   *)
(* the thread of the LogFile, with its mutex and two conditions.           *)
(*                                                                         *)
(* Every step is a critical section of mutex, from the lock or the return  *)
(* of wait() to the unlock or the next wait(): pthread_cond_wait releases  *)
(* the mutex and sleeps at once.  A woken thread competes for the mutex    *)
(* with the threads that enter, which may come first.                      *)
(***************************************************************************)
EXTENDS Naturals, Sequences, FiniteSets

CONSTANTS
  Producers,  \* threads that call push_back()
  Consumers,  \* threads that call pop_front()
  Capacity,   \* capacity
  MaxItems    \* bound of the model: items pushed by one producer

ASSUME BlockQueueAssumption ==
  /\ IsFiniteSet(Producers) /\ IsFiniteSet(Consumers)
  /\ Producers \cap Consumers = {}
  /\ Capacity \in Nat \ {0}
  /\ MaxItems \in Nat

VARIABLES
  queue_,        \* the deque
  used,          \* its counter
  waitForEmpty,  \* producers asleep on waitForEmpty
  waitForFull,   \* consumers asleep on waitForFull
  woken,         \* threads whose wait() is to return
  pushed,        \* history: items pushed, per producer
  popped         \* history: items returned, in order

vars == <<queue_, used, waitForEmpty, waitForFull, woken, pushed, popped>>

Threads == Producers \cup Consumers
Items == Producers \X (Nat \ {0})

Init ==
  /\ queue_ = <<>>
  /\ used = 0
  /\ waitForEmpty = {} /\ waitForFull = {} /\ woken = {}
  /\ pushed = [p \in Producers |-> 0]
  /\ popped = <<>>
-----------------------------------------------------------------------------
\* Inside the critical section: a thread that enters, or whose wait returned.
InPushBack(p) == p \notin waitForEmpty /\ pushed[p] < MaxItems
InPopFront(c) == c \notin waitForFull

\* Mutant: pop_front() signals only when the queue was full.
WakeProducerIfFull(t) ==
  \/ /\ waitForEmpty = {} \/ used # Capacity
     /\ woken' = woken \ {t} /\ UNCHANGED waitForEmpty
  \/ \E p \in waitForEmpty :
       used = Capacity /\ waitForEmpty' = waitForEmpty \ {p} /\ woken' = (woken \ {t}) \cup {p}

\* waitForEmpty.wakeUpOne(): t leaves the critical section, a producer wakes.
WakeProducer(t) ==
  \/ waitForEmpty = {} /\ woken' = woken \ {t} /\ UNCHANGED waitForEmpty
  \/ \E p \in waitForEmpty :
       waitForEmpty' = waitForEmpty \ {p} /\ woken' = (woken \ {t}) \cup {p}

\* Mutant: push_back() does not signal.
WakeNoConsumer(t) == woken' = woken \ {t} /\ UNCHANGED waitForFull

\* waitForFull.wakeUpOne()
WakeConsumer(t) ==
  \/ waitForFull = {} /\ woken' = woken \ {t} /\ UNCHANGED waitForFull
  \/ \E c \in waitForFull :
       waitForFull' = waitForFull \ {c} /\ woken' = (woken \ {t}) \cup {c}

\* Mutant: if instead of while around the wait of push_back().
TestsOnce(p) == used # Capacity \/ p \in woken

HasRoom(p) == used # Capacity

\* push_back() that finds room.
PushBack(p) ==
  /\ InPushBack(p)
  /\ HasRoom(p)
  /\ queue_' = Append(queue_, <<p, pushed[p] + 1>>)
  /\ used' = used + 1
  /\ pushed' = [pushed EXCEPT ![p] = @ + 1]
  /\ WakeConsumer(p)
  /\ UNCHANGED <<waitForEmpty, popped>>

PushBackWaits(p) ==
  /\ InPushBack(p)
  /\ used = Capacity
  /\ waitForEmpty' = waitForEmpty \cup {p}
  /\ woken' = woken \ {p}
  /\ UNCHANGED <<queue_, used, waitForFull, pushed, popped>>

\* pop_front() that finds an item.
PopFront(c) ==
  /\ InPopFront(c)
  /\ used # 0
  /\ popped' = Append(popped, Head(queue_))
  /\ queue_' = Tail(queue_)
  /\ used' = used - 1
  /\ WakeProducer(c)
  /\ UNCHANGED <<waitForFull, pushed>>

PopFrontWaits(c) ==
  /\ InPopFront(c)
  /\ used = 0
  /\ waitForFull' = waitForFull \cup {c}
  /\ woken' = woken \ {c}
  /\ UNCHANGED <<queue_, used, waitForEmpty, pushed, popped>>

\* pthread_cond_wait may return with no signal.
SpuriousWakeup(t) ==
  /\ t \in waitForEmpty \cup waitForFull
  /\ waitForEmpty' = waitForEmpty \ {t}
  /\ waitForFull' = waitForFull \ {t}
  /\ woken' = woken \cup {t}
  /\ UNCHANGED <<queue_, used, pushed, popped>>
-----------------------------------------------------------------------------
Next ==
  \/ \E p \in Producers : PushBack(p) \/ PushBackWaits(p)
  \/ \E c \in Consumers : PopFront(c) \/ PopFrontWaits(c)
  \/ \E t \in Threads : SpuriousWakeup(t)

Spec == Init /\ [][Next]_vars

\* A woken thread gets the mutex in the end; nobody is made to call.
Fairness ==
  /\ \A p \in Producers : WF_vars(p \in woken /\ (PushBack(p) \/ PushBackWaits(p)))
  /\ \A c \in Consumers : WF_vars(c \in woken /\ (PopFront(c) \/ PopFrontWaits(c)))

FairSpec == Spec /\ Fairness
-----------------------------------------------------------------------------
\* The types, and: used counts the items, a thread waits in one place.
TypeOK ==
  /\ queue_ \in Seq(Items)
  /\ used = Len(queue_) /\ used <= Capacity
  /\ waitForEmpty \subseteq Producers
  /\ waitForFull \subseteq Consumers
  /\ woken \subseteq Threads
  /\ woken \cap (waitForEmpty \cup waitForFull) = {}
  /\ pushed \in [Producers -> Nat]
  /\ popped \in Seq(Items)

WokenProducers == woken \cap Producers
WokenConsumers == woken \cap Consumers

\* No signal is lost.  wakeUpOne() wakes one thread per item or free place:
\* while threads sleep, every free place (every item) has a woken thread that
\* is on its way to it, so nobody sleeps beside a place nobody will take.
NoSignalLost ==
  /\ waitForEmpty # {} => used + Cardinality(WokenProducers) >= Capacity
  /\ waitForFull # {} => Cardinality(WokenConsumers) >= used

\* Producers and consumers never all sleep on each other.
NoDeadlock ==
  waitForEmpty # {} /\ waitForFull # {} => woken # {}

\* The deque, the counter and the conditions implement a bounded FIFO.
Fifo == INSTANCE BoundedFifo WITH fifo <- queue_
ImplementsFifo == Fifo!Spec
=============================================================================
