---------------------------- MODULE LogFileProofs ----------------------------
(***************************************************************************)
(* BlockQueue, then the LogFile over it: the queue loses no signal and no  *)
(* item, and the files hold the log in order, for any number of threads,   *)
(* any capacity, and any sizes and dates at which files are rolled.        *)
(***************************************************************************)
EXTENDS LogFile, FiniteSetTheorems, SequenceTheorems, WellFoundedInduction, TLAPS
-----------------------------------------------------------------------------
(* The queue, with threads that do anything with it.                       *)

\* The invariant is inductive as it stands: TypeOK keeps a thread from being
\* asleep and woken at once, so that each signal adds a woken thread.
IInv == TypeOK /\ NoSignalLost

USE BlockQueueAssumption
-----------------------------------------------------------------------------
\* Removing or adding one thread changes the number of woken threads by one
\* at most.
LEMMA CountWoken ==
  ASSUME NEW S, IsFiniteSet(S), NEW W, W \subseteq S, NEW t, NEW u
  PROVE  /\ Cardinality(W) \in Nat
         /\ Cardinality(W) <= Cardinality(S)
         /\ Cardinality(W \ {t}) >= Cardinality(W) - 1
         /\ Cardinality(W \ {t}) \in Nat
         /\ u \notin W => Cardinality(W \cup {u}) = Cardinality(W) + 1
  <1>1. IsFiniteSet(W) /\ Cardinality(W) \in Nat /\ Cardinality(W) <= Cardinality(S)
    BY FS_Subset, FS_CardinalityType
  <1>2. /\ Cardinality(W \ {t}) = IF t \in W THEN Cardinality(W) - 1 ELSE Cardinality(W)
        /\ Cardinality(W \ {t}) \in Nat
    BY <1>1, FS_RemoveElement, FS_CardinalityType
  <1>3. Cardinality(W \cup {u}) = IF u \in W THEN Cardinality(W) ELSE Cardinality(W) + 1
    BY <1>1, FS_AddElement
  <1> QED BY <1>1, <1>2, <1>3

\* The inductive invariant holds initially.
LEMMA InitIInv == Init => IInv
  <1> SUFFICES ASSUME Init PROVE IInv
    OBVIOUS
  <1>1. <<>> \in Seq(Items) /\ Len(<<>>) = 0
    BY EmptySeq
  <1> QED BY <1>1 DEF Init, IInv, TypeOK, NoSignalLost

\* The types survive every step.
LEMMA StepTypeOK == TypeOK /\ [Next]_vars => TypeOK'
  <1> SUFFICES ASSUME TypeOK, [Next]_vars PROVE TypeOK'
    OBVIOUS
  <1> USE DEF TypeOK, Threads
  <1>1. ASSUME NEW p \in Producers, PushBack(p) PROVE TypeOK'
    <2>1. <<p, pushed[p] + 1>> \in Items
      BY DEF Items
    <2>2. queue_' \in Seq(Items) /\ Len(queue_') = Len(queue_) + 1
      BY <1>1, <2>1, AppendProperties DEF PushBack, HasRoom, WakeConsumer
    <2>3. used' = Len(queue_') /\ used' <= Capacity
      BY <1>1, <2>2, LenProperties DEF PushBack, HasRoom, WakeConsumer
    <2>4. /\ waitForFull' \subseteq Consumers /\ woken' \subseteq Threads
          /\ woken' \cap (waitForEmpty' \cup waitForFull') = {}
      BY <1>1 DEF PushBack, HasRoom, WakeConsumer, InPushBack
    <2>5. pushed' \in [Producers -> Nat]
      BY <1>1 DEF PushBack, HasRoom, WakeConsumer
    <2> QED BY <1>1, <2>2, <2>3, <2>4, <2>5 DEF PushBack, HasRoom, WakeConsumer
  <1>2. ASSUME NEW p \in Producers, PushBackWaits(p) PROVE TypeOK'
    BY <1>2 DEF PushBackWaits
  <1>3. ASSUME NEW c \in Consumers, PopFront(c) PROVE TypeOK'
    <2>1. queue_ # <<>>
      BY <1>3, EmptySeq DEF PopFront, WakeProducer
    <2>2. /\ Head(queue_) \in Items
          /\ queue_' \in Seq(Items) /\ Len(queue_') = Len(queue_) - 1
      BY <1>3, <2>1, HeadTailProperties DEF PopFront, WakeProducer
    <2>3. popped' \in Seq(Items)
      BY <1>3, <2>2, AppendProperties DEF PopFront, WakeProducer
    <2>4. used' = Len(queue_') /\ used' <= Capacity
      BY <1>3, <2>2, LenProperties DEF PopFront, WakeProducer
    <2>5. /\ waitForEmpty' \subseteq Producers /\ woken' \subseteq Threads
          /\ woken' \cap (waitForEmpty' \cup waitForFull') = {}
      BY <1>3 DEF PopFront, WakeProducer, InPopFront
    <2> QED BY <1>3, <2>2, <2>3, <2>4, <2>5 DEF PopFront, WakeProducer
  <1>4. ASSUME NEW c \in Consumers, PopFrontWaits(c) PROVE TypeOK'
    BY <1>4 DEF PopFrontWaits
  <1>5. ASSUME NEW t \in Threads, SpuriousWakeup(t) PROVE TypeOK'
    BY <1>5 DEF SpuriousWakeup
  <1>6. CASE UNCHANGED vars
    BY <1>6 DEF vars
  <1> QED BY <1>1, <1>2, <1>3, <1>4, <1>5, <1>6 DEF Next

\* No step loses a signal: one that takes a place (an item) is taken by one
\* woken thread at most, one that frees a place wakes a thread that sleeps.
LEMMA StepNoSignalLost == IInv /\ [Next]_vars => NoSignalLost'
  <1> SUFFICES ASSUME IInv, [Next]_vars PROVE NoSignalLost'
    OBVIOUS
  <1> USE DEF IInv, TypeOK, NoSignalLost
  <1>1. used \in Nat /\ used <= Capacity
    BY LenProperties
  <1>2. /\ WokenProducers \subseteq Producers /\ WokenConsumers \subseteq Consumers
        /\ Cardinality(WokenProducers) \in Nat
        /\ Cardinality(WokenConsumers) \in Nat
    <2>1. WokenProducers \subseteq Producers /\ WokenConsumers \subseteq Consumers
      BY DEF WokenProducers, WokenConsumers
    <2> QED BY <2>1, CountWoken
  <1>3. ASSUME NEW p \in Producers, PushBack(p) PROVE NoSignalLost'
    <2>1. waitForEmpty' = waitForEmpty /\ used' = used + 1
      BY <1>3 DEF PushBack, HasRoom, WakeConsumer
    <2>2. WokenProducers' = WokenProducers \ {p}
      BY <1>3 DEF PushBack, HasRoom, WakeConsumer, WokenProducers, WokenConsumers
    <2>3. Cardinality(WokenProducers') \in Nat /\ Cardinality(WokenProducers') >= Cardinality(WokenProducers) - 1
      BY <1>2, <2>2, CountWoken
    <2>4. waitForEmpty' # {} => used' + Cardinality(WokenProducers') >= Capacity
      BY <1>1, <1>2, <2>1, <2>3
    <2>5. CASE waitForFull = {}
      <3>1. waitForFull' = {}
        BY <1>3, <2>5 DEF PushBack, HasRoom, WakeConsumer
      <3> QED BY <2>4, <3>1
    <2>6. CASE waitForFull # {}
      <3>1. PICK c \in waitForFull : woken' = (woken \ {p}) \cup {c}
        BY <1>3, <2>6 DEF PushBack, HasRoom, WakeConsumer
      <3>2. WokenConsumers' = WokenConsumers \cup {c} /\ c \notin WokenConsumers
        BY <3>1 DEF WokenConsumers
      <3>3. Cardinality(WokenConsumers') = Cardinality(WokenConsumers) + 1
        BY <1>2, <3>2, CountWoken
      <3>4. Cardinality(WokenConsumers') >= used'
        BY <1>1, <1>2, <2>1, <2>6, <3>3
      <3> QED BY <2>4, <3>4
    <2> QED BY <2>5, <2>6
  <1>4. ASSUME NEW p \in Producers, PushBackWaits(p) PROVE NoSignalLost'
    <2>1. WokenProducers' = WokenProducers \ {p} /\ WokenConsumers' = WokenConsumers
      BY <1>4 DEF PushBackWaits, WokenProducers, WokenConsumers
    <2>2. Cardinality(WokenProducers') \in Nat
      BY <1>2, <2>1, CountWoken
    <2>3. used' = Capacity /\ used' = used /\ waitForFull' = waitForFull
      BY <1>4 DEF PushBackWaits
    <2> QED BY <1>2, <2>1, <2>2, <2>3
  <1>5. ASSUME NEW c \in Consumers, PopFront(c) PROVE NoSignalLost'
    <2>1. waitForFull' = waitForFull /\ used' = used - 1
      BY <1>5 DEF PopFront, WakeProducer
    <2>2. WokenConsumers' = WokenConsumers \ {c}
      BY <1>5 DEF PopFront, WakeProducer, WokenProducers, WokenConsumers
    <2>3. Cardinality(WokenConsumers') \in Nat /\ Cardinality(WokenConsumers') >= Cardinality(WokenConsumers) - 1
      BY <1>2, <2>2, CountWoken
    <2>4. waitForFull' # {} => Cardinality(WokenConsumers') >= used'
      BY <1>1, <1>2, <2>1, <2>3
    <2>5. CASE waitForEmpty = {}
      <3>1. waitForEmpty' = {}
        BY <1>5, <2>5 DEF PopFront, WakeProducer
      <3> QED BY <2>4, <3>1
    <2>6. CASE waitForEmpty # {}
      <3>1. PICK p \in waitForEmpty : woken' = (woken \ {c}) \cup {p}
        BY <1>5, <2>6 DEF PopFront, WakeProducer
      <3>2. WokenProducers' = WokenProducers \cup {p} /\ p \notin WokenProducers
        BY <3>1 DEF WokenProducers
      <3>3. Cardinality(WokenProducers') = Cardinality(WokenProducers) + 1
        BY <1>2, <3>2, CountWoken
      <3>4. used' + Cardinality(WokenProducers') >= Capacity
        BY <1>1, <1>2, <2>1, <2>6, <3>3
      <3> QED BY <2>4, <3>4
    <2> QED BY <2>5, <2>6
  <1>6. ASSUME NEW c \in Consumers, PopFrontWaits(c) PROVE NoSignalLost'
    <2>1. WokenConsumers' = WokenConsumers \ {c} /\ WokenProducers' = WokenProducers
      BY <1>6 DEF PopFrontWaits, WokenProducers, WokenConsumers
    <2>2. Cardinality(WokenConsumers') \in Nat
      BY <1>2, <2>1, CountWoken
    <2>3. used' = 0 /\ used' = used /\ waitForEmpty' = waitForEmpty
      BY <1>6 DEF PopFrontWaits
    <2> QED BY <1>2, <2>1, <2>2, <2>3
  <1>7. ASSUME NEW t \in Threads, SpuriousWakeup(t) PROVE NoSignalLost'
    <2>1. /\ used' = used
          /\ waitForEmpty' \subseteq waitForEmpty /\ waitForFull' \subseteq waitForFull
          /\ t \notin woken
      BY <1>7 DEF SpuriousWakeup
    <2>2. /\ WokenProducers' = IF t \in Producers THEN WokenProducers \cup {t} ELSE WokenProducers
          /\ WokenConsumers' = IF t \in Consumers THEN WokenConsumers \cup {t} ELSE WokenConsumers
          /\ t \notin WokenProducers /\ t \notin WokenConsumers
      BY <1>7, <2>1 DEF SpuriousWakeup, WokenProducers, WokenConsumers
    <2>3. /\ Cardinality(WokenProducers') \in Nat
          /\ Cardinality(WokenProducers') >= Cardinality(WokenProducers)
      <3>1. Cardinality(WokenProducers \cup {t}) = Cardinality(WokenProducers) + 1
        BY <1>2, <2>2, CountWoken
      <3>2. CASE t \in Producers
        <4>1. WokenProducers' = WokenProducers \cup {t}
          BY <2>2, <3>2
        <4> QED BY <1>2, <3>1, <4>1
      <3>3. CASE t \notin Producers
        <4>1. WokenProducers' = WokenProducers
          BY <2>2, <3>3
        <4> QED BY <1>2, <4>1
      <3> QED BY <3>2, <3>3
    <2>4. /\ Cardinality(WokenConsumers') \in Nat
          /\ Cardinality(WokenConsumers') >= Cardinality(WokenConsumers)
      <3>1. Cardinality(WokenConsumers \cup {t}) = Cardinality(WokenConsumers) + 1
        BY <1>2, <2>2, CountWoken
      <3>2. CASE t \in Consumers
        <4>1. WokenConsumers' = WokenConsumers \cup {t}
          BY <2>2, <3>2
        <4> QED BY <1>2, <3>1, <4>1
      <3>3. CASE t \notin Consumers
        <4>1. WokenConsumers' = WokenConsumers
          BY <2>2, <3>3
        <4> QED BY <1>2, <4>1
      <3> QED BY <3>2, <3>3
    <2> QED BY <1>1, <1>2, <2>1, <2>3, <2>4
  <1>8. CASE UNCHANGED vars
    BY <1>8 DEF vars, WokenProducers, WokenConsumers
  <1> QED BY <1>3, <1>4, <1>5, <1>6, <1>7, <1>8 DEF Next

\* The inductive invariant holds in every behaviour.
LEMMA IInvHolds == Spec => []IInv
  <1>1. IInv /\ [Next]_vars => IInv'
    BY StepTypeOK, StepNoSignalLost DEF IInv
  <1> QED BY <1>1, InitIInv, PTL DEF Spec

\* Every variable of the queue keeps its type, and used counts its items.
THEOREM Typing == Spec => []TypeOK
  <1>1. IInv => TypeOK
    BY DEF IInv
  <1> QED BY <1>1, IInvHolds, PTL

\* With any number of threads, one wakeUpOne() per item and per free place is
\* enough: no thread sleeps beside an item or a place that nobody will take.
THEOREM SignalsAreEnough == Spec => []NoSignalLost
  <1>1. IInv => NoSignalLost
    BY DEF IInv
  <1> QED BY <1>1, IInvHolds, PTL

\* Producers and consumers never all sleep on each other.
THEOREM DeadlockFreedom == Spec => []NoDeadlock
  <1>1. IInv => NoDeadlock
    <2> SUFFICES ASSUME IInv, waitForEmpty # {}, waitForFull # {}, woken = {} PROVE FALSE
      BY DEF NoDeadlock
    <2>1. Cardinality(WokenProducers) = 0 /\ Cardinality(WokenConsumers) = 0
      BY FS_EmptySet DEF WokenProducers, WokenConsumers
    <2>2. used >= Capacity /\ 0 >= used
      BY <2>1, LenProperties DEF IInv, TypeOK, NoSignalLost
    <2> QED BY <2>2, LenProperties DEF IInv, TypeOK
  <1> QED BY <1>1, IInvHolds, PTL

\* The queue with its mutex and conditions is a bounded FIFO: nothing is lost,
\* delivered twice or out of order.
THEOREM Implementation == Spec => ImplementsFifo
  <1>1. Init => Fifo!Init
    BY DEF Init, Fifo!Init
  <1>2. IInv /\ [Next]_vars => [Fifo!Next]_Fifo!vars
    <2> SUFFICES ASSUME IInv, [Next]_vars PROVE [Fifo!Next]_Fifo!vars
      OBVIOUS
    <2> USE DEF IInv, TypeOK, Fifo!vars
    <2>1. ASSUME NEW p \in Producers, PushBack(p) PROVE Fifo!Put(p)
      BY <2>1, LenProperties DEF PushBack, HasRoom, WakeConsumer, Fifo!Put
    <2>2. ASSUME NEW c \in Consumers, PopFront(c) PROVE Fifo!Get
      BY <2>2, EmptySeq DEF PopFront, WakeProducer, Fifo!Get
    <2>3. \/ \E p \in Producers : PushBack(p)
          \/ \E c \in Consumers : PopFront(c)
          \/ UNCHANGED <<queue_, pushed, popped>>
      BY DEF Next, PushBackWaits, PopFrontWaits, SpuriousWakeup, vars
    <2> QED BY <2>1, <2>2, <2>3 DEF Fifo!Next
  <1> QED BY <1>1, <1>2, IInvHolds, PTL DEF Spec, ImplementsFifo, Fifo!Spec
-----------------------------------------------------------------------------
(* Induction, and FlattenSeq.  A set of natural numbers that is not empty  *)
(* has a least member, so that a set with 0 and all successors is Nat.     *)

LEMMA LeastMember ==
  ASSUME NEW T, T \subseteq Nat, T # {}
  PROVE  \E x \in T : \A y \in T : x <= y
  <1> DEFINE R == OpToRel(<, Nat)
  <1>1. R = {ss \in Nat \X Nat : ss[1] < ss[2]}
    BY DEF OpToRel
  <1>2. IsWellFoundedOn(R, Nat)
    BY NatLessThanWellFounded
  <1> HIDE DEF R
  <1>3. PICK x \in T : \A y \in T : ~ (<<y, x>> \in R)
    BY <1>2, WFMin
  <1>4. ASSUME NEW y \in T PROVE x <= y
    <2>1. <<y, x>> \in Nat \X Nat /\ <<y, x>> \notin R
      BY <1>3
    <2>2. ~(y < x)
      BY <1>1, <2>1
    <2> QED BY <2>2
  <1> QED BY <1>4

\* Induction on the numbers up to n, for a set that the goal defines.
LEMMA InductionUpTo ==
  ASSUME NEW n \in Nat, NEW T, 1 \in T, \A i \in 1..(n - 1) : i \in T => i + 1 \in T
  PROVE  \A i \in 1..n : i \in T
  <1> DEFINE U == {i \in 1..n : i \notin T}
  <1> SUFFICES ASSUME U # {} PROVE FALSE
    OBVIOUS
  <1>1. PICK i \in U : \A j \in U : i <= j
    <2>1. U \subseteq Nat
      OBVIOUS
    <2> HIDE DEF U
    <2> QED BY <2>1, LeastMember
  <1>2. i \in 1..n /\ i \notin T /\ i # 1
    BY <1>1
  <1>3. i - 1 \in 1..(n - 1) /\ i - 1 \notin U
    BY <1>1, <1>2
  <1>4. i - 1 \in T
    BY <1>2, <1>3
  <1>5. (i - 1) + 1 \in T
    BY <1>3, <1>4
  <1> QED BY <1>2, <1>5

\* What the concatenations of s up to each of its members are.
Flattens(f, s, S) ==
  /\ f \in [1..Len(s) -> Seq(S)]
  /\ \A i \in 1..Len(s) : f[i] = IF i = 1 THEN s[i] ELSE f[i - 1] \o s[i]

\* The concatenations of the first sequences exist, by induction on how many.
LEMMA FlatteningExists ==
  ASSUME NEW S, NEW s \in Seq(Seq(S)), Len(s) > 0
  PROVE  \E f : Flattens(f, s, S)
  <1> DEFINE L == Len(s)
             T == {n \in 1..L : \E f \in [1..n -> Seq(S)] :
                     \A i \in 1..n : f[i] = IF i = 1 THEN s[i] ELSE f[i - 1] \o s[i]}
  <1>1. L \in Nat /\ \A i \in 1..L : s[i] \in Seq(S)
    BY ElementOfSeq
  <1> HIDE DEF L
  <1>2. 1 \in T
    <2> DEFINE f == [i \in 1..1 |-> s[1]]
    <2>1. 1 \in 1..L /\ f \in [1..1 -> Seq(S)]
      BY <1>1 DEF L
    <2>2. \A i \in 1..1 : f[i] = IF i = 1 THEN s[i] ELSE f[i - 1] \o s[i]
      OBVIOUS
    <2> QED BY <2>1, <2>2
  <1>3. ASSUME NEW n \in 1..(L - 1), n \in T PROVE n + 1 \in T
    <2>1. PICK f \in [1..n -> Seq(S)] :
            \A i \in 1..n : f[i] = IF i = 1 THEN s[i] ELSE f[i - 1] \o s[i]
      BY <1>3
    <2> DEFINE g == [i \in 1..(n + 1) |-> IF i = n + 1 THEN f[n] \o s[n + 1] ELSE f[i]]
    <2>2. n \in Nat /\ n + 1 \in 1..L /\ n \in 1..n
      BY <1>1
    <2>3. f[n] \in Seq(S) /\ s[n + 1] \in Seq(S)
      BY <1>1, <2>2
    <2>4. f[n] \o s[n + 1] \in Seq(S)
      BY <2>3, ConcatProperties
    <2>5. g \in [1..(n + 1) -> Seq(S)]
      BY <2>2, <2>4
    <2>6. ASSUME NEW i \in 1..(n + 1)
          PROVE  g[i] = IF i = 1 THEN s[i] ELSE g[i - 1] \o s[i]
      <3>1. CASE i = n + 1
        <4>1. i # 1 /\ i - 1 = n /\ n \in 1..(n + 1) /\ n # n + 1
          BY <2>2, <3>1
        <4>2. g[i] = f[n] \o s[n + 1] /\ g[n] = f[n]
          BY <3>1, <4>1
        <4> QED BY <3>1, <4>1, <4>2
      <3>2. CASE i # n + 1
        <4>1. i \in 1..n /\ (i # 1 => i - 1 \in 1..n /\ i - 1 # n + 1 /\ i - 1 \in 1..(n + 1))
          BY <2>2, <3>2
        <4>2. g[i] = f[i] /\ (i # 1 => g[i - 1] = f[i - 1])
          BY <3>2, <4>1
        <4> QED BY <2>1, <4>1, <4>2
      <3> QED BY <3>1, <3>2
    <2> HIDE DEF g
    <2> QED BY <2>2, <2>5, <2>6
  <1> HIDE DEF T
  <1>4. \A i \in 1..L : i \in T
    BY <1>1, <1>2, <1>3, InductionUpTo
  <1>5. L \in T
    BY <1>1, <1>4 DEF L
  <1> QED BY <1>5 DEF T, L, Flattens

\* FlattenSeq is the last of the concatenations.
LEMMA FlattenTells ==
  ASSUME NEW S, NEW s \in Seq(Seq(S)), Len(s) > 0
  PROVE  \E f : Flattens(f, s, S) /\ FlattenSeq(s) = f[Len(s)]
  <1> DEFINE Eq(f) == f = [i \in 1..Len(s) |-> IF i = 1 THEN s[i] ELSE f[i - 1] \o s[i]]
             F == CHOOSE f : Eq(f)
  <1>1. PICK g : Flattens(g, s, S)
    BY FlatteningExists
  <1>2. Eq(g)
    BY <1>1 DEF Flattens
  <1>3. Eq(F)
    BY <1>2
  <1>4. FlattenSeq(s) = F[Len(s)]
    BY DEF FlattenSeq
  <1> HIDE DEF F
  <1>5. Len(s) \in Nat /\ 1 \in 1..Len(s) /\ \A i \in 1..Len(s) : s[i] \in Seq(S)
    BY ElementOfSeq
  <1>6. \A i \in 1..Len(s) : F[i] = IF i = 1 THEN s[i] ELSE F[i - 1] \o s[i]
    BY <1>3
  <1>7. \A i \in 1..Len(s) : F[i] \in Seq(S)
    <2> DEFINE T == {i \in 1..Len(s) : F[i] \in Seq(S)}
    <2>1. 1 \in T
      BY <1>5, <1>6
    <2>2. ASSUME NEW i \in 1..(Len(s) - 1), i \in T PROVE i + 1 \in T
      <3>1. i + 1 \in 1..Len(s) /\ i + 1 # 1 /\ (i + 1) - 1 = i
        BY <1>5
      <3>2. F[i + 1] = F[i] \o s[i + 1]
        BY <1>6, <3>1
      <3>3. F[i] \in Seq(S) /\ s[i + 1] \in Seq(S)
        BY <1>5, <2>2, <3>1
      <3>4. F[i] \o s[i + 1] \in Seq(S)
        <4> DEFINE a == F[i]  b == s[i + 1]
        <4>1. a \in Seq(S) /\ b \in Seq(S)
          BY <3>3
        <4> HIDE DEF a, b
        <4>2. a \o b \in Seq(S)
          BY <4>1, ConcatProperties
        <4> QED BY <4>2 DEF a, b
      <3> QED BY <3>1, <3>2, <3>4
    <2> HIDE DEF T
    <2>3. \A i \in 1..Len(s) : i \in T
      BY <1>5, <2>1, <2>2, InductionUpTo
    <2> QED BY <2>3 DEF T
  <1>8. F \in [1..Len(s) -> Seq(S)]
    <2>1. F = [i \in 1..Len(s) |-> F[i]]
      BY <1>3
    <2> QED BY <1>7, <2>1
  <1> QED BY <1>4, <1>6, <1>8 DEF Flattens

\* Empty sequences concatenate to the empty sequence.
LEMMA FlattenOfNothing ==
  ASSUME NEW S, NEW s \in Seq(Seq(S)), Len(s) > 0, \A i \in 1..Len(s) : s[i] = <<>>
  PROVE  FlattenSeq(s) = <<>>
  <1>1. PICK f : Flattens(f, s, S) /\ FlattenSeq(s) = f[Len(s)]
    BY FlattenTells
  <1> DEFINE T == {i \in 1..Len(s) : f[i] = <<>>}
  <1>2. Len(s) \in Nat /\ 1 \in 1..Len(s) /\ Len(s) \in 1..Len(s)
    OBVIOUS
  <1>3. 1 \in T
    BY <1>1, <1>2 DEF Flattens
  <1>4. ASSUME NEW i \in 1..(Len(s) - 1), i \in T PROVE i + 1 \in T
    <2>1. i + 1 \in 1..Len(s) /\ i + 1 # 1 /\ (i + 1) - 1 = i
      BY <1>2
    <2>2. f[i + 1] = f[i] \o s[i + 1]
      BY <1>1, <2>1 DEF Flattens
    <2>3. f[i + 1] = <<>> \o <<>>
      BY <1>4, <2>1, <2>2
    <2> QED BY <2>1, <2>3
  <1> HIDE DEF T
  <1>5. \A i \in 1..Len(s) : i \in T
    BY <1>2, <1>3, <1>4, InductionUpTo
  <1> QED BY <1>1, <1>2, <1>5 DEF T

\* Associativity, quantified for one step below.
LEMMA Regrouping == \A S : \A x, y, z \in Seq(S) : (x \o y) \o z = x \o (y \o z)
  BY ConcatAssociative

\* All that follows the k-th sequence is empty.
EndsAt(s, k, S) ==
  /\ s \in Seq(Seq(S)) /\ Len(s) > 0 /\ k \in 1..Len(s)
  /\ \A i \in (k + 1)..Len(s) : s[i] = <<>>

LineAdded(s, k, line) == [s EXCEPT ![k] = Append(@, line)]

\* A line appended to the last sequence that is not empty is the last line.
LEMMA FlattenAfterAppend ==
  ASSUME NEW S, NEW s, NEW k, NEW line \in S, EndsAt(s, k, S)
  PROVE  FlattenSeq(LineAdded(s, k, line)) = Append(FlattenSeq(s), line)
  <1>0. \A x, y, z \in Seq(S) : (x \o y) \o z = x \o (y \o z)
    BY Regrouping
  <1> DEFINE L == Len(s)
             u == [s EXCEPT ![k] = Append(@, line)]
  <1>1. /\ L \in Nat /\ 1 \in 1..L /\ L \in 1..L /\ \A i \in 1..L : s[i] \in Seq(S)
        /\ s \in [1..L -> Seq(S)] /\ s \in Seq(Seq(S)) /\ L > 0 /\ k \in 1..L
    BY ElementOfSeq DEF EndsAt
  <1>2. Append(s[k], line) \in Seq(S) /\ Append(s[k], line) = s[k] \o <<line>>
    BY <1>1, AppendProperties, AppendIsConcat
  <1>3. /\ u \in Seq(Seq(S)) /\ Len(u) = L
        /\ u[k] = s[k] \o <<line>> /\ \A i \in 1..L : i # k => u[i] = s[i]
    <2> HIDE DEF L
    <2>1. u \in [1..L -> Seq(S)]
      BY <1>1, <1>2
    <2>2. u \in Seq(Seq(S)) /\ Len(u) = L
      BY <1>1, <2>1
    <2>3. k \in 1..L
      BY <1>1
    <2> QED BY <1>1, <1>2, <2>2, <2>3
  <1> HIDE DEF u
  <1>4. PICK f : Flattens(f, s, S) /\ FlattenSeq(s) = f[L]
    BY <1>1, FlattenTells
  <1>5. PICK g : Flattens(g, u, S) /\ FlattenSeq(u) = g[L]
    <2>1. Len(u) > 0
      BY <1>1, <1>3
    <2> QED BY <1>3, <2>1, FlattenTells
  <1>6. /\ \A i \in 1..L : f[i] \in Seq(S) /\ f[i] = IF i = 1 THEN s[i] ELSE f[i - 1] \o s[i]
        /\ \A i \in 1..L : g[i] \in Seq(S) /\ g[i] = IF i = 1 THEN u[i] ELSE g[i - 1] \o u[i]
    BY <1>3, <1>4, <1>5 DEF Flattens
  <1> DEFINE Expected(i) == IF i < k THEN f[i] ELSE f[i] \o <<line>>
             T == {i \in 1..L : g[i] = Expected(i)}
  <1>7. <<line>> \in Seq(S)
    OBVIOUS
  <1>8. 1 \in T
    <2>1. f[1] = s[1] /\ g[1] = u[1] /\ 1 \in 1..L
      BY <1>1, <1>6
    <2>2. CASE k = 1
      <3>1. u[1] = s[1] \o <<line>> /\ ~(1 < k)
        BY <1>3, <2>2
      <3> QED BY <2>1, <3>1
    <2>3. CASE k # 1
      <3>1. u[1] = s[1] /\ 1 < k
        BY <1>1, <1>3, <2>1, <2>3
      <3> QED BY <2>1, <3>1
    <2> QED BY <2>2, <2>3
  <1>9. ASSUME NEW i \in 1..(L - 1), i \in T PROVE i + 1 \in T
    <2>1. /\ i \in 1..L /\ i + 1 \in 1..L /\ i + 1 # 1 /\ (i + 1) - 1 = i
          /\ k \in 1..L /\ L \in Nat
      BY <1>1
    <2> DEFINE j == i + 1
    <2>2. g[j] = g[i] \o u[j] /\ f[j] = f[i] \o s[j] /\ g[i] = Expected(i)
      BY <1>6, <1>9, <2>1
    <2>3. f[i] \in Seq(S) /\ s[j] \in Seq(S) /\ f[j] \in Seq(S)
      BY <1>1, <1>6, <2>1
    <2>4. CASE j < k
      <3>1. i < k /\ j # k
        BY <2>1, <2>4
      <3>2. u[j] = s[j] /\ g[i] = f[i]
        BY <1>3, <2>1, <2>2, <3>1
      <3> QED BY <2>1, <2>2, <2>4, <3>2
    <2>5. CASE j = k
      <3>1. i < k /\ ~(j < k)
        BY <2>1, <2>5
      <3>2. g[j] = f[i] \o (s[j] \o <<line>>)
        BY <1>3, <2>2, <2>5, <3>1
      <3>3. (f[i] \o s[j]) \o <<line>> = f[i] \o (s[j] \o <<line>>)
        <4> DEFINE a == f[i]  b == s[j]  c == <<line>>
        <4>1. a \in Seq(S) /\ b \in Seq(S) /\ c \in Seq(S)
          BY <1>7, <2>3
        <4> HIDE DEF a, b, c
        <4>2. (a \o b) \o c = a \o (b \o c)
          BY <4>1, <1>0
        <4> QED BY <4>2 DEF a, b, c
      <3>4. g[j] = f[j] \o <<line>>
        BY <2>2, <3>2, <3>3
      <3> QED BY <2>1, <3>1, <3>4
    <2>6. CASE j > k
      <3>1. ~(i < k) /\ ~(j < k) /\ j # k /\ j \in (k + 1)..L
        BY <2>1, <2>6
      <3>2. u[j] = <<>> /\ s[j] = <<>>
        BY <1>3, <2>1, <3>1 DEF EndsAt
      <3>3. g[i] = f[i] \o <<line>>
        BY <2>2, <3>1
      <3>4. g[i] \in Seq(S)
        BY <1>6, <2>1
      <3>5. g[j] = g[i] /\ f[j] = f[i]
        BY <2>2, <2>3, <3>2, <3>4
      <3> QED BY <2>1, <3>1, <3>3, <3>5
    <2> QED BY <2>1, <2>4, <2>5, <2>6
  <1> HIDE DEF T, L
  <1>10. \A i \in 1..L : i \in T
    BY <1>1, <1>8, <1>9, InductionUpTo
  <1>11. g[L] = f[L] \o <<line>>
    <2>1. L \in T /\ ~(L < k)
      BY <1>1, <1>10
    <2> QED BY <2>1 DEF T
  <1>12. Append(f[L], line) = f[L] \o <<line>>
    BY <1>1, <1>6, AppendIsConcat
  <1> QED BY <1>4, <1>5, <1>11, <1>12 DEF u, LineAdded
-----------------------------------------------------------------------------
(* The LogFile.  Its steps are steps of the queue.                         *)

\* Append adds a last element, and Front takes it off.
LEMMA FrontAndLast ==
  ASSUME NEW S, NEW s \in Seq(S), NEW x \in S
  PROVE  /\ Append(s, x) # <<>> /\ Front(Append(s, x)) = s
         /\ s # <<>> => /\ Front(s) \in Seq(S) /\ Last(s) \in S
                        /\ Append(Front(s), Last(s)) = s
  <1>1. Len(s) \in Nat /\ s \in [1..Len(s) -> S]
    OBVIOUS
  <1>2. Append(s, x) # <<>> /\ Front(Append(s, x)) = s
    <2> DEFINE t == Append(s, x)
    <2>1. /\ t \in Seq(S) /\ t # <<>> /\ Len(t) = Len(s) + 1
          /\ \A i \in 1..Len(s) : t[i] = s[i]
      BY AppendProperties
    <2> HIDE DEF t
    <2>2. Front(t) = SubSeq(t, 1, Len(s))
      BY <1>1, <2>1 DEF Front
    <2>3. SubSeq(t, 1, Len(s)) = [i \in 1..Len(s) |-> t[i]]
      BY <1>1, <2>1
    <2>4. s = [i \in 1..Len(s) |-> s[i]]
      BY <1>1
    <2>5. Front(t) = s
      BY <2>1, <2>2, <2>3, <2>4
    <2> QED BY <2>1, <2>5 DEF t
  <1>3. ASSUME s # <<>>
        PROVE  /\ Front(s) \in Seq(S) /\ Last(s) \in S
               /\ Append(Front(s), Last(s)) = s
    <2>1. Len(s) > 0 /\ Len(s) \in 1..Len(s) /\ Last(s) = s[Len(s)] /\ Last(s) \in S
      BY <1>1, <1>3, EmptySeq DEF Last
    <2>2. /\ Front(s) \in Seq(S) /\ Len(Front(s)) = Len(s) - 1
          /\ \A i \in 1..(Len(s) - 1) : Front(s)[i] = s[i]
      <3> DEFINE n == Len(s) - 1
                 t == SubSeq(s, 1, n)
      <3>1. n \in Nat /\ \A i \in 1..n : i \in 1..Len(s) /\ 1 + i - 1 = i /\ s[i] \in S
        BY <1>1, <2>1
      <3>2. t = [i \in 1..n |-> s[i]] /\ t \in Seq(S) /\ Len(t) = n
        <4> HIDE DEF n
        <4>1. t = [i \in 1..n |-> s[i]]
          BY <1>1, <3>1
        <4> HIDE DEF t
        <4>2. t \in [1..n -> S]
          BY <3>1, <4>1
        <4> QED BY <3>1, <4>1, <4>2
      <3> QED BY <3>2 DEF Front
    <2> DEFINE t == Append(Front(s), Last(s))
    <2>3. /\ t \in Seq(S) /\ Len(t) = Len(s) /\ t[Len(s)] = Last(s)
          /\ \A i \in 1..(Len(s) - 1) : t[i] = s[i]
      <3> DEFINE r == Front(s)  l == Last(s)
      <3>1. r \in Seq(S) /\ l \in S /\ Len(r) = Len(s) - 1
        BY <2>1, <2>2
      <3>2. \A i \in 1..(Len(s) - 1) : r[i] = s[i]
        BY <2>2
      <3> HIDE DEF r, l
      <3>3. /\ Append(r, l) \in Seq(S) /\ Len(Append(r, l)) = Len(r) + 1
            /\ \A i \in 1..Len(r) : Append(r, l)[i] = r[i]
            /\ Append(r, l)[Len(r) + 1] = l
        BY <3>1, AppendProperties
      <3>4. Len(r) + 1 = Len(s)
        BY <1>1, <3>1
      <3> QED BY <3>1, <3>2, <3>3, <3>4 DEF r, l
    <2> HIDE DEF t
    <2>4. \A i \in 1..Len(s) : t[i] = s[i]
      BY <1>1, <2>1, <2>3
    <2>5. t = s
      BY <2>3, <2>4, SeqEqual
    <2> QED BY <2>1, <2>2, <2>5 DEF t
  <1> QED BY <1>2, <1>3

\* The queue of the LogFile starts as a queue does.
LEMMA InitOfQueue == LogInit => Init
  BY DEF LogInit

\* Writer is its consumer, and loggers, Roller and Main are its producers.
LEMMA StepOfQueue == [LogNext]_<<vars, logVars>> => [Next]_vars
  <1> SUFFICES ASSUME [LogNext]_<<vars, logVars>> PROVE [Next]_vars
    OBVIOUS
  <1> USE LogFileAssumption DEF Next
  <1>1. ASSUME NEW p \in Loggers, AppendFile(p) PROVE [Next]_vars
    BY <1>1 DEF Loggers, AppendFile
  <1>2. ASSUME NEW p \in Loggers, AppendDirectly(p) PROVE [Next]_vars
    BY <1>2 DEF AppendDirectly
  <1>3. CASE WriterPops
    BY <1>3 DEF WriterPops
  <1>4. CASE WriterLogs
    BY <1>4 DEF WriterLogs
  <1>5. CASE SetOverPushes
    BY <1>5 DEF SetOverPushes
  <1>6. ASSUME NEW t \in Threads, SpuriousWakeup(t) PROVE [Next]_vars
    BY <1>6
  <1>7. CASE UNCHANGED vars
    BY <1>7
  <1> QED BY <1>1, <1>2, <1>3, <1>4, <1>5, <1>6, <1>7
          DEF LogNext, Tick, WriterStep, WriterTests, WriterWrites, SetOver, JoinReturns

\* So the LogFile uses the queue as a queue may be used.
LEMMA QueueInLog == LogSpec => Spec
  <1> QED BY InitOfQueue, StepOfQueue, PTL DEF LogSpec, Spec
-----------------------------------------------------------------------------
(* The files.  Only the file of the last name is written, a file of a      *)
(* later second is empty, and Writer has taken the line it writes.         *)

NothingLater == \A s \in (name + 1)..MaxSecond : files[s] = <<>>

HasLine == writerAt = "write" => popped # <<>>

LogIInv == IInv /\ LogTypeOK /\ NothingLater /\ HasLine /\ FilesHoldTheLog

\* What the files should hold.
Log == IF ~asylog_ THEN appended
       ELSE IF writerAt = "write" THEN Front(popped) ELSE popped

\* The types of what Write changes, and that nothing is in a later file.
FileOK ==
  /\ second \in 1..MaxSecond /\ name \in 1..second
  /\ currentDay = name \div DayLength
  /\ writenBytes \in 0..(RollSize - 1)
  /\ files \in [1..MaxSecond -> Seq(Items)]
  /\ NothingLater

\* All files are empty at first.
LEMMA InitLogIInv == LogInit => LogIInv
  <1> SUFFICES ASSUME LogInit PROVE LogIInv
    OBVIOUS
  <1> USE LogFileAssumption
  <1>1. IInv
    BY InitOfQueue, InitIInv
  <1>2. <<>> \in Seq(Items)
    BY EmptySeq
  <1>3. files \in [1..MaxSecond -> Seq(Items)] /\ \A s \in 1..MaxSecond : files[s] = <<>>
    BY <1>2 DEF LogInit
  <1>4. LogTypeOK
    <2>1. second \in 1..MaxSecond /\ name \in 1..second /\ writenBytes \in 0..(RollSize - 1)
      BY DEF LogInit
    <2>2. currentDay = name \div DayLength
      BY DEF LogInit, Day
    <2>3. /\ asylog_ \in BOOLEAN /\ over = FALSE /\ joinAt = "logging"
          /\ writerAt = IF asylog_ THEN "test" ELSE "notStarted"
          /\ failure = "none" /\ count_ = 0 /\ appended = <<>>
      BY DEF LogInit
    <2> QED BY <1>1, <1>2, <1>3, <2>1, <2>2, <2>3 DEF LogTypeOK, IInv
  <1>5. NothingLater
    <2>1. name = 1 /\ MaxSecond \in Nat
      BY DEF LogInit
    <2> QED BY <1>3, <2>1 DEF NothingLater
  <1>6. HasLine /\ Log = <<>>
    BY DEF LogInit, HasLine, Log, Init
  <1>7. FlattenSeq(files) = <<>>
    <2>1. MaxSecond \in Nat /\ MaxSecond > 0
      OBVIOUS
    <2>2. files \in Seq(Seq(Items)) /\ Len(files) = MaxSecond
      BY <1>3, <2>1
    <2> QED BY <1>3, <2>1, <2>2, FlattenOfNothing
  <1> QED BY <1>1, <1>4, <1>5, <1>6, <1>7 DEF LogIInv, FilesHoldTheLog, Log

\* A line written is the last of the log, whether a new file is then opened or
\* that fails, and whether the new file has the name of the old one.
LEMMA WriteAppends ==
  ASSUME FileOK, NEW line \in Items, NEW n \in Nat, Write(line, n), second' = second
  PROVE  /\ FileOK' /\ FlattenSeq(files') = Append(FlattenSeq(files), line)
         /\ count_' = 0 \/ count_' = n
         /\ failure' = failure \/ failure' = "logging"
  <1> DEFINE written == [files EXCEPT ![name] = Append(@, line)]
             bytes == writenBytes + Size(line)
  <1>1. /\ MaxSecond \in Nat \ {0} /\ RollSize \in Nat \ {0}
        /\ name \in Nat /\ second \in Nat /\ name <= second /\ name \in 1..MaxSecond
    BY LogFileAssumption DEF FileOK
  <1>2. files[name] \in Seq(Items) /\ Append(files[name], line) \in Seq(Items)
    BY <1>1, AppendProperties DEF FileOK
  <1>3. /\ written \in [1..MaxSecond -> Seq(Items)]
        /\ \A s \in (name + 1)..MaxSecond : written[s] = <<>>
    <2>1. written \in [1..MaxSecond -> Seq(Items)]
      BY <1>1, <1>2 DEF FileOK
    <2>2. ASSUME NEW s \in (name + 1)..MaxSecond PROVE written[s] = <<>>
      <3>1. s \in 1..MaxSecond /\ s # name
        BY <1>1
      <3>2. written[s] = files[s] /\ files[s] = <<>>
        BY <1>1, <3>1 DEF FileOK, NothingLater
      <3> QED BY <3>2
    <2> QED BY <2>1, <2>2
  <1>4. FlattenSeq(written) = Append(FlattenSeq(files), line)
    <2>1. EndsAt(files, name, Items)
      <3>1. files \in Seq(Seq(Items)) /\ Len(files) = MaxSecond
        BY <1>1 DEF FileOK
      <3> QED BY <1>1, <3>1 DEF EndsAt, FileOK, NothingLater
    <2>2. FlattenSeq(LineAdded(files, name, line)) = Append(FlattenSeq(files), line)
      BY <2>1, FlattenAfterAppend
    <2> QED BY <2>2 DEF LineAdded
  <1>5. bytes \in Nat
    BY DEF FileOK, Size
  <1> HIDE DEF written, bytes
  <1>6. CASE RollFile(written)
    <2>1. name' = second /\ currentDay' = second \div DayLength /\ count_' = 0 /\ writenBytes' = 0
      BY <1>6 DEF RollFile, Day
    <2>2. files' = written /\ (failure' = failure \/ failure' = "logging")
      <3>1. [written EXCEPT ![second] = Open(@)] = written
        BY <1>1, <1>3 DEF Open
      <3> QED BY <1>6, <3>1 DEF RollFile
    <2>3. NothingLater'
      <3>1. \A s \in (second + 1)..MaxSecond : s \in (name + 1)..MaxSecond
        BY <1>1
      <3> QED BY <1>3, <2>1, <2>2, <3>1 DEF NothingLater
    <2>4. name' \in 1..second' /\ second' \in 1..MaxSecond /\ writenBytes' \in 0..(RollSize - 1)
      BY <1>1, <2>1 DEF FileOK
    <2> QED BY <1>3, <1>4, <2>1, <2>2, <2>3, <2>4 DEF FileOK
  <1>7. CASE /\ ~(bytes >= RollSize)
             /\ count_' = n /\ writenBytes' = bytes /\ files' = written
             /\ UNCHANGED <<name, currentDay, failure>>
    <2>1. writenBytes' \in 0..(RollSize - 1)
      BY <1>1, <1>5, <1>7
    <2>2. NothingLater'
      BY <1>3, <1>7 DEF NothingLater
    <2> QED BY <1>3, <1>4, <1>7, <2>1, <2>2 DEF FileOK
  <1> QED BY <1>6, <1>7 DEF Write, written, bytes

\* Every step of a logger, of Writer and of join() keeps the invariant.
LEMMA StepLogIInv == LogIInv /\ [LogNext]_<<vars, logVars>> => LogIInv'
  <1> SUFFICES ASSUME LogIInv, [LogNext]_<<vars, logVars>> PROVE LogIInv'
    OBVIOUS
  <1> USE LogFileAssumption
  <1>1. IInv'
    BY StepOfQueue, StepTypeOK, StepNoSignalLost DEF LogIInv, IInv
  <1>2. FileOK /\ LogTypeOK /\ NothingLater /\ HasLine /\ FlattenSeq(files) = Log
    BY DEF LogIInv, LogTypeOK, FileOK, FilesHoldTheLog, Log
  <1>3. popped \in Seq(Items) /\ popped' \in Seq(Items)
    BY <1>1 DEF LogIInv, IInv, TypeOK
  <1>4. ASSUME LogTypeOK', NothingLater', HasLine', FlattenSeq(files') = Log'
        PROVE  LogIInv'
    BY <1>1, <1>4 DEF LogIInv, FilesHoldTheLog, Log
  <1>5. ASSUME UNCHANGED <<fileVars, appended>> PROVE NothingLater'
    BY <1>2, <1>5 DEF NothingLater, fileVars
  <1>6. CASE Tick
    <2>1. LogTypeOK'
      BY <1>1, <1>2, <1>6 DEF Tick, LogTypeOK, IInv, fileVars, controlVars
    <2>2. NothingLater' /\ HasLine' /\ FlattenSeq(files') = Log'
      BY <1>2, <1>5, <1>6 DEF Tick, HasLine, Log, fileVars, controlVars, vars
    <2> QED BY <1>4, <2>1, <2>2
  <1>7. ASSUME NEW p \in Loggers, AppendFile(p) PROVE LogIInv'
    <2>1. UNCHANGED <<logVars, popped>>
      BY <1>7 DEF AppendFile, PushBack, PushBackWaits
    <2>2. LogTypeOK'
      BY <1>1, <1>2, <2>1 DEF LogTypeOK, IInv, logVars, fileVars, controlVars
    <2>3. NothingLater' /\ HasLine' /\ FlattenSeq(files') = Log'
      BY <1>2, <1>5, <2>1 DEF HasLine, Log, logVars, fileVars, controlVars
    <2> QED BY <1>4, <2>2, <2>3
  <1>8. ASSUME NEW p \in Loggers, AppendDirectly(p) PROVE LogIInv'
    <2>1. /\ ~asylog_ /\ failure = "none" /\ UNCHANGED <<vars, asylog_, controlVars, second>>
      BY <1>8 DEF AppendDirectly
    <2>2. PICK n \in 1..MaxItems :
            Write(<<p, n>>, count_ + 1) /\ appended' = Append(appended, <<p, n>>)
      BY <1>8 DEF AppendDirectly
    <2> DEFINE line == <<p, n>>
               m == count_ + 1
    <2>3. line \in Items /\ m \in Nat
      BY <1>2 DEF Items, Loggers, LogTypeOK
    <2>4. Write(line, m) /\ second' = second /\ appended' = Append(appended, line)
      BY <2>1, <2>2
    <2> HIDE DEF line, m
    <2>5. /\ FileOK' /\ FlattenSeq(files') = Append(FlattenSeq(files), line)
          /\ count_' = 0 \/ count_' = m
          /\ failure' = failure \/ failure' = "logging"
      BY <1>2, <2>3, <2>4, WriteAppends
    <2>6. appended' \in Seq(Items)
      BY <1>2, <2>3, <2>4, AppendProperties DEF LogTypeOK
    <2>7. LogTypeOK'
      BY <1>1, <1>2, <2>1, <2>3, <2>5, <2>6
         DEF LogTypeOK, FileOK, IInv, controlVars
    <2>8. FlattenSeq(files') = Log'
      BY <1>2, <2>1, <2>4, <2>5 DEF Log, controlVars
    <2>9. NothingLater' /\ HasLine'
      BY <1>2, <2>1, <2>5 DEF FileOK, HasLine, controlVars, vars
    <2> QED BY <1>4, <2>7, <2>8, <2>9
  <1>9. CASE WriterTests
    <2>1. UNCHANGED <<vars, asylog_, over, joinAt, second, fileVars, appended>>
      BY <1>9 DEF WriterTests
    <2>2. writerAt = "test" /\ writerAt' \in {"exited", "pop"}
      BY <1>9 DEF WriterTests
    <2>3. LogTypeOK'
      BY <1>1, <1>2, <2>1, <2>2 DEF LogTypeOK, IInv, fileVars
    <2>4. NothingLater' /\ HasLine' /\ FlattenSeq(files') = Log'
      BY <1>2, <1>5, <2>1, <2>2 DEF HasLine, Log, fileVars, vars
    <2> QED BY <1>4, <2>3, <2>4
  <1>10. CASE WriterPops
    <2>1. UNCHANGED <<asylog_, over, joinAt, second, fileVars, appended>> /\ writerAt = "pop"
      BY <1>10 DEF WriterPops
    <2>2. CASE PopFront(Writer) /\ writerAt' = "write"
      <3>1. queue_ \in Seq(Items) /\ queue_ # <<>>
        BY <2>2, EmptySeq DEF PopFront, WakeProducer, LogIInv, IInv, TypeOK
      <3>2. Head(queue_) \in Items /\ popped' = Append(popped, Head(queue_))
        BY <2>2, <3>1, HeadTailProperties DEF PopFront, WakeProducer
      <3>3. popped' # <<>> /\ Front(popped') = popped
        BY <1>3, <3>2, FrontAndLast
      <3>4. LogTypeOK'
        BY <1>1, <1>2, <2>1, <2>2 DEF LogTypeOK, IInv, fileVars
      <3>5. asylog_ = TRUE
        BY <1>2, <2>1 DEF LogTypeOK
      <3>6. NothingLater' /\ HasLine' /\ FlattenSeq(files') = Log'
        BY <1>2, <1>5, <2>1, <2>2, <3>3, <3>5 DEF HasLine, Log, fileVars
      <3> QED BY <1>4, <3>4, <3>6
    <2>3. CASE PopFrontWaits(Writer) /\ UNCHANGED writerAt
      <3>1. LogTypeOK'
        BY <1>1, <1>2, <2>1, <2>3 DEF LogTypeOK, IInv, fileVars
      <3>2. NothingLater' /\ HasLine' /\ FlattenSeq(files') = Log'
        BY <1>2, <1>5, <2>1, <2>3 DEF PopFrontWaits, HasLine, Log, fileVars
      <3> QED BY <1>4, <3>1, <3>2
    <2> QED BY <1>10, <2>2, <2>3 DEF WriterPops
  <1>11. CASE WriterWrites
    <2>1. /\ writerAt = "write" /\ Write(Last(popped), count_)
          /\ writerAt' \in {"log", "test"}
          /\ UNCHANGED <<vars, asylog_, over, joinAt, second, appended>>
      BY <1>11 DEF WriterWrites
    <2>2. asylog_ = TRUE /\ count_ = 0 /\ popped # <<>>
      BY <1>2, <2>1 DEF LogTypeOK, HasLine
    <2>3. Last(popped) \in Items /\ Append(Front(popped), Last(popped)) = popped
      <3>1. PICK x : x \in Items
        <4>1. popped[1] \in Items
          BY <1>3, <2>2, EmptySeq, ElementOfSeq
        <4> QED BY <4>1
      <3> QED BY <1>3, <2>2, <3>1, FrontAndLast
    <2> DEFINE line == Last(popped)
    <2>4. Write(line, count_) /\ line \in Items /\ count_ \in Nat /\ second' = second
      BY <2>1, <2>2, <2>3
    <2> HIDE DEF line
    <2>5. /\ FileOK' /\ FlattenSeq(files') = Append(FlattenSeq(files), line)
          /\ count_' = 0 \/ count_' = count_
          /\ failure' = failure \/ failure' = "logging"
      BY <1>2, <2>4, WriteAppends
    <2>6. LogTypeOK'
      BY <1>1, <1>2, <2>1, <2>2, <2>5 DEF LogTypeOK, FileOK, IInv
    <2>7. FlattenSeq(files') = Log'
      BY <1>2, <2>1, <2>2, <2>3, <2>5 DEF Log, line, vars
    <2>8. NothingLater' /\ HasLine'
      BY <2>1, <2>5 DEF FileOK, HasLine
    <2> QED BY <1>4, <2>6, <2>7, <2>8
  <1>12. CASE WriterLogs
    <2>1. /\ UNCHANGED <<asylog_, controlVars, second, name, currentDay, count_,
                         writenBytes, files, appended, popped>>
          /\ failure' = "exited" \/ UNCHANGED failure
      BY <1>12 DEF WriterLogs, PushBack, PushBackWaits
    <2>2. LogTypeOK'
      BY <1>1, <1>2, <2>1 DEF LogTypeOK, IInv, controlVars
    <2>3. NothingLater' /\ HasLine' /\ FlattenSeq(files') = Log'
      BY <1>2, <2>1 DEF NothingLater, HasLine, Log, controlVars
    <2> QED BY <1>4, <2>2, <2>3
  <1>13. CASE SetOver
    <2>1. /\ UNCHANGED <<vars, asylog_, writerAt, second, fileVars, appended>>
          /\ over' = TRUE /\ joinAt' = "setOver"
      BY <1>13 DEF SetOver
    <2>2. LogTypeOK'
      BY <1>1, <1>2, <2>1 DEF LogTypeOK, IInv, fileVars
    <2>3. NothingLater' /\ HasLine' /\ FlattenSeq(files') = Log'
      BY <1>2, <1>5, <2>1 DEF HasLine, Log, fileVars, vars
    <2> QED BY <1>4, <2>2, <2>3
  <1>14. CASE SetOverPushes
    <2>1. /\ UNCHANGED <<asylog_, over, writerAt, second, fileVars, appended, popped>>
          /\ joinAt = "setOver" /\ joinAt' \in {"join", "setOver"}
      BY <1>14 DEF SetOverPushes, PushBack, PushBackWaits
    <2>2. LogTypeOK'
      BY <1>1, <1>2, <2>1 DEF LogTypeOK, IInv, fileVars
    <2>3. NothingLater' /\ HasLine' /\ FlattenSeq(files') = Log'
      BY <1>2, <1>5, <2>1 DEF HasLine, Log, fileVars
    <2> QED BY <1>4, <2>2, <2>3
  <1>15. CASE JoinReturns
    <2>1. /\ UNCHANGED <<vars, asylog_, over, writerAt, second, fileVars, appended>>
          /\ joinAt = "join" /\ joinAt' = "joined"
      BY <1>15 DEF JoinReturns
    <2>2. LogTypeOK'
      BY <1>1, <1>2, <2>1 DEF LogTypeOK, IInv, fileVars
    <2>3. NothingLater' /\ HasLine' /\ FlattenSeq(files') = Log'
      BY <1>2, <1>5, <2>1 DEF HasLine, Log, fileVars, vars
    <2> QED BY <1>4, <2>2, <2>3
  <1>16. CASE (\E t \in Threads : SpuriousWakeup(t) /\ UNCHANGED logVars) \/ UNCHANGED <<vars, logVars>>
    <2>1. UNCHANGED <<logVars, popped>>
      BY <1>16 DEF SpuriousWakeup, vars
    <2>2. LogTypeOK'
      BY <1>1, <1>2, <2>1 DEF LogTypeOK, IInv, logVars, fileVars, controlVars
    <2>3. NothingLater' /\ HasLine' /\ FlattenSeq(files') = Log'
      BY <1>2, <1>5, <2>1 DEF HasLine, Log, logVars, fileVars, controlVars
    <2> QED BY <1>4, <2>2, <2>3
  <1> QED BY <1>6, <1>7, <1>8, <1>9, <1>10, <1>11, <1>12, <1>13, <1>14, <1>15, <1>16
          DEF LogNext, WriterStep

\* The inductive invariant holds in every behaviour of the LogFile.
LEMMA LogIInvHolds == LogSpec => []LogIInv
  <1> QED BY InitLogIInv, StepLogIInv, PTL DEF LogSpec

\* The variables of the LogFile keep their types: with the rolls, a file's name
\* is a second that has been, and its day the day of its name.
THEOREM LogTyping == LogSpec => []LogTypeOK
  <1>1. LogIInv => LogTypeOK
    BY DEF LogIInv
  <1> QED BY <1>1, LogIInvHolds, PTL

\* The files hold the log, once and in order, wherever a file is rolled, whether
\* fopen() then fails, and whenever the writer is stopped.
THEOREM FilesInOrder == LogSpec => []FilesHoldTheLog
  <1>1. LogIInv => FilesHoldTheLog
    BY DEF LogIInv
  <1> QED BY <1>1, LogIInvHolds, PTL

\* The queue inside the LogFile, of which setOver() and a failed roll are
\* producers too, loses no signal and is a bounded FIFO.
THEOREM LogUsesQueue == LogSpec => []NoSignalLost /\ ImplementsFifo
  <1> QED BY QueueInLog, SignalsAreEnough, Implementation, PTL
=============================================================================
