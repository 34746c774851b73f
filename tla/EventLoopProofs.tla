--------------------------- MODULE EventLoopProofs ---------------------------
(***************************************************************************)
(* What EventLoop promises for any number of threads, channels and tasks:  *)
(* its types, no lost wakeup, and that it implements TaskExecutor.         *)
(***************************************************************************)
EXTENDS EventLoop, SequenceTheorems, TLAPS

\* t_task is a local of one iteration: it is empty outside the loop over it.
BatchIsLocal == pc \notin {"run", "task"} => t_task = <<>>

\* The inductive invariant.  NoLostWakeup is inductive given the types;
\* BatchIsLocal is what makes the swap keep the order of the tasks.
IInv == TypeOK /\ BatchIsLocal /\ NoLostWakeup

USE EventLoopAssumption
-----------------------------------------------------------------------------
(* Sequences: what Append and Tail do to the second and the first of two   *)
(* concatenated sequences.                                                 *)

\* Appending to the second sequence appends to the concatenation.
LEMMA ConcatAppend ==
  ASSUME NEW S, NEW s \in Seq(S), NEW u \in Seq(S), NEW e \in S
  PROVE  s \o Append(u, e) = Append(s \o u, e)
  <1>1. <<e>> \in Seq(S)
    OBVIOUS
  <1>2. Append(u, e) = u \o <<e>>
    BY AppendIsConcat
  <1>3. s \o u \in Seq(S)
    BY ConcatProperties
  <1>4. Append(s \o u, e) = (s \o u) \o <<e>>
    BY <1>3, AppendIsConcat
  <1>5. (s \o u) \o <<e>> = s \o (u \o <<e>>)
    BY <1>1, ConcatAssociative
  <1> QED BY <1>2, <1>4, <1>5

\* The head and the tail of a concatenation are those of its first sequence.
LEMMA ConcatHeadTail ==
  ASSUME NEW S, NEW s \in Seq(S), s # <<>>, NEW u \in Seq(S)
  PROVE  /\ s \o u # <<>>
         /\ Head(s \o u) = Head(s)
         /\ Tail(s \o u) = Tail(s) \o u
  <1> DEFINE w == s \o u
  <1>1. w \in Seq(S) /\ Len(w) = Len(s) + Len(u)
    BY ConcatProperties
  <1>2. \A i \in 1..(Len(s) + Len(u)) : w[i] = IF i <= Len(s) THEN s[i] ELSE u[i - Len(s)]
    BY ConcatProperties
  <1>3. Len(s) \in Nat \ {0} /\ Len(u) \in Nat
    BY EmptySeq, LenProperties
  <1>4. w # <<>>
    BY <1>1, <1>3, EmptySeq
  <1>5. Head(w) = Head(s)
    BY <1>1, <1>2, <1>3, <1>4
  <1>6. Tail(w) = Tail(s) \o u
    <2>1. /\ Tail(w) \in Seq(S)
          /\ Len(Tail(w)) = Len(w) - 1
          /\ \A i \in 1..Len(Tail(w)) : Tail(w)[i] = w[i + 1]
      BY <1>1, <1>4, HeadTailProperties
    <2>2. /\ Tail(s) \in Seq(S)
          /\ Len(Tail(s)) = Len(s) - 1
          /\ \A i \in 1..Len(Tail(s)) : Tail(s)[i] = s[i + 1]
      BY HeadTailProperties
    <2>3. /\ Tail(s) \o u \in Seq(S)
          /\ Len(Tail(s) \o u) = Len(Tail(s)) + Len(u)
          /\ \A i \in 1..(Len(Tail(s)) + Len(u)) :
               (Tail(s) \o u)[i] = IF i <= Len(Tail(s)) THEN Tail(s)[i] ELSE u[i - Len(Tail(s))]
      BY <2>2, ConcatProperties
    <2>4. Len(Tail(w)) = Len(Tail(s) \o u)
      BY <1>1, <1>3, <2>1, <2>2, <2>3
    <2>5. ASSUME NEW i \in 1..Len(Tail(w)) PROVE Tail(w)[i] = (Tail(s) \o u)[i]
      <3>1. /\ i \in 1..(Len(Tail(s)) + Len(u))
            /\ i + 1 \in 1..(Len(s) + Len(u))
        BY <1>1, <1>3, <2>1, <2>2, <2>3, <2>4
      <3>2. Tail(w)[i] = IF i + 1 <= Len(s) THEN s[i + 1] ELSE u[i + 1 - Len(s)]
        BY <1>2, <2>1, <3>1
      <3>3. (Tail(s) \o u)[i] = IF i <= Len(Tail(s)) THEN Tail(s)[i] ELSE u[i - Len(Tail(s))]
        BY <2>3, <3>1
      <3>4. CASE i + 1 <= Len(s)
        <4>1. i \in 1..Len(Tail(s))
          BY <1>3, <2>2, <3>1, <3>4
        <4> QED BY <2>2, <3>2, <3>3, <3>4, <4>1
      <3>5. CASE ~(i + 1 <= Len(s))
        <4>1. ~(i <= Len(Tail(s))) /\ i - Len(Tail(s)) = i + 1 - Len(s)
          BY <1>3, <2>2, <3>1, <3>5
        <4> QED BY <3>2, <3>3, <3>5, <4>1
      <3> QED BY <3>4, <3>5
    <2> QED BY <2>1, <2>3, <2>4, <2>5, SeqEqual
  <1> QED BY <1>4, <1>5, <1>6
-----------------------------------------------------------------------------
\* The inductive invariant holds initially.
LEMMA InitIInv == Init => IInv
  <1> SUFFICES ASSUME Init PROVE IInv
    OBVIOUS
  <1>1. <<>> \in Seq(Nat)
    BY EmptySeq
  <1> QED BY <1>1 DEF Init, IInv, TypeOK, BatchIsLocal, NoLostWakeup, AllChannels

\* Every step of the loop and of the other threads keeps it.
LEMMA StepIInv == IInv /\ [Next]_vars => IInv'
  <1> SUFFICES ASSUME IInv, [Next]_vars PROVE IInv'
    OBVIOUS
  <1> USE DEF IInv, TypeOK, BatchIsLocal, NoLostWakeup
  <1>1. ASSUME NEW t \in Threads, PushTask(t) PROVE IInv'
    <2>1. Submitted + 1 \in Nat
      BY LenProperties DEF Submitted
    <2>2. tasks_' \in Seq(Nat)
      BY <1>1, <2>1, AppendProperties DEF PushTask
    <2>3. call'[t] = "pushed"
      BY <1>1 DEF PushTask
    <2> QED BY <1>1, <2>2, <2>3 DEF PushTask
  <1>2. ASSUME NEW t \in Threads, Wakeup(t) PROVE IInv'
    <2>1. eventfd' > 0
      BY <1>2 DEF Wakeup
    <2> QED BY <1>2, <2>1 DEF Wakeup
  <1>3. ASSUME NEW c \in Channels, BecomeReady(c) PROVE IInv'
    BY <1>3 DEF BecomeReady
  <1>4. CASE EpollEvents
    <2>1. active' \subseteq AllChannels
      BY <1>4 DEF EpollEvents, ReportedSets, Reportable, AllChannels
    <2>2. nrevents' \in Nat \ {0}
      BY <1>4 DEF EpollEvents, Grown
    <2> QED BY <1>4, <2>1, <2>2 DEF EpollEvents, Grown
  <1>5. CASE EpollTimeout
    BY <1>5 DEF EpollTimeout
  <1>6. CASE EpollError
    BY <1>6 DEF EpollError
  <1>7. CASE HandleWakeup
    BY <1>7 DEF HandleWakeup
  <1>8. ASSUME NEW c \in Channels, HandleChannel(c) PROVE IInv'
    BY <1>8 DEF HandleChannel
  <1>9. CASE CallbackReturns
    BY <1>9 DEF CallbackReturns
  <1>10. CASE SwapTasks
    <2>1. tasks_' = <<>> /\ tasks_' \in Seq(Nat)
      BY <1>10, EmptySeq DEF SwapTasks, Swapped
    <2> QED BY <1>10, <2>1 DEF SwapTasks, Swapped
  <1>11. CASE RunTask
    <2>1. t_task' \in Seq(Nat) /\ Head(t_task) \in Nat
      BY <1>11, HeadTailProperties DEF RunTask
    <2>2. executed' \in Seq(Nat)
      BY <1>11, <2>1, AppendProperties DEF RunTask
    <2> QED BY <1>11, <2>1, <2>2 DEF RunTask
  <1>12. CASE EndIteration
    BY <1>12 DEF EndIteration
  <1>13. CASE UNCHANGED vars
    BY <1>13 DEF vars
  <1> QED
    BY <1>1, <1>2, <1>3, <1>4, <1>5, <1>6, <1>7, <1>8, <1>9, <1>10, <1>11, <1>12, <1>13
    DEF Next, LoopStep, Threads

\* The inductive invariant holds in every behaviour.
LEMMA IInvHolds == Spec => []IInv
  BY InitIInv, StepIInv, PTL DEF Spec

\* Every variable of the loop keeps its type.
THEOREM Typing == Spec => []TypeOK
  <1>1. IInv => TypeOK
    BY DEF IInv
  <1> QED BY <1>1, IInvHolds, PTL

\* Whatever the number of threads that call queueInLoop(), the loop never
\* enters epoll_wait with a task queued and no wakeup written or to come.
THEOREM WakeupIsNeverLost == Spec => []NoLostWakeup
  <1>1. IInv => NoLostWakeup
    BY DEF IInv
  <1> QED BY <1>1, IInvHolds, PTL
-----------------------------------------------------------------------------
(* Refinement.                                                             *)

\* A step of the loop is a step of the executor or leaves it alone.
LEMMA StepImplements == IInv /\ [Next]_vars => [Executor!Next]_Executor!vars
  <1> SUFFICES ASSUME IInv, [Next]_vars PROVE [Executor!Next]_Executor!vars
    OBVIOUS
  <1> USE DEF IInv, TypeOK, BatchIsLocal, Executor!vars
  <1>1. ASSUME NEW t \in Threads, PushTask(t) PROVE Executor!Submit
    <2>1. /\ Len(t_task \o tasks_) = Len(t_task) + Len(tasks_)
          /\ Len(executed) \in Nat /\ Len(t_task) \in Nat /\ Len(tasks_) \in Nat
      BY ConcatProperties, LenProperties
    <2>2. Submitted + 1 = Len(executed) + Len(t_task \o tasks_) + 1 /\ Submitted + 1 \in Nat
      BY <2>1 DEF Submitted
    <2>3. t_task \o Append(tasks_, Submitted + 1) = Append(t_task \o tasks_, Submitted + 1)
      <3>1. t_task \in Seq(Nat) /\ tasks_ \in Seq(Nat)
        OBVIOUS
      <3> DEFINE x == Submitted + 1
      <3>2. x \in Nat
        BY <2>2
      <3> HIDE DEF x, IInv, TypeOK, BatchIsLocal
      <3>3. t_task \o Append(tasks_, x) = Append(t_task \o tasks_, x)
        BY <3>1, <3>2, ConcatAppend
      <3> QED BY <3>3 DEF x
    <2> QED BY <1>1, <2>2, <2>3 DEF PushTask, Executor!Submit
  <1>2. CASE SwapTasks
    <2>1. t_task = <<>>
      BY <1>2 DEF SwapTasks, Swapped
    <2>2. t_task \o tasks_ = tasks_ /\ tasks_ \o <<>> = tasks_
      BY <2>1, ConcatEmptySeq
    <2> QED BY <1>2, <2>2 DEF SwapTasks, Swapped
  <1>3. CASE RunTask
    <2>1. /\ t_task \o tasks_ # <<>>
          /\ Head(t_task \o tasks_) = Head(t_task)
          /\ Tail(t_task \o tasks_) = Tail(t_task) \o tasks_
      BY <1>3, ConcatHeadTail DEF RunTask
    <2> QED BY <1>3, <2>1 DEF RunTask, Executor!Run, Executor!Next
  <1>4. CASE UNCHANGED <<tasks_, t_task, executed>>
    BY <1>4
  <1>5. \/ \E t \in Threads : PushTask(t)
        \/ SwapTasks \/ RunTask
        \/ UNCHANGED <<tasks_, t_task, executed>>
    BY DEF Next, LoopStep, Wakeup, BecomeReady, EpollEvents, EpollTimeout, EpollError,
           HandleWakeup, HandleChannel, CallbackReturns, EndIteration, vars
  <1> QED BY <1>1, <1>2, <1>3, <1>4, <1>5 DEF Executor!Next

\* The swapped vectors, the mutex and the eventfd implement the executor that
\* queueInLoop() promises: each task started once, oldest first.
THEOREM Implementation == Spec => ImplementsExecutor
  <1>1. Init => Executor!Init
    BY ConcatEmptySeq, EmptySeq DEF Init, Executor!Init
  <1> QED BY <1>1, StepImplements, IInvHolds, PTL DEF Spec, ImplementsExecutor, Executor!Spec
=============================================================================
