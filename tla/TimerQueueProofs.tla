-------------------------- MODULE TimerQueueProofs --------------------------
(***************************************************************************)
(* TimerQueue::timers_ for any number of connections, any hold and check   *)
(* times and any lag: it stays keyed by the expirations of its Timers, and *)
(* has one entry for each, through restarts, collisions and wrapped        *)
(* Timestamps.                                                             *)
(***************************************************************************)
EXTENDS TimerQueue, FiniteSetTheorems, TLAPS

TimerTask == [op : {"add", "remove"}, conn : Conns]
Add(c) == [op |-> "add", conn |-> c]
Remove(c) == [op |-> "remove", conn |-> c]

Queued == {tasks_[n] : n \in DOMAIN tasks_}
AddedOnce(c) == \A i, j \in Adding(c) : i = j

\* A connection that was not accepted has no Timer and no task, and one that
\* is being accepted no Timer.
NewIsUnknown ==
  \A c \in Conns :
    /\ New(c) => c # accepted /\ Remove(c) \notin Queued
    /\ New(c) \/ c = accepted => Add(c) \notin Queued /\ \A t \in Times : timers_[t] # c

\* The main loop removes connections that handleClose() has closed.
RemovedIsClosing ==
  \A c \in Conns : Remove(c) \in Queued => c \in closing

\* A Timer is in timers_, or on its way, but for the one that is running.
InOrAdding ==
  \A c \in Conns :
    /\ AddedOnce(c)
    /\ \A t \in Keys \ Running : timers_[t] = c => Adding(c) = {}

\* While run() has not restarted it, the Timer that is running is as the
\* others are.
RunningTells ==
  /\ main \in {"restart", "shutdown", "erase"} => key \in Keys
  /\ main \in {"restart", "shutdown"} =>
       expired[timers_[key]] = key /\ Adding(timers_[key]) = {}

\* The inductive invariant.  That a Timer is under its expiration and only
\* once rests on the order of run(): the new expiration is set while the old
\* entry is the one that will be erased.
IInv ==
  /\ TypeOK /\ KeyIsExpiration
  /\ NewIsUnknown /\ RemovedIsClosing /\ InOrAdding /\ RunningTells

USE TimerQueueAssumption
-----------------------------------------------------------------------------
(* Timestamps and tasks.                                                   *)

\* The moments of the clock are Timestamps, and so are those one hold later.
LEMMA MomentsAreTimes ==
  /\ 0..MaxTime \subseteq Times /\ LongMax \in Times /\ 0 \in Times
  /\ \A x \in 0..MaxTime : x + Hold \in Times
  BY DEF Times, LongMin

\* Whatever is added to a Timestamp is a Timestamp.
LEMMA WrapIsTime ==
  ASSUME NEW x \in Int
  PROVE  Wrap(x) \in Times
  <1>1. 2 * LongMax + 2 \in Nat \ {0} /\ x - LongMin \in Int
    BY DEF LongMin
  <1>2. (x - LongMin) % (2 * LongMax + 2) \in 0..(2 * LongMax + 1)
    BY <1>1
  <1> QED BY <1>2 DEF Wrap, Times, LongMin

\* queueInLoop() on the main loop.
LEMMA TaskQueued ==
  ASSUME tasks_ \in Seq(TimerTask), NEW x \in TimerTask, tasks_' = Append(tasks_, x)
  PROVE  /\ tasks_' \in Seq(TimerTask)
         /\ Queued' = Queued \cup {x}
         /\ \A c \in Conns : x # Add(c) => Adding(c)' = Adding(c)
         /\ \A c \in Conns : Adding(c) = {} => AddedOnce(c)'
  <1>1. /\ tasks_' \in Seq(TimerTask) /\ Len(tasks_) \in Nat
        /\ DOMAIN tasks_ = 1..Len(tasks_) /\ DOMAIN tasks_' = 1..(Len(tasks_) + 1)
        /\ \A n \in 1..Len(tasks_) : tasks_'[n] = tasks_[n]
        /\ tasks_'[Len(tasks_) + 1] = x
    OBVIOUS
  <1>2. Queued' = Queued \cup {x}
    <2>1. \A n \in DOMAIN tasks_' : tasks_'[n] \in Queued \cup {x}
      BY <1>1 DEF Queued
    <2>2. \A n \in DOMAIN tasks_ : tasks_[n] \in Queued'
      BY <1>1 DEF Queued
    <2>3. x \in Queued'
      BY <1>1 DEF Queued
    <2> QED BY <2>1, <2>2, <2>3 DEF Queued
  <1>3. ASSUME NEW c \in Conns, x # Add(c) PROVE Adding(c)' = Adding(c)
    BY <1>1, <1>3 DEF Adding, Add
  <1>4. ASSUME NEW c \in Conns, Adding(c) = {} PROVE AddedOnce(c)'
    BY <1>1, <1>4 DEF AddedOnce, Adding
  <1> QED BY <1>1, <1>2, <1>3, <1>4

\* The main loop takes its next task.
LEMMA TaskTaken ==
  ASSUME tasks_ \in Seq(TimerTask), tasks_ # <<>>, tasks_' = Tail(tasks_)
  PROVE  /\ tasks_' \in Seq(TimerTask)
         /\ Head(tasks_) \in TimerTask /\ Queued = Queued' \cup {Head(tasks_)}
         /\ \A c \in Conns : Adding(c) = {} => Adding(c)' = {}
         /\ \A c \in Conns : AddedOnce(c) =>
              AddedOnce(c)' /\ (Head(tasks_) = Add(c) => Adding(c)' = {})
  <1>1. /\ tasks_' \in Seq(TimerTask) /\ Len(tasks_) \in Nat \ {0}
        /\ DOMAIN tasks_ = 1..Len(tasks_) /\ DOMAIN tasks_' = 1..(Len(tasks_) - 1)
        /\ \A n \in 1..(Len(tasks_) - 1) : tasks_'[n] = tasks_[n + 1]
        /\ Head(tasks_) = tasks_[1] /\ Head(tasks_) \in TimerTask
    OBVIOUS
  <1>2. Queued = Queued' \cup {Head(tasks_)}
    <2>1. ASSUME NEW n \in DOMAIN tasks_ PROVE tasks_[n] \in Queued' \cup {Head(tasks_)}
      <3>1. CASE n = 1
        BY <1>1, <3>1
      <3>2. CASE n # 1
        <4>1. n - 1 \in DOMAIN tasks_' /\ tasks_'[n - 1] = tasks_[n]
          BY <1>1, <3>2
        <4> QED BY <4>1 DEF Queued
      <3> QED BY <3>1, <3>2
    <2>2. ASSUME NEW n \in DOMAIN tasks_' PROVE tasks_'[n] \in Queued
      <3>1. n + 1 \in DOMAIN tasks_ /\ tasks_'[n] = tasks_[n + 1]
        BY <1>1
      <3> QED BY <3>1 DEF Queued
    <2>3. Head(tasks_) \in Queued
      BY <1>1 DEF Queued
    <2> QED BY <2>1, <2>2, <2>3 DEF Queued
  <1>3. ASSUME NEW c \in Conns, NEW n \in Adding(c)' PROVE n + 1 \in Adding(c) /\ n + 1 # 1
    BY <1>1, <1>3 DEF Adding
  <1>4. ASSUME NEW c \in Conns, AddedOnce(c)
        PROVE  AddedOnce(c)' /\ (Head(tasks_) = Add(c) => Adding(c)' = {})
    <2>1. \A i, j \in Adding(c)' : i \in Int /\ j \in Int /\ i + 1 = j + 1
      BY <1>1, <1>3, <1>4 DEF AddedOnce, Adding
    <2>2. Head(tasks_) = Add(c) => 1 \in Adding(c)
      BY <1>1 DEF Adding, Add
    <2> QED BY <1>3, <1>4, <2>1, <2>2 DEF AddedOnce
  <1> QED BY <1>1, <1>2, <1>3, <1>4
-----------------------------------------------------------------------------
(* The invariant over the steps.                                           *)

LEMMA InitHolds == Init => IInv
  <1> SUFFICES ASSUME Init PROVE IInv
    OBVIOUS
  <1>1. tasks_ = <<>> /\ DOMAIN tasks_ = {} /\ Keys = {}
    BY DEF Init, Keys
  <1>2. TypeOK
    BY MomentsAreTimes DEF Init, TypeOK
  <1>3. Queued = {} /\ \A c \in Conns : Adding(c) = {}
    BY <1>1 DEF Queued, Adding
  <1> QED
    BY <1>1, <1>2, <1>3
    DEF Init, IInv, KeyIsExpiration, NewIsUnknown, RemovedIsClosing, InOrAdding, RunningTells,
        AddedOnce

\* A step that leaves timers_, its Timers, the tasks and the main thread
\* alone, and makes no connection new.
LEMMA TimersUntouched ==
  ASSUME IInv, TypeOK', UNCHANGED <<timers_, expired, tasks_, main, accepted, key>>,
         conn_ \cup closing \subseteq (conn_ \cup closing)', closing \subseteq closing'
  PROVE  IInv'
  <1>1. /\ Keys' = Keys /\ Running' = Running /\ Queued' = Queued
        /\ \A c \in Conns : Adding(c)' = Adding(c) /\ (New(c)' => New(c))
    BY DEF Keys, Running, Queued, Adding, New
  <1>2. KeyIsExpiration'
    BY <1>1 DEF IInv, KeyIsExpiration
  <1>3. NewIsUnknown'
    BY <1>1 DEF IInv, NewIsUnknown
  <1>4. RemovedIsClosing'
    BY <1>1 DEF IInv, RemovedIsClosing
  <1>5. InOrAdding'
    BY <1>1 DEF IInv, InOrAdding, AddedOnce
  <1>6. key \in Keys => timers_[key] \in Conns
    BY DEF IInv, TypeOK, Keys
  <1>7. RunningTells'
    BY <1>1, <1>6 DEF IInv, RunningTells
  <1> QED BY <1>2, <1>3, <1>4, <1>5, <1>7 DEF IInv

\* Time passes.
LEMMA TickHolds == IInv /\ Tick => IInv'
  <1> SUFFICES ASSUME IInv, Tick PROVE IInv'
    OBVIOUS
  <1>1. TypeOK'
    BY DEF IInv, TypeOK, Tick, connVars, timerVars, mainVars
  <1> QED
    BY <1>1, TimersUntouched DEF Tick, connVars, timerVars, mainVars

\* A read sets the time of the visit.
LEMMA ReadHolds ==
  ASSUME NEW c \in Conns, IInv, Read(c)
  PROVE  IInv'
  <1>1. TypeOK'
    BY MomentsAreTimes DEF IInv, TypeOK, Read, timeVars, timerVars, mainVars
  <1> QED
    BY <1>1, TimersUntouched DEF Read, timerVars, mainVars

\* The response is written.
LEMMA DrainHolds ==
  ASSUME NEW c \in Conns, IInv, Drain(c)
  PROVE  IInv'
  <1>1. TypeOK'
    BY DEF IInv, TypeOK, Drain, timeVars, timerVars, mainVars
  <1> QED
    BY <1>1, TimersUntouched DEF Drain, timerVars, mainVars

\* A new connection has no Timer in timers_ yet.
LEMMA AcceptHolds ==
  ASSUME NEW c \in Conns, IInv, Accept(c)
  PROVE  IInv'
  <1>1. /\ main = "idle" /\ main' = "accept" /\ accepted' = c /\ New(c)
        /\ Running = {} /\ Running' = {} /\ timers_' = timers_ /\ Keys' = Keys
        /\ expired' = [expired EXCEPT ![c] = clock + Hold]
        /\ conn_' = conn_ \cup {c} /\ closing' = closing /\ Queued' = Queued
        /\ \A d \in Conns : Adding(d)' = Adding(d)
    BY DEF Accept, Running, Keys, Queued, Adding
  <1>2. \A t \in Times : timers_[t] # c
    BY <1>1 DEF IInv, NewIsUnknown
  <1>3. TypeOK'
    BY <1>1, MomentsAreTimes DEF IInv, TypeOK, Accept, timeVars
  <1>4. KeyIsExpiration'
    BY <1>1, <1>2 DEF IInv, TypeOK, KeyIsExpiration, Keys
  <1>5. NewIsUnknown'
    BY <1>1 DEF IInv, NewIsUnknown, New
  <1>6. RemovedIsClosing' /\ InOrAdding'
    BY <1>1 DEF IInv, RemovedIsClosing, InOrAdding, AddedOnce
  <1>7. RunningTells'
    BY <1>1 DEF RunningTells
  <1> QED BY <1>3, <1>4, <1>5, <1>6, <1>7 DEF IInv

\* It has its first Timer on the way into timers_.
LEMMA AddTimerHolds == IInv /\ AddTimer => IInv'
  <1> SUFFICES ASSUME IInv, AddTimer PROVE IInv'
    OBVIOUS
  <1>1. /\ main = "accept" /\ main' = "idle" /\ accepted' = None /\ key' = key
        /\ Running = {} /\ Running' = {} /\ timers_' = timers_ /\ Keys' = Keys
        /\ expired' = expired /\ closing' = closing
        /\ \A c \in Conns : New(c)' = New(c)
    BY DEF AddTimer, Running, Keys, New, connVars, timerVars
  <1>2. PICK c \in Conns : c = accepted
    BY <1>1 DEF IInv, TypeOK
  <1>3. tasks_' = Append(tasks_, Add(c)) /\ Add(c) \in TimerTask
    BY <1>2 DEF AddTimer, Add, TimerTask
  <1>4. ~New(c) /\ (\A t \in Times : timers_[t] # c) /\ Add(c) \notin Queued
    BY <1>2 DEF IInv, NewIsUnknown
  <1>5. Adding(c) = {} /\ tasks_ \in Seq(TimerTask)
    BY <1>4 DEF Adding, Queued, Add, IInv, TypeOK, TimerTask
  <1>6. /\ tasks_' \in Seq(TimerTask) /\ Queued' = Queued \cup {Add(c)} /\ AddedOnce(c)'
        /\ \A d \in Conns \ {c} : Adding(d)' = Adding(d)
    BY <1>3, <1>5, TaskQueued DEF Add
  <1>7. TypeOK'
    BY <1>1, <1>6 DEF IInv, TypeOK, AddTimer, timeVars, connVars, timerVars, TimerTask
  <1>8. KeyIsExpiration'
    BY <1>1 DEF IInv, KeyIsExpiration
  <1>9. NewIsUnknown'
    BY <1>1, <1>4, <1>6, TimerQueueAssumption DEF IInv, NewIsUnknown, Add, Remove
  <1>10. RemovedIsClosing'
    BY <1>1, <1>6 DEF IInv, RemovedIsClosing, Add, Remove
  <1>11. InOrAdding'
    BY <1>1, <1>4, <1>6 DEF IInv, InOrAdding, AddedOnce, Keys
  <1>12. RunningTells'
    BY <1>1 DEF RunningTells
  <1> QED BY <1>7, <1>8, <1>9, <1>10, <1>11, <1>12 DEF IInv

\* A close queues its removal whatever the main thread is doing.
LEMMA HandleCloseHolds ==
  ASSUME NEW c \in Conns, IInv, HandleClose(c)
  PROVE  IInv'
  <1>1. /\ main' = main /\ accepted' = accepted /\ key' = key /\ timers_' = timers_ /\ expired' = expired
        /\ Running' = Running /\ Keys' = Keys /\ conn_' = conn_ /\ closing' = closing \cup {c}
        /\ tasks_' = Append(tasks_, Remove(c)) /\ Remove(c) \in TimerTask
    BY DEF HandleClose, timerVars, Running, Keys, Remove, TimerTask
  <1>2. tasks_ \in Seq(TimerTask)
    BY DEF IInv, TypeOK, TimerTask
  <1>3. /\ tasks_' \in Seq(TimerTask) /\ Queued' = Queued \cup {Remove(c)}
        /\ \A d \in Conns : Adding(d)' = Adding(d)
    BY <1>1, <1>2, TaskQueued DEF Add, Remove
  <1>4. TypeOK'
    BY <1>3, MomentsAreTimes DEF IInv, TypeOK, HandleClose, timeVars, timerVars, TimerTask
  <1>5. KeyIsExpiration'
    BY <1>1 DEF IInv, KeyIsExpiration
  <1>6. NewIsUnknown'
    BY <1>1, <1>3 DEF IInv, NewIsUnknown, New, Add, Remove
  <1>7. RemovedIsClosing'
    BY <1>1, <1>3 DEF IInv, RemovedIsClosing, Remove
  <1>8. InOrAdding'
    BY <1>1, <1>3 DEF IInv, InOrAdding, AddedOnce
  <1>9. key \in Keys => timers_[key] \in Conns
    BY DEF IInv, TypeOK, Keys
  <1>10. RunningTells'
    BY <1>1, <1>3, <1>9 DEF IInv, RunningTells
  <1> QED BY <1>4, <1>5, <1>6, <1>7, <1>8, <1>10 DEF IInv

\* The task of a Timer leaves the queue as the Timer enters timers_; a Timer
\* that meets an equal key is in neither.
LEMMA AddTimerInLoopHolds == IInv /\ AddTimerInLoop => IInv'
  <1> SUFFICES ASSUME IInv, AddTimerInLoop PROVE IInv'
    OBVIOUS
  <1>1. tasks_ \in Seq(TimerTask) /\ tasks_ # <<>> /\ tasks_' = Tail(tasks_)
    BY DEF IInv, TypeOK, TimerTask, AddTimerInLoop
  <1>2. PICK c \in Conns : Head(tasks_) = Add(c) /\ c = Head(tasks_).conn /\ expired[c] \in Times
    <2>1. Head(tasks_) \in TimerTask /\ Head(tasks_).op = "add"
      BY <1>1, TaskTaken DEF AddTimerInLoop
    <2> QED BY <2>1 DEF TimerTask, Add, IInv, TypeOK
  <1>3. /\ main = "idle" /\ main' = main /\ accepted' = accepted /\ key' = key
        /\ Running = {} /\ Running' = {}
        /\ expired' = expired /\ conn_' = conn_ /\ closing' = closing
        /\ timers_' = IF timers_[expired[c]] = None THEN [timers_ EXCEPT ![expired[c]] = c]
                                                    ELSE timers_
        /\ timers_ \in [Times -> Conns \cup {None}]
    BY <1>2 DEF AddTimerInLoop, connVars, Running, IInv, TypeOK
  <1>4. /\ tasks_' \in Seq(TimerTask) /\ Queued = Queued' \cup {Add(c)}
        /\ Adding(c)' = {}
        /\ \A d \in Conns : AddedOnce(d)'
        /\ \A d \in Conns : Adding(d) = {} => Adding(d)' = {}
    BY <1>1, <1>2, TaskTaken DEF IInv, InOrAdding
  <1>5. TypeOK'
    BY <1>2, <1>3, <1>4 DEF IInv, TypeOK, AddTimerInLoop, timeVars, connVars, TimerTask
  <1>6. /\ \A t \in Times : timers_'[t] = timers_[t] \/ (t = expired[c] /\ timers_'[t] = c)
        /\ Keys' \subseteq Times
    BY <1>2, <1>3 DEF Keys
  <1>7. KeyIsExpiration'
    BY <1>3, <1>6 DEF IInv, KeyIsExpiration, Keys
  <1>8. ~New(c) /\ c # accepted
    BY <1>2, <1>4 DEF IInv, NewIsUnknown
  <1>9. NewIsUnknown'
    BY <1>3, <1>4, <1>6, <1>8 DEF IInv, NewIsUnknown, New
  <1>10. RemovedIsClosing'
    BY <1>3, <1>4 DEF IInv, RemovedIsClosing
  <1>11. InOrAdding'
    BY <1>2, <1>3, <1>4, <1>6 DEF IInv, InOrAdding, Keys
  <1>12. RunningTells'
    BY <1>3 DEF RunningTells
  <1> QED BY <1>5, <1>7, <1>9, <1>10, <1>11, <1>12 DEF IInv

\* deleteTimer() may take an entry of another connection, and adds none.
LEMMA RemoveConnectionHolds == IInv /\ RemoveConnectionInLoop => IInv'
  <1> SUFFICES ASSUME IInv, RemoveConnectionInLoop PROVE IInv'
    OBVIOUS
  <1>1. tasks_ \in Seq(TimerTask) /\ tasks_ # <<>> /\ tasks_' = Tail(tasks_)
    BY DEF IInv, TypeOK, TimerTask, RemoveConnectionInLoop
  <1>2. PICK c \in Conns : Head(tasks_) = Remove(c) /\ c = Head(tasks_).conn /\ expired[c] \in Times
    <2>1. Head(tasks_) \in TimerTask /\ Head(tasks_).op = "remove"
      BY <1>1, TaskTaken DEF RemoveConnectionInLoop
    <2> QED BY <2>1 DEF TimerTask, Remove, IInv, TypeOK
  <1>3. /\ main = "idle" /\ main' = main /\ accepted' = accepted /\ key' = key
        /\ Running = {} /\ Running' = {}
        /\ expired' = expired /\ conn_' = conn_ \ {c} /\ closing' = closing
        /\ timers_' = [timers_ EXCEPT ![expired[c]] = None]
        /\ timers_ \in [Times -> Conns \cup {None}]
    BY <1>2 DEF RemoveConnectionInLoop, Running, IInv, TypeOK
  <1>4. /\ tasks_' \in Seq(TimerTask) /\ Queued = Queued' \cup {Remove(c)}
        /\ \A d \in Conns : AddedOnce(d)'
        /\ \A d \in Conns : Adding(d) = {} => Adding(d)' = {}
    BY <1>1, <1>2, TaskTaken DEF IInv, InOrAdding
  <1>5. TypeOK'
    <2>1. timers_' \in [Times -> Conns \cup {None}]
      BY <1>3
    <2>2. timer_' \subseteq conn_' /\ conn_' \subseteq Conns /\ collided' \subseteq Conns
      BY <1>2 DEF IInv, TypeOK, RemoveConnectionInLoop, StopTimer
    <2>3. UNCHANGED <<clock, behind, timerfd, visited, writing, shut, since, quiet>>
      BY <1>2 DEF RemoveConnectionInLoop, StopTimer, timeVars
    <2>4. TypeOK
      BY DEF IInv
    <2> QED BY <1>3, <1>4, <2>1, <2>2, <2>3, <2>4 DEF TypeOK, TimerTask
  <1>6. /\ \A t \in Times : timers_'[t] = timers_[t] \/ timers_'[t] = None
        /\ Keys' \subseteq Keys /\ \A t \in Keys' : timers_'[t] = timers_[t]
    BY <1>2, <1>3 DEF Keys
  <1>7. KeyIsExpiration'
    BY <1>3, <1>6 DEF IInv, KeyIsExpiration
  <1>8. c \in closing
    BY <1>2, <1>4 DEF IInv, RemovedIsClosing
  <1>9. NewIsUnknown'
    BY <1>2, <1>3, <1>4, <1>6, <1>8 DEF IInv, NewIsUnknown, New
  <1>10. RemovedIsClosing'
    BY <1>3, <1>4 DEF IInv, RemovedIsClosing
  <1>11. InOrAdding'
    BY <1>3, <1>4, <1>6 DEF IInv, InOrAdding
  <1>12. RunningTells'
    BY <1>3 DEF RunningTells
  <1> QED BY <1>5, <1>7, <1>9, <1>10, <1>11, <1>12 DEF IInv

\* handleRead() of the timerfd begins.
LEMMA TimerfdHolds == IInv /\ TimerfdReadable => IInv'
  <1> SUFFICES ASSUME IInv, TimerfdReadable PROVE IInv'
    OBVIOUS
  <1>1. /\ main = "idle" /\ main' = "check" /\ Running = {} /\ Running' = {}
        /\ Keys' = Keys /\ Queued' = Queued /\ timers_' = timers_ /\ expired' = expired
        /\ closing' = closing
        /\ accepted' = accepted
        /\ \A c \in Conns : Adding(c)' = Adding(c) /\ New(c)' = New(c)
    BY DEF TimerfdReadable, Running, Keys, Queued, Adding, New, timerVars, connVars
  <1>2. TypeOK'
    BY DEF IInv, TypeOK, TimerfdReadable, timeVars, connVars, timerVars
  <1>3. KeyIsExpiration' /\ NewIsUnknown' /\ RemovedIsClosing' /\ InOrAdding'
    BY <1>1
    DEF IInv, KeyIsExpiration, NewIsUnknown, RemovedIsClosing, InOrAdding, AddedOnce
  <1>4. RunningTells'
    BY <1>1 DEF RunningTells
  <1> QED BY <1>2, <1>3, <1>4 DEF IInv

\* A Timer is taken out of timers_ to run: it was as every entry is.
LEMMA RunTimerHolds == IInv /\ RunTimer => IInv'
  <1> SUFFICES ASSUME IInv, RunTimer PROVE IInv'
    OBVIOUS
  <1>1. PICK t \in Due : key' = t
    BY DEF RunTimer
  <1>2. /\ main = "check" /\ main' \in {"restart", "shutdown", "erase"}
        /\ Running = {} /\ Running' = {t} /\ timers_' = timers_ /\ expired' = expired
        /\ Keys' = Keys /\ Queued' = Queued /\ closing' = closing
        /\ accepted' = accepted
        /\ \A c \in Conns : Adding(c)' = Adding(c) /\ New(c)' = New(c)
    BY <1>1 DEF RunTimer, Running, Keys, Queued, Adding, New, timerVars, connVars
  <1>3. t \in Keys /\ t \in Times /\ timers_[t] \in Conns
    BY <1>1 DEF Due, Keys, IInv, TypeOK
  <1>4. TypeOK'
    BY <1>1, <1>2, <1>3 DEF IInv, TypeOK, RunTimer, timeVars, connVars, timerVars
  <1>5. KeyIsExpiration' /\ NewIsUnknown' /\ RemovedIsClosing' /\ InOrAdding'
    BY <1>2
    DEF IInv, KeyIsExpiration, NewIsUnknown, RemovedIsClosing, InOrAdding, AddedOnce
  <1>6. expired[timers_[t]] = t /\ Adding(timers_[t]) = {}
    BY <1>2, <1>3 DEF IInv, KeyIsExpiration, InOrAdding
  <1>7. expired'[timers_'[t]] = t /\ \A c \in Conns : timers_'[t] = c => Adding(c)' = {}
    BY <1>2, <1>3, <1>6
  <1>8. RunningTells'
    BY <1>1, <1>2, <1>3, <1>7 DEF RunningTells
  <1> QED BY <1>4, <1>5, <1>8 DEF IInv

\* The new expiration of the Timer that is running: its entry is the only
\* one of that connection, and it is about to go.
LEMMA RestartHolds == IInv /\ Restart => IInv'
  <1> SUFFICES ASSUME IInv, Restart PROVE IInv'
    OBVIOUS
  <1>1. /\ main = "restart" /\ main' = "erase" /\ key' = key
        /\ Running = {key} /\ Running' = {key} /\ Keys' = Keys
        /\ timers_' = timers_ /\ closing' = closing /\ conn_' = conn_ /\ accepted' = accepted
    BY DEF Restart, Running, Keys, connVars
  <1>2. PICK c \in Conns : c = timers_[key]
    BY <1>1 DEF IInv, RunningTells, Keys, TypeOK
  <1>3. key \in Keys /\ expired[c] = key /\ Adding(c) = {}
    BY <1>1, <1>2 DEF IInv, RunningTells
  <1>4. /\ expired' = [expired EXCEPT ![c] = FromVisited(c)]
        /\ tasks_' = Append(tasks_, Add(c)) /\ Add(c) \in TimerTask
    BY <1>2 DEF Restart, Add, TimerTask
  <1>5. tasks_ \in Seq(TimerTask)
    BY DEF IInv, TypeOK, TimerTask
  <1>6. /\ tasks_' \in Seq(TimerTask) /\ Queued' = Queued \cup {Add(c)} /\ AddedOnce(c)'
        /\ \A d \in Conns \ {c} : Adding(d)' = Adding(d)
    BY <1>3, <1>4, <1>5, TaskQueued DEF Add
  <1>7. FromVisited(c) \in Times
    <2>1. visited[c] + Hold \in Int
      BY DEF IInv, TypeOK, Times, LongMin
    <2> QED BY <2>1, WrapIsTime DEF FromVisited
  <1>8. TypeOK'
    BY <1>1, <1>4, <1>6, <1>7 DEF IInv, TypeOK, Restart, timeVars, connVars, TimerTask
  <1>9. \A t \in Keys \ Running : timers_[t] # c
    BY <1>1, <1>3 DEF IInv, KeyIsExpiration
  <1>10. KeyIsExpiration'
    BY <1>1, <1>4, <1>9 DEF IInv, TypeOK, KeyIsExpiration, Keys
  <1>11. ~New(c) /\ c # accepted
    BY <1>2, <1>3 DEF IInv, NewIsUnknown, Keys
  <1>12. NewIsUnknown'
    BY <1>1, <1>6, <1>11 DEF IInv, NewIsUnknown, New, Add, Remove
  <1>13. RemovedIsClosing'
    BY <1>1, <1>6 DEF IInv, RemovedIsClosing, Add, Remove
  <1>14. InOrAdding'
    BY <1>1, <1>6, <1>9 DEF IInv, InOrAdding, AddedOnce
  <1>15. RunningTells'
    BY <1>1, <1>3 DEF RunningTells
  <1> QED BY <1>8, <1>10, <1>12, <1>13, <1>14, <1>15 DEF IInv

\* handleTimer() shuts the connection down.
LEMMA ShutdownHolds == IInv /\ ShutdownWrite => IInv'
  <1> SUFFICES ASSUME IInv, ShutdownWrite PROVE IInv'
    OBVIOUS
  <1>1. /\ main = "shutdown" /\ main' = "erase" /\ key' = key
        /\ Running' = Running /\ Keys' = Keys /\ Queued' = Queued
        /\ timers_' = timers_ /\ expired' = expired /\ closing' = closing
        /\ accepted' = accepted
        /\ \A c \in Conns : Adding(c)' = Adding(c) /\ New(c)' = New(c)
    BY DEF ShutdownWrite, Running, Keys, Queued, Adding, New, timerVars
  <1>2. key \in Keys /\ timers_[key] \in Conns
    BY <1>1 DEF IInv, RunningTells, Keys, TypeOK
  <1>3. TypeOK'
    BY <1>2 DEF IInv, TypeOK, ShutdownWrite, timeVars, timerVars
  <1>4. KeyIsExpiration' /\ NewIsUnknown' /\ RemovedIsClosing' /\ InOrAdding'
    BY <1>1
    DEF IInv, KeyIsExpiration, NewIsUnknown, RemovedIsClosing, InOrAdding, AddedOnce
  <1>5. RunningTells'
    BY <1>1, <1>2 DEF RunningTells
  <1> QED BY <1>3, <1>4, <1>5 DEF IInv

\* The entry of the Timer that ran goes.
LEMMA EraseHolds == IInv /\ Erase => IInv'
  <1> SUFFICES ASSUME IInv, Erase PROVE IInv'
    OBVIOUS
  <1>1. /\ main = "erase" /\ main' = "check" /\ Running = {key} /\ Running' = {}
        /\ expired' = expired /\ closing' = closing /\ Queued' = Queued
        /\ timers_' = [timers_ EXCEPT ![key] = None]
        /\ accepted' = accepted
        /\ \A c \in Conns : Adding(c)' = Adding(c) /\ New(c)' = New(c)
    BY DEF Erase, EraseEntry, Running, Queued, Adding, New, connVars
  <1>2. timers_ \in [Times -> Conns \cup {None}] /\ key \in Times
    BY DEF IInv, TypeOK
  <1>3. TypeOK'
    BY <1>1, <1>2, MomentsAreTimes DEF IInv, TypeOK, Erase, timeVars, connVars
  <1>4. /\ Keys' = Keys \ {key}
        /\ \A t \in Times : timers_'[t] = IF t = key THEN None ELSE timers_[t]
        /\ \A t \in Keys' : timers_'[t] = timers_[t]
    BY <1>1, <1>2 DEF Keys
  <1>5. KeyIsExpiration'
    BY <1>1, <1>4 DEF IInv, KeyIsExpiration
  <1>6. NewIsUnknown'
    BY <1>1, <1>4 DEF IInv, NewIsUnknown
  <1>7. RemovedIsClosing'
    BY <1>1 DEF IInv, RemovedIsClosing
  <1>8. InOrAdding'
    BY <1>1, <1>4 DEF IInv, InOrAdding, AddedOnce
  <1>9. RunningTells'
    BY <1>1 DEF RunningTells
  <1> QED BY <1>3, <1>5, <1>6, <1>7, <1>8, <1>9 DEF IInv

\* handleRead() sets the timerfd again and returns.
LEMMA EndCheckHolds == IInv /\ EndCheck => IInv'
  <1> SUFFICES ASSUME IInv, EndCheck PROVE IInv'
    OBVIOUS
  <1>1. /\ main = "check" /\ main' = "idle" /\ Running = {} /\ Running' = {}
        /\ Keys' = Keys /\ Queued' = Queued /\ timers_' = timers_ /\ expired' = expired
        /\ closing' = closing
        /\ accepted' = accepted
        /\ \A c \in Conns : Adding(c)' = Adding(c) /\ New(c)' = New(c)
    BY DEF EndCheck, Running, Keys, Queued, Adding, New, connVars
  <1>2. NextCheck \in 0..(MaxTime + Check)
    BY DEF IInv, TypeOK, NextCheck
  <1>3. TypeOK'
    BY <1>2 DEF IInv, TypeOK, EndCheck, timeVars, connVars
  <1>4. KeyIsExpiration' /\ NewIsUnknown' /\ RemovedIsClosing' /\ InOrAdding'
    BY <1>1
    DEF IInv, KeyIsExpiration, NewIsUnknown, RemovedIsClosing, InOrAdding, AddedOnce
  <1>5. RunningTells'
    BY <1>1 DEF RunningTells
  <1> QED BY <1>3, <1>4, <1>5 DEF IInv

\* A stuttering step keeps the invariant.
LEMMA StutterHolds == IInv /\ UNCHANGED vars => IInv'
  <1> SUFFICES ASSUME IInv, UNCHANGED vars PROVE IInv'
    OBVIOUS
  <1>1. TypeOK'
    BY DEF IInv, TypeOK, vars, timeVars, connVars, timerVars, mainVars
  <1> QED
    BY <1>1, TimersUntouched DEF vars, connVars, timerVars, mainVars

\* Every step keeps the invariant.
LEMMA StepHolds == IInv /\ [Next]_vars => IInv'
  BY TickHolds, AcceptHolds, AddTimerHolds, ReadHolds, DrainHolds, HandleCloseHolds, AddTimerInLoopHolds,
     RemoveConnectionHolds, TimerfdHolds, RunTimerHolds, RestartHolds, ShutdownHolds,
     EraseHolds, EndCheckHolds, StutterHolds
  DEF Next

\* The inductive invariant holds in every behaviour.
LEMMA Invariant == Spec => []IInv
  BY InitHolds, StepHolds, PTL DEF Spec
-----------------------------------------------------------------------------
(* The properties of the run.                                              *)

\* Every Timestamp the code computes is one, also where a connection was
\* never read and its restarted Timer wraps around LONG_MAX, and no entry,
\* task or flag is of a connection that does not exist.
THEOREM Typing == Spec => []TypeOK
  <1>1. IInv => TypeOK
    BY DEF IInv
  <1> QED BY <1>1, Invariant, PTL

\* deleteTimer() finds a Timer under its current expiration: restart()
\* changes that of the Timer that is running only, whose entry is erased
\* before anything looks it up.
THEOREM KeysAreExpirations == Spec => []KeyIsExpiration
  <1>1. IInv => KeyIsExpiration
    BY DEF IInv
  <1> QED BY <1>1, Invariant, PTL

\* A connection has at most one Timer in timers_ or on its way into it,
\* however often its Timer is restarted or collides.
THEOREM OneTimer == Spec => []OneTimerPerConnection
  <1>1. ASSUME IInv, NEW c \in Conns
        PROVE  Cardinality({t \in Keys \ Running : timers_[t] = c})
                 + Cardinality(Adding(c)) <= 1
    <2> DEFINE E == {t \in Keys \ Running : timers_[t] = c}
    <2>1. \A x, y \in E : x = y
      BY <1>1 DEF IInv, KeyIsExpiration
    <2>2. AddedOnce(c) /\ (E # {} => Adding(c) = {})
      BY <1>1 DEF IInv, InOrAdding
    <2>3. ASSUME NEW S, \A x, y \in S : x = y
          PROVE  Cardinality(S) \in {0, 1} /\ (S = {} => Cardinality(S) = 0)
      <3>1. CASE S = {}
        BY <3>1, FS_EmptySet
      <3>2. CASE S # {}
        <4>1. PICK x : x \in S
          BY <3>2
        <4>2. S = {x}
          BY <2>3, <4>1
        <4> QED BY <3>2, <4>2, FS_Singleton
      <3> QED BY <3>1, <3>2
    <2>4. Cardinality(E) \in {0, 1} /\ (E = {} => Cardinality(E) = 0)
      BY <2>1, <2>3
    <2>5. Cardinality(Adding(c)) \in {0, 1} /\ (Adding(c) = {} => Cardinality(Adding(c)) = 0)
      BY <2>2, <2>3 DEF AddedOnce
    <2> QED BY <2>2, <2>4, <2>5
  <1>2. IInv => OneTimerPerConnection
    BY <1>1 DEF OneTimerPerConnection
  <1> QED BY <1>2, Invariant, PTL
-----------------------------------------------------------------------------
(* Idle connections.                                                       *)

\* What behind counts: the moments since the main thread was last up to date,
\* when the timerfd was not yet readable, and what the check that is under way
\* is behind the moment it began.
ClocksTell ==
  /\ clock <= timerfd + behind /\ timerfd <= clock + Check
  /\ main \notin {"idle", "accept"} => since <= clock /\ clock <= since + behind
  /\ \A c \in Conns : quiet[c] <= clock /\ (visited[c] # LongMax => visited[c] \in 0..clock)

\* An open connection expires no later than a hold after it was last used.
ExpirationsTell ==
  \A c \in Conns : Open(c) =>
    /\ expired[c] <= quiet[c] + Hold
    /\ visited[c] # LongMax => visited[c] <= quiet[c]

Idle(c) == Open(c) /\ visited[c] # LongMax /\ c \notin writing

\* The Timer is on its way into timers_.
Coming(c) == Add(c) \in Queued \/ c = accepted

\* A Timer that is to be added was not due when the main thread began what it
\* is doing, and one in timers_ is checked in time.
Timely ==
  \A c \in Conns : Idle(c) =>
    /\ Coming(c) \/ (main = "restart" /\ timers_[key] = c)
         => clock - behind < quiet[c] + Hold
    /\ \A t \in Times : timers_[t] = c => timerfd < quiet[c] + Hold + Check + Lag

\* An open connection has a timer_, and its Timer is in timers_ or on its way,
\* unless it met an equal key.
Tracked ==
  /\ conn_ \subseteq timer_
  /\ \A c \in Conns : Open(c) /\ c \notin collided =>
       Coming(c) \/ \E t \in Times : timers_[t] = c
  /\ main = "erase" /\ Open(timers_[key]) => Add(timers_[key]) \in Queued

IdleInv == ClocksTell /\ ExpirationsTell /\ Timely /\ Tracked

\* The numbers that the invariant compares.
LEMMA Numbers ==
  ASSUME TypeOK
  PROVE  /\ clock \in 0..MaxTime /\ behind \in 0..Lag /\ timerfd \in Nat /\ since \in Nat
         /\ \A c \in Conns : quiet[c] \in Nat /\ visited[c] \in Int /\ expired[c] \in Int
  BY DEF TypeOK, Times, LongMin

\* No Timestamp wraps while its connection was visited.
LEMMA WrapKeeps ==
  ASSUME NEW x \in LongMin..LongMax
  PROVE  Wrap(x) = x
  <1> DEFINE M == 2 * LongMax + 2
             y == x - LongMin
  <1>1. y \in Nat /\ M \in Nat \ {0} /\ y < M
    BY DEF LongMin
  <1> HIDE DEF M, y
  <1>2. y % M = y
    BY <1>1
  <1>3. x \in Int /\ LongMin \in Int
    BY DEF LongMin
  <1> QED BY <1>2, <1>3 DEF Wrap, M, y

\* One more turn changes no remainder.
LEMMA OnceAround ==
  ASSUME NEW M \in Nat \ {0}, NEW h \in 0..(M - 1)
  PROVE  (M + h) % M = h
  BY (M + h) \div M = 1

LEMMA InitIdle == Init => IdleInv
  <1> SUFFICES ASSUME Init PROVE IdleInv
    OBVIOUS
  <1>1. /\ clock = 0 /\ behind = 0 /\ timerfd = Check /\ main = "idle" /\ conn_ = {}
        /\ \A c \in Conns : quiet[c] = 0 /\ visited[c] = LongMax
    BY DEF Init
  <1>2. \A c \in Conns : ~Open(c)
    BY <1>1 DEF Open
  <1> QED BY <1>1, <1>2 DEF IdleInv, ClocksTell, ExpirationsTell, Timely, Idle, Tracked, Coming

\* The clock stays within behind of where the main thread was up to date.
LEMMA TickIdle == IInv /\ IdleInv /\ Tick => IdleInv'
  <1> SUFFICES ASSUME IInv, IdleInv, Tick PROVE IdleInv'
    OBVIOUS
  <1>1. /\ clock' = clock + 1 /\ behind' \in Nat
        /\ behind' = IF UpToDate THEN 0 ELSE behind + 1
        /\ UNCHANGED <<conn_, visited, writing, closing, shut, quiet, timerfd, timers_, expired,
                       timer_, collided, main, accepted, since, key, tasks_>>
    BY DEF Tick, connVars, timerVars, mainVars, IInv, TypeOK
  <1>2. /\ clock \in 0..MaxTime /\ behind \in 0..Lag /\ timerfd \in Nat /\ since \in Nat
        /\ \A c \in Conns : quiet[c] \in Nat /\ visited[c] \in Int /\ expired[c] \in Int
    BY Numbers DEF IInv
  <1>3. Queued' = Queued /\ \A c : Open(c)' = Open(c) /\ Idle(c)' = Idle(c)
    BY <1>1 DEF Queued, Open, Idle
  <1>4. ClocksTell'
    BY <1>1, <1>2 DEF IdleInv, ClocksTell, UpToDate
  <1>5. ExpirationsTell'
    BY <1>1, <1>3 DEF IdleInv, ExpirationsTell
  <1>6. \A c \in Conns : Coming(c) \/ main = "restart" => ~UpToDate
    BY DEF UpToDate, Queued, Coming, IInv, TypeOK
  <1>7. Timely'
    BY <1>1, <1>2, <1>3, <1>6 DEF IdleInv, Timely, Coming
  <1>8. Tracked'
    BY <1>1, <1>3 DEF IdleInv, Tracked, Coming
  <1> QED BY <1>4, <1>5, <1>7, <1>8 DEF IdleInv

\* A connection that has just been used is not idle for long.
LEMMA UsedNow ==
  ASSUME IInv, IdleInv, NEW c \in Conns, quiet'[c] = clock,
         UNCHANGED <<clock, behind, timerfd>>
  PROVE  clock' - behind' < quiet'[c] + Hold /\ timerfd' < quiet'[c] + Hold + Check + Lag
  BY Numbers DEF IInv, IdleInv, ClocksTell

\* A connection is read, drained or closed while the main thread does
\* something else: its Timer is where it was.
LEMMA ConnectionUsed ==
  ASSUME IInv, IdleInv, NEW c \in Conns,
         UNCHANGED <<timeVars, conn_, shut, timerVars, main, accepted, since, key>>,
         closing \subseteq closing',
         \A d \in Conns \ {c} :
           /\ quiet'[d] = quiet[d] /\ visited'[d] = visited[d]
           /\ d \in writing' <=> d \in writing
           /\ d \in closing' <=> d \in closing,
         \A d \in Conns : Add(d) \in Queued' <=> Add(d) \in Queued,
         Open(c)' => quiet'[c] = clock,
         quiet'[c] \in {0, clock}, visited'[c] \in {visited[c], clock}
  PROVE  IdleInv'
  <1>1. UNCHANGED <<clock, behind, conn_, shut, timerfd, timers_, expired, timer_, collided,
                    main, accepted, since, key>>
    BY DEF timeVars, timerVars
  <1>2. /\ clock \in 0..MaxTime /\ behind \in 0..Lag /\ timerfd \in Nat /\ since \in Nat
        /\ \A d \in Conns : quiet[d] \in Nat /\ visited[d] \in Int /\ expired[d] \in Int
    BY Numbers DEF IInv
  <1>3. /\ \A d \in Conns : Open(d)' => Open(d)
        /\ \A d \in Conns \ {c} : Open(d)' = Open(d) /\ Idle(d)' = Idle(d)
    BY <1>1 DEF Open, Idle
  <1>4. ClocksTell'
    BY <1>1, <1>2 DEF IdleInv, ClocksTell
  <1>5. ExpirationsTell'
    <2>1. Open(c)' => expired'[c] <= quiet'[c] + Hold /\ (visited'[c] # LongMax => visited'[c] <= quiet'[c])
      BY <1>1, <1>2, <1>3 DEF IdleInv, ExpirationsTell, ClocksTell
    <2>2. ASSUME NEW d \in Conns \ {c}, Open(d)'
          PROVE  expired'[d] <= quiet'[d] + Hold /\ (visited'[d] # LongMax => visited'[d] <= quiet'[d])
      BY <1>1, <1>3, <2>2 DEF IdleInv, ExpirationsTell
    <2> QED BY <2>1, <2>2 DEF ExpirationsTell
  <1>6. Timely'
    <2>1. Open(c)' => clock' - behind' < quiet'[c] + Hold /\ timerfd' < quiet'[c] + Hold + Check + Lag
      BY <1>1, UsedNow
    <2>2. ASSUME NEW d \in Conns, Idle(d)'
          PROVE  /\ Coming(d)' \/ (main' = "restart" /\ timers_'[key'] = d)
                      => clock' - behind' < quiet'[d] + Hold
                 /\ \A t \in Times : timers_'[t] = d => timerfd' < quiet'[d] + Hold + Check + Lag
      <3>1. CASE d = c
        BY <2>1, <2>2, <3>1 DEF Idle
      <3>2. CASE d # c
        BY <1>1, <1>3, <2>2, <3>2 DEF IdleInv, Timely, Coming
      <3> QED BY <3>1, <3>2
    <2> QED BY <2>2 DEF Timely, Add, Coming
  <1>7. Tracked'
    <2>1. main = "erase" => timers_[key] \in Conns
      BY DEF IInv, RunningTells, Keys, TypeOK
    <2> QED BY <1>1, <1>3, <2>1 DEF IdleInv, Tracked, Add, Coming
  <1> QED BY <1>4, <1>5, <1>6, <1>7 DEF IdleInv

LEMMA ReadIdle ==
  ASSUME NEW c \in Conns, IInv, IdleInv, Read(c)
  PROVE  IdleInv'
  <1>1. /\ quiet' = [quiet EXCEPT ![c] = IF c \in shut THEN 0 ELSE clock]
        /\ visited' = [visited EXCEPT ![c] = clock]
        /\ UNCHANGED <<timeVars, conn_, closing, shut, timerVars, main, accepted, since, key, tasks_>>
        /\ \A d \in Conns \ {c} : d \in writing' <=> d \in writing
    BY DEF Read, mainVars
  <1>2. quiet \in [Conns -> 0..MaxTime] /\ visited \in [Conns -> Times]
    BY DEF IInv, TypeOK
  <1>3. /\ \A d \in Conns \ {c} : quiet'[d] = quiet[d] /\ visited'[d] = visited[d]
        /\ quiet'[c] = (IF c \in shut THEN 0 ELSE clock) /\ visited'[c] = clock
    BY <1>1, <1>2
  <1>4. Queued' = Queued /\ (Open(c)' => c \notin shut)
    BY <1>1 DEF Queued, Open
  <1> QED BY <1>1, <1>3, <1>4, ConnectionUsed DEF Add

LEMMA DrainIdle ==
  ASSUME NEW c \in Conns, IInv, IdleInv, Drain(c)
  PROVE  IdleInv'
  <1>1. /\ quiet' = [quiet EXCEPT ![c] = IF c \in shut THEN 0 ELSE clock]
        /\ UNCHANGED <<timeVars, conn_, visited, closing, shut, timerVars, main, accepted, since,
                       key, tasks_>>
        /\ \A d \in Conns \ {c} : d \in writing' <=> d \in writing
    BY DEF Drain, mainVars
  <1>2. quiet \in [Conns -> 0..MaxTime]
    BY DEF IInv, TypeOK
  <1>3. /\ \A d \in Conns \ {c} : quiet'[d] = quiet[d] /\ visited'[d] = visited[d]
        /\ quiet'[c] = (IF c \in shut THEN 0 ELSE clock) /\ visited'[c] = visited[c]
    BY <1>1, <1>2
  <1>4. Queued' = Queued /\ (Open(c)' => c \notin shut)
    BY <1>1 DEF Queued, Open
  <1> QED BY <1>1, <1>3, <1>4, ConnectionUsed DEF Add

LEMMA HandleCloseIdle ==
  ASSUME NEW c \in Conns, IInv, IdleInv, HandleClose(c)
  PROVE  IdleInv'
  <1>1. /\ quiet' = [quiet EXCEPT ![c] = 0] /\ visited' = [visited EXCEPT ![c] = clock]
        /\ closing' = closing \cup {c} /\ tasks_' = Append(tasks_, Remove(c))
        /\ UNCHANGED <<timeVars, conn_, writing, shut, timerVars, main, accepted, since, key>>
    BY DEF HandleClose, Remove
  <1>2. /\ quiet \in [Conns -> 0..MaxTime] /\ visited \in [Conns -> Times]
        /\ tasks_ \in Seq(TimerTask) /\ Remove(c) \in TimerTask
    BY DEF IInv, TypeOK, TimerTask, Remove
  <1>3. /\ \A d \in Conns \ {c} : quiet'[d] = quiet[d] /\ visited'[d] = visited[d]
        /\ quiet'[c] = 0 /\ visited'[c] = clock
    BY <1>1, <1>2
  <1>4. Queued' = Queued \cup {Remove(c)}
    BY <1>1, <1>2, TaskQueued
  <1>5. \A d \in Conns : Add(d) \in Queued' <=> Add(d) \in Queued
    BY <1>4 DEF Add, Remove
  <1>6. ~Open(c)'
    BY <1>1 DEF Open
  <1> QED BY <1>1, <1>3, <1>5, <1>6, ConnectionUsed

\* A connection is accepted with its Timer on the way into timers_.
LEMMA AcceptIdle ==
  ASSUME NEW c \in Conns, IInv, IdleInv, Accept(c)
  PROVE  IdleInv'
  <1>1. /\ main = "idle" /\ main' = "accept" /\ accepted' = c
        /\ New(c) /\ conn_' = conn_ \cup {c} /\ timer_' = timer_ \cup {c}
        /\ expired' = [expired EXCEPT ![c] = clock + Hold]
        /\ quiet' = [quiet EXCEPT ![c] = clock]
        /\ UNCHANGED <<clock, behind, visited, writing, closing, shut, timerfd, timers_, collided,
                       since, key, tasks_>>
    BY DEF Accept, timeVars
  <1>2. /\ clock \in 0..MaxTime /\ behind \in 0..Lag /\ timerfd \in Nat /\ since \in Nat
        /\ \A d \in Conns : quiet[d] \in Nat /\ visited[d] \in Int /\ expired[d] \in Int
    BY Numbers DEF IInv
  <1>3. /\ quiet \in [Conns -> 0..MaxTime] /\ expired \in [Conns -> Times]
        /\ accepted \notin Conns
    BY <1>1, TimerQueueAssumption DEF IInv, TypeOK
  <1>4. /\ \A d \in Conns \ {c} : quiet'[d] = quiet[d] /\ expired'[d] = expired[d]
        /\ quiet'[c] = clock /\ expired'[c] = clock + Hold
    BY <1>1, <1>3
  <1>5. /\ Queued' = Queued /\ Coming(c)'
        /\ \A d \in Conns \ {c} : Coming(d)' <=> Coming(d)
    BY <1>1, <1>3 DEF Queued, Coming, Add
  <1>7. \A d \in Conns \ {c} : Open(d)' = Open(d) /\ Idle(d)' = Idle(d)
    BY <1>1 DEF Open, Idle
  <1>8. ClocksTell'
    BY <1>1, <1>2, <1>4 DEF IdleInv, ClocksTell
  <1>9. ExpirationsTell'
    <2>1. expired'[c] <= quiet'[c] + Hold /\ (visited'[c] # LongMax => visited'[c] <= quiet'[c])
      BY <1>1, <1>2, <1>4 DEF IdleInv, ClocksTell
    <2>2. ASSUME NEW d \in Conns \ {c}, Open(d)'
          PROVE  expired'[d] <= quiet'[d] + Hold /\ (visited'[d] # LongMax => visited'[d] <= quiet'[d])
      BY <1>1, <1>4, <1>7, <2>2 DEF IdleInv, ExpirationsTell
    <2> QED BY <2>1, <2>2 DEF ExpirationsTell
  <1>10. Timely'
    <2>1. clock' - behind' < quiet'[c] + Hold /\ timerfd' < quiet'[c] + Hold + Check + Lag
      BY <1>1, <1>4, UsedNow
    <2>2. ASSUME NEW d \in Conns, Idle(d)'
          PROVE  /\ Coming(d)' \/ (main' = "restart" /\ timers_'[key'] = d)
                      => clock' - behind' < quiet'[d] + Hold
                 /\ \A t \in Times : timers_'[t] = d => timerfd' < quiet'[d] + Hold + Check + Lag
      <3>1. CASE d = c
        BY <2>1, <3>1
      <3>2. CASE d # c
        BY <1>1, <1>4, <1>5, <1>7, <2>2, <3>2 DEF IdleInv, Timely
      <3> QED BY <3>1, <3>2
    <2> QED BY <2>2 DEF Timely
  <1>11. Tracked'
    <2>1. conn_' \subseteq timer_'
      BY <1>1 DEF IdleInv, Tracked
    <2>2. ASSUME NEW d \in Conns, Open(d)', d \notin collided'
          PROVE  Coming(d)' \/ \E t \in Times : timers_'[t] = d
      <3>1. CASE d = c
        BY <1>5, <3>1
      <3>2. CASE d # c
        BY <1>1, <1>5, <1>7, <2>2, <3>2 DEF IdleInv, Tracked
      <3> QED BY <3>1, <3>2
    <2> QED BY <1>1, <2>1, <2>2 DEF Tracked
  <1> QED BY <1>8, <1>9, <1>10, <1>11 DEF IdleInv

\* Its Timer is queued.
LEMMA AddTimerIdle == IInv /\ IdleInv /\ AddTimer => IdleInv'
  <1> SUFFICES ASSUME IInv, IdleInv, AddTimer PROVE IdleInv'
    OBVIOUS
  <1>1. /\ main = "accept" /\ main' = "idle" /\ accepted' = None
        /\ tasks_' = Append(tasks_, Add(accepted))
        /\ UNCHANGED <<clock, behind, conn_, visited, writing, closing, shut, quiet, timerfd,
                       timers_, expired, timer_, collided, since, key>>
    BY DEF AddTimer, Add, timeVars, connVars, timerVars
  <1>2. PICK c \in Conns : c = accepted
    BY <1>1 DEF IInv, TypeOK
  <1>3. tasks_ \in Seq(TimerTask) /\ Add(c) \in TimerTask
    BY DEF IInv, TypeOK, TimerTask, Add
  <1>4. Queued' = Queued \cup {Add(c)}
    BY <1>1, <1>2, <1>3, TaskQueued
  <1>5. \A d \in Conns : Coming(d)' <=> Coming(d)
    BY <1>1, <1>2, <1>4, TimerQueueAssumption DEF Coming, Add
  <1>6. \A d : Open(d)' = Open(d) /\ Idle(d)' = Idle(d)
    BY <1>1 DEF Open, Idle
  <1>7. ClocksTell' /\ ExpirationsTell'
    BY <1>1, <1>6 DEF IdleInv, ClocksTell, ExpirationsTell
  <1>8. Timely'
    BY <1>1, <1>5, <1>6 DEF IdleInv, Timely
  <1>9. Tracked'
    BY <1>1, <1>5, <1>6 DEF IdleInv, Tracked
  <1> QED BY <1>7, <1>8, <1>9 DEF IdleInv

\* A Timer enters timers_ before the moment by which it must be checked.
LEMMA AddTimerInLoopIdle == IInv /\ IdleInv /\ AddTimerInLoop => IdleInv'
  <1> SUFFICES ASSUME IInv, IdleInv, AddTimerInLoop PROVE IdleInv'
    OBVIOUS
  <1>1. tasks_ \in Seq(TimerTask) /\ tasks_ # <<>> /\ tasks_' = Tail(tasks_)
    BY DEF IInv, TypeOK, TimerTask, AddTimerInLoop
  <1>2. PICK c \in Conns : Head(tasks_) = Add(c) /\ c = Head(tasks_).conn
    <2>1. Head(tasks_) \in TimerTask /\ Head(tasks_).op = "add"
      BY <1>1, TaskTaken DEF AddTimerInLoop
    <2> QED BY <2>1 DEF TimerTask, Add
  <1>3. Queued = Queued' \cup {Add(c)}
    BY <1>1, <1>2, TaskTaken
  <1>4. /\ main = "idle"
        /\ UNCHANGED <<clock, behind, conn_, visited, writing, closing, shut, quiet, timerfd,
                       expired, timer_, main, accepted, since, key>>
    BY DEF AddTimerInLoop, timeVars, connVars
  <1>5. /\ timers_ \in [Times -> Conns \cup {None}] /\ expired[c] \in Times
        /\ timers_' = IF timers_[expired[c]] = None THEN [timers_ EXCEPT ![expired[c]] = c]
                                                    ELSE timers_
        /\ collided' = IF timers_[expired[c]] = None THEN collided ELSE collided \cup {c}
    BY <1>2 DEF AddTimerInLoop, IInv, TypeOK
  <1>6. /\ \A t \in Times : timers_'[t] = timers_[t] \/ timers_'[t] = c
        /\ \A t \in Times : timers_[t] # None => timers_'[t] = timers_[t]
        /\ c \notin collided' => timers_'[expired[c]] = c
    BY <1>5
  <1>7. /\ clock \in 0..MaxTime /\ behind \in 0..Lag /\ timerfd \in Nat
        /\ \A d \in Conns : quiet[d] \in Nat
    BY Numbers DEF IInv
  <1>8. \A d : Open(d)' = Open(d) /\ Idle(d)' = Idle(d)
    BY <1>4 DEF Open, Idle
  <1>9. Add(c) \in Queued /\ \A d \in Conns \ {c} : Add(d) \in Queued' <=> Add(d) \in Queued
    BY <1>3 DEF Add
  <1>10. ClocksTell' /\ ExpirationsTell'
    BY <1>4, <1>8 DEF IdleInv, ClocksTell, ExpirationsTell
  <1>11. Timely'
    <2>1. Idle(c) => timerfd < quiet[c] + Hold + Check + Lag
      <3>1. Idle(c) => clock - behind < quiet[c] + Hold
        BY <1>9 DEF IdleInv, Timely, Coming
      <3>2. timerfd <= clock + Check
        BY DEF IdleInv, ClocksTell
      <3> QED BY <1>7, <3>1, <3>2
    <2>2. ASSUME NEW d \in Conns, Idle(d)
          PROVE  /\ Coming(d)' => clock - behind < quiet[d] + Hold
                 /\ \A t \in Times : timers_'[t] = d => timerfd < quiet[d] + Hold + Check + Lag
      BY <1>3, <1>4, <1>6, <2>1, <2>2 DEF IdleInv, Timely, Coming
    <2> QED BY <1>4, <1>8, <2>2 DEF Timely, Add, Coming
  <1>12. Tracked'
    <2>1. ASSUME NEW d \in Conns, Open(d), d \notin collided'
          PROVE  Coming(d)' \/ \E t \in Times : timers_'[t] = d
      <3>1. CASE d = c
        BY <1>5, <1>6, <2>1, <3>1
      <3>2. CASE d # c
        <4>1. Coming(d) \/ \E t \in Times : timers_[t] = d
          BY <1>5, <2>1 DEF IdleInv, Tracked, Coming
        <4> QED BY <1>4, <1>6, <1>9, <3>2, <4>1 DEF Coming
      <3> QED BY <3>1, <3>2
    <2> QED BY <1>4, <1>8, <2>1 DEF IdleInv, Tracked, Add, Coming
  <1> QED BY <1>10, <1>11, <1>12 DEF IdleInv

\* deleteTimer() takes the entry of another connection only where their
\* Timers have collided.
LEMMA RemoveConnectionIdle == IInv /\ IdleInv /\ RemoveConnectionInLoop => IdleInv'
  <1> SUFFICES ASSUME IInv, IdleInv, RemoveConnectionInLoop PROVE IdleInv'
    OBVIOUS
  <1>1. tasks_ \in Seq(TimerTask) /\ tasks_ # <<>> /\ tasks_' = Tail(tasks_)
    BY DEF IInv, TypeOK, TimerTask, RemoveConnectionInLoop
  <1>2. PICK c \in Conns : Head(tasks_) = Remove(c) /\ c = Head(tasks_).conn
    <2>1. Head(tasks_) \in TimerTask /\ Head(tasks_).op = "remove"
      BY <1>1, TaskTaken DEF RemoveConnectionInLoop
    <2> QED BY <2>1 DEF TimerTask, Remove
  <1>3. Queued = Queued' \cup {Remove(c)}
    BY <1>1, <1>2, TaskTaken
  <1>4. /\ main = "idle"
        /\ UNCHANGED <<clock, behind, visited, writing, closing, shut, quiet, timerfd,
                       expired, main, accepted, since, key>>
    BY DEF RemoveConnectionInLoop, timeVars
  <1>5. /\ timers_ \in [Times -> Conns \cup {None}] /\ expired[c] \in Times
        /\ timers_' = [timers_ EXCEPT ![expired[c]] = None]
        /\ collided' = collided \cup ({timers_[expired[c]]} \ {c, None})
        /\ conn_' = conn_ \ {c} /\ timer_' = timer_ \ {c}
    BY <1>2 DEF RemoveConnectionInLoop, StopTimer, IInv, TypeOK
  <1>6. /\ \A t \in Times : timers_'[t] = timers_[t] \/ timers_'[t] = None
        /\ \A d \in Conns \ {c}, t \in Times :
             timers_[t] = d /\ d \notin collided' => timers_'[t] = d
    BY <1>5, TimerQueueAssumption
  <1>7. \A d \in Conns : Add(d) \in Queued' <=> Add(d) \in Queued
    BY <1>3 DEF Add, Remove
  <1>8. ~Open(c) /\ \A d \in Conns : Open(d)' = Open(d) /\ Idle(d)' = Idle(d)
    <2>1. Remove(c) \in Queued
      BY <1>3
    <2>2. c \in closing
      BY <2>1 DEF IInv, RemovedIsClosing
    <2> QED BY <1>4, <1>5, <2>2 DEF Open, Idle
  <1>9. ClocksTell' /\ ExpirationsTell'
    BY <1>4, <1>8 DEF IdleInv, ClocksTell, ExpirationsTell
  <1>10. Timely'
    <2>1. ASSUME NEW d \in Conns, Idle(d)
          PROVE  /\ Coming(d)' => clock - behind < quiet[d] + Hold
                 /\ \A t \in Times : timers_'[t] = d => timerfd < quiet[d] + Hold + Check + Lag
      BY <1>4, <1>6, <1>7, <2>1, TimerQueueAssumption DEF IdleInv, Timely, Coming
    <2> QED BY <1>4, <1>8, <2>1 DEF Timely, Add, Coming
  <1>11. Tracked'
    <2>1. ASSUME NEW d \in Conns, Open(d), d \notin collided'
          PROVE  Coming(d)' \/ \E t \in Times : timers_'[t] = d
      <3>1. d # c /\ d \notin collided
        BY <1>5, <1>8, <2>1
      <3>2. Coming(d) \/ \E t \in Times : timers_[t] = d
        BY <2>1, <3>1 DEF IdleInv, Tracked, Coming
      <3> QED BY <1>4, <1>6, <1>7, <2>1, <3>1, <3>2 DEF Coming
    <2>2. conn_' \subseteq timer_'
      BY <1>5 DEF IdleInv, Tracked, Coming
    <2> QED BY <1>4, <1>8, <2>1, <2>2 DEF Tracked, Add, Coming
  <1> QED BY <1>9, <1>10, <1>11 DEF IdleInv

\* The check begins no later than the main thread is behind.
LEMMA TimerfdIdle == IInv /\ IdleInv /\ TimerfdReadable => IdleInv'
  <1> SUFFICES ASSUME IInv, IdleInv, TimerfdReadable PROVE IdleInv'
    OBVIOUS
  <1>1. /\ main = "idle" /\ main' = "check" /\ since' = clock
        /\ UNCHANGED <<clock, behind, conn_, visited, writing, closing, shut, quiet, timerfd,
                       timers_, expired, timer_, collided, accepted, key, tasks_>>
    BY DEF TimerfdReadable, timeVars, connVars, timerVars
  <1>2. clock \in Nat /\ behind \in Nat
    BY Numbers DEF IInv
  <1>3. Queued' = Queued /\ \A c : Open(c)' = Open(c) /\ Idle(c)' = Idle(c)
    BY <1>1 DEF Queued, Open, Idle
  <1>4. ClocksTell' /\ ExpirationsTell'
    BY <1>1, <1>2, <1>3 DEF IdleInv, ClocksTell, ExpirationsTell
  <1>5. Timely'
    BY <1>1, <1>3 DEF IdleInv, Timely, Add, Coming
  <1>6. Tracked'
    BY <1>1, <1>3 DEF IdleInv, Tracked, Add, Coming
  <1> QED BY <1>4, <1>5, <1>6 DEF IdleInv

\* A Timer that will be restarted was not due when run() compared the clock
\* with the last visit, or its connection has data to write.
LEMMA RunTimerIdle == IInv /\ IdleInv /\ RunTimer => IdleInv'
  <1> SUFFICES ASSUME IInv, IdleInv, RunTimer PROVE IdleInv'
    OBVIOUS
  <1>1. PICK t \in Due :
          /\ key' = t
          /\ main' = CASE timers_[t] \notin timer_ -> "erase"
                       [] timers_[t] \in timer_ /\ (Wrap(clock - visited[timers_[t]]) < Hold
                                                    \/ timers_[t] \in writing) -> "restart"
                       [] OTHER -> "shutdown"
    BY DEF RunTimer
  <1> DEFINE c == timers_[t]
  <1>2. t \in Times /\ c \in Conns
    BY <1>1 DEF Due, Keys, IInv, TypeOK
  <1>3. /\ main = "check"
        /\ UNCHANGED <<clock, behind, conn_, visited, writing, closing, shut, quiet, timerfd,
                       timers_, expired, timer_, collided, accepted, since, tasks_>>
    BY DEF RunTimer, timeVars, connVars, timerVars
  <1>4. /\ clock \in 0..MaxTime /\ behind \in 0..Lag
        /\ \A d \in Conns : quiet[d] \in Nat /\ visited[d] \in Int
    BY Numbers DEF IInv
  <1>5. Queued' = Queued /\ \A d : Open(d)' = Open(d) /\ Idle(d)' = Idle(d)
    BY <1>3 DEF Queued, Open, Idle
  <1>6. ClocksTell' /\ ExpirationsTell'
    <2>1. main' \notin {"idle", "accept"}
      BY <1>1
    <2> QED BY <1>3, <1>5 DEF IdleInv, ClocksTell, ExpirationsTell
  <1>7. main' = "restart" /\ Idle(c) => clock - behind < quiet[c] + Hold
    <2> SUFFICES ASSUME main' = "restart", Idle(c) PROVE clock - behind < quiet[c] + Hold
      OBVIOUS
    <2>1. Open(c) /\ visited[c] # LongMax /\ c \notin writing
      BY DEF Idle
    <2>2. Wrap(clock - visited[c]) < Hold
      BY <1>1, <2>1
    <2>3. visited[c] \in 0..clock /\ visited[c] <= quiet[c]
      BY <1>2, <2>1 DEF IdleInv, ClocksTell, ExpirationsTell
    <2>4. clock - visited[c] \in LongMin..LongMax
      BY <1>4, <2>3, TimerQueueAssumption DEF LongMin
    <2>5. clock - visited[c] < Hold
      BY <2>2, <2>4, WrapKeeps
    <2> QED BY <1>2, <1>4, <2>3, <2>5, TimerQueueAssumption
  <1>8. main' = "erase" => ~Open(c)
    <2>1. main' = "erase" => c \notin timer_
      BY <1>1
    <2> QED BY <2>1 DEF IdleInv, Tracked, Open, Coming
  <1>9. Timely'
    <2>1. ASSUME NEW d \in Conns, Idle(d)
          PROVE  /\ Coming(d) \/ (main' = "restart" /\ timers_[key'] = d)
                      => clock - behind < quiet[d] + Hold
                 /\ \A u \in Times : timers_[u] = d => timerfd < quiet[d] + Hold + Check + Lag
      BY <1>1, <1>7, <2>1 DEF IdleInv, Timely, Coming
    <2> QED BY <1>3, <1>5, <2>1 DEF Timely, Add, Coming
  <1>10. Tracked'
    BY <1>1, <1>3, <1>5, <1>8 DEF IdleInv, Tracked, Add, Coming
  <1> QED BY <1>6, <1>9, <1>10 DEF IdleInv

\* The new expiration counts from the last visit.
LEMMA RestartIdle == IInv /\ IdleInv /\ Restart => IdleInv'
  <1> SUFFICES ASSUME IInv, IdleInv, Restart PROVE IdleInv'
    OBVIOUS
  <1> DEFINE c == timers_[key]
  <1>1. /\ main = "restart" /\ main' = "erase"
        /\ expired' = [expired EXCEPT ![c] = FromVisited(c)]
        /\ tasks_' = Append(tasks_, Add(c))
        /\ UNCHANGED <<clock, behind, conn_, visited, writing, closing, shut, quiet, timerfd,
                       timers_, timer_, collided, accepted, since, key>>
    BY DEF Restart, Add, timeVars, connVars
  <1>2. c \in Conns /\ key \in Times
    BY <1>1 DEF IInv, RunningTells, Keys, TypeOK
  <1>3. /\ clock \in 0..MaxTime /\ behind \in 0..Lag
        /\ \A d \in Conns : quiet[d] \in Nat /\ visited[d] \in Int /\ expired[d] \in Int
    BY Numbers DEF IInv
  <1>4. tasks_ \in Seq(TimerTask) /\ Add(c) \in TimerTask /\ expired \in [Conns -> Times]
    BY <1>2 DEF IInv, TypeOK, TimerTask, Add
  <1>5. Queued' = Queued \cup {Add(c)}
    BY <1>1, <1>4, TaskQueued
  <1>6. /\ Add(c) \in Queued'
        /\ \A d \in Conns \ {c} : Add(d) \in Queued' <=> Add(d) \in Queued
    BY <1>5 DEF Add
  <1>7. \A d : Open(d)' = Open(d) /\ Idle(d)' = Idle(d)
    BY <1>1 DEF Open, Idle
  <1>8. ClocksTell'
    BY <1>1 DEF IdleInv, ClocksTell
  <1>9. Open(c) => FromVisited(c) <= quiet[c] + Hold
    <2>1. CASE visited[c] = LongMax
      <3> DEFINE M == 2 * LongMax + 2
      <3>1. Hold - 1 \in 0..(M - 1) /\ M \in Nat \ {0}
        BY TimerQueueAssumption
      <3> HIDE DEF M
      <3>2. (M + (Hold - 1)) % M = Hold - 1
        BY <3>1, OnceAround
      <3> DEFINE y == (visited[c] + Hold) - LongMin
      <3>3. y = M + (Hold - 1)
        BY <2>1, TimerQueueAssumption DEF LongMin, M
      <3>4. FromVisited(c) = (y % M) + LongMin
        BY DEF FromVisited, Wrap, M
      <3> HIDE DEF y
      <3>5. FromVisited(c) = Hold - 1 + LongMin
        BY <3>2, <3>3, <3>4
      <3> QED BY <1>2, <1>3, <3>5, TimerQueueAssumption DEF LongMin
    <2>2. CASE visited[c] # LongMax
      <3>1. visited[c] \in 0..clock /\ (Open(c) => visited[c] <= quiet[c])
        BY <1>2, <2>2 DEF IdleInv, ClocksTell, ExpirationsTell
      <3>2. visited[c] + Hold \in LongMin..LongMax
        BY <1>3, <3>1, TimerQueueAssumption DEF LongMin
      <3>3. FromVisited(c) = visited[c] + Hold
        BY <3>2, WrapKeeps DEF FromVisited
      <3> QED BY <1>2, <1>3, <3>1, <3>3, TimerQueueAssumption
    <2> QED BY <2>1, <2>2
  <1>10. ExpirationsTell'
    <2>1. expired'[c] = FromVisited(c) /\ \A d \in Conns \ {c} : expired'[d] = expired[d]
      BY <1>1, <1>2, <1>4
    <2>2. ASSUME NEW d \in Conns, Open(d)
          PROVE  expired'[d] <= quiet[d] + Hold /\ (visited[d] # LongMax => visited[d] <= quiet[d])
      BY <1>9, <2>1, <2>2 DEF IdleInv, ExpirationsTell
    <2> QED BY <1>1, <1>7, <2>2 DEF ExpirationsTell
  <1>11. Timely'
    <2>1. ASSUME NEW d \in Conns, Idle(d)
          PROVE  /\ Coming(d)' => clock - behind < quiet[d] + Hold
                 /\ \A u \in Times : timers_[u] = d => timerfd < quiet[d] + Hold + Check + Lag
      BY <1>1, <1>6, <2>1 DEF IdleInv, Timely, Coming
    <2> QED BY <1>1, <1>7, <2>1 DEF Timely, Add, Coming
  <1>12. Tracked'
    BY <1>1, <1>6, <1>7 DEF IdleInv, Tracked, Add, Coming
  <1> QED BY <1>8, <1>10, <1>11, <1>12 DEF IdleInv

\* handleTimer() shuts down the connection that is running.
LEMMA ShutdownIdle == IInv /\ IdleInv /\ ShutdownWrite => IdleInv'
  <1> SUFFICES ASSUME IInv, IdleInv, ShutdownWrite PROVE IdleInv'
    OBVIOUS
  <1> DEFINE c == timers_[key]
  <1>1. /\ main = "shutdown" /\ main' = "erase" /\ shut' = shut \cup {c}
        /\ quiet' = [quiet EXCEPT ![c] = 0]
        /\ UNCHANGED <<clock, behind, conn_, visited, writing, closing, timerfd, timers_,
                       expired, timer_, collided, accepted, since, key, tasks_>>
    BY DEF ShutdownWrite, timeVars, timerVars
  <1>2. c \in Conns /\ quiet \in [Conns -> 0..MaxTime] /\ clock \in Nat
    BY <1>1 DEF IInv, RunningTells, Keys, TypeOK
  <1>3. quiet'[c] = 0 /\ \A d \in Conns \ {c} : quiet'[d] = quiet[d]
    BY <1>1, <1>2
  <1>4. /\ Queued' = Queued /\ ~Open(c)'
        /\ \A d \in Conns \ {c} : Open(d)' = Open(d) /\ Idle(d)' = Idle(d)
    BY <1>1 DEF Queued, Open, Idle
  <1>5. ClocksTell'
    BY <1>1, <1>2, <1>3 DEF IdleInv, ClocksTell
  <1>6. ExpirationsTell'
    BY <1>1, <1>3, <1>4 DEF IdleInv, ExpirationsTell
  <1>7. Timely'
    <2>1. ASSUME NEW d \in Conns, Idle(d)'
          PROVE  /\ d # c /\ Idle(d) /\ quiet'[d] = quiet[d]
                 /\ Coming(d) => clock - behind < quiet[d] + Hold
                 /\ \A t \in Times : timers_[t] = d => timerfd < quiet[d] + Hold + Check + Lag
      <3>1. d # c
        BY <1>1, <1>4, <2>1 DEF Idle
      <3>2. quiet'[d] = quiet[d] /\ Idle(d)
        BY <1>3, <1>4, <2>1, <3>1
      <3> QED BY <3>1, <3>2 DEF IdleInv, Timely, Coming
    <2> QED BY <1>1, <1>4, <2>1 DEF Timely, Add, Coming
  <1>8. Tracked'
    BY <1>1, <1>4 DEF IdleInv, Tracked, Add, Coming
  <1> QED BY <1>5, <1>6, <1>7, <1>8 DEF IdleInv

\* The connection of the entry that goes is shut, gone, or has its Timer on
\* the way back.
LEMMA EraseIdle == IInv /\ IdleInv /\ Erase => IdleInv'
  <1> SUFFICES ASSUME IInv, IdleInv, Erase PROVE IdleInv'
    OBVIOUS
  <1>1. /\ main = "erase" /\ main' = "check" /\ timers_' = [timers_ EXCEPT ![key] = None]
        /\ UNCHANGED <<clock, behind, conn_, visited, writing, closing, shut, quiet, timerfd,
                       expired, timer_, collided, accepted, since, tasks_>>
    BY DEF Erase, EraseEntry, timeVars, connVars
  <1>2. timers_ \in [Times -> Conns \cup {None}] /\ key \in Times
    BY DEF IInv, TypeOK
  <1>3. \A t \in Times : timers_'[t] = IF t = key THEN None ELSE timers_[t]
    BY <1>1, <1>2
  <1>4. Queued' = Queued /\ \A d : Open(d)' = Open(d) /\ Idle(d)' = Idle(d)
    BY <1>1 DEF Queued, Open, Idle
  <1>5. ClocksTell' /\ ExpirationsTell'
    BY <1>1, <1>4 DEF IdleInv, ClocksTell, ExpirationsTell
  <1>6. Timely'
    <2>1. ASSUME NEW d \in Conns, Idle(d)
          PROVE  /\ Coming(d) => clock - behind < quiet[d] + Hold
                 /\ \A t \in Times : timers_'[t] = d => timerfd < quiet[d] + Hold + Check + Lag
      BY <1>3, <2>1, TimerQueueAssumption DEF IdleInv, Timely, Coming
    <2> QED BY <1>1, <1>4, <2>1 DEF Timely, Add, Coming
  <1>7. Tracked'
    <2>1. ASSUME NEW d \in Conns, Open(d), d \notin collided
          PROVE  Coming(d) \/ \E t \in Times : timers_'[t] = d
      <3>1. Coming(d) \/ \E t \in Times : timers_[t] = d
        BY <2>1 DEF IdleInv, Tracked, Coming
      <3>2. timers_[key] = d => Add(d) \in Queued
        BY <1>1, <2>1 DEF IdleInv, Tracked, Coming
      <3> QED BY <1>3, <3>1, <3>2 DEF Coming
    <2> QED BY <1>1, <1>4, <2>1 DEF IdleInv, Tracked, Add, Coming
  <1> QED BY <1>5, <1>6, <1>7 DEF IdleInv

\* The Timers that are left were not due when the check began.
LEMMA EndCheckIdle == IInv /\ IdleInv /\ EndCheck => IdleInv'
  <1> SUFFICES ASSUME IInv, IdleInv, EndCheck PROVE IdleInv'
    OBVIOUS
  <1>1. /\ main = "check" /\ main' = "idle" /\ Due = {} /\ timerfd' = NextCheck
        /\ UNCHANGED <<clock, behind, conn_, visited, writing, closing, shut, quiet,
                       timers_, expired, timer_, collided, accepted, key, tasks_>>
    BY DEF EndCheck, timeVars, connVars
  <1>2. /\ clock \in Nat /\ behind \in 0..Lag /\ timerfd \in Nat /\ since \in Nat
        /\ \A d \in Conns : quiet[d] \in Nat /\ expired[d] \in Int
    BY Numbers DEF IInv
  <1>3. since <= clock /\ clock <= since + behind
    BY <1>1 DEF IdleInv, ClocksTell
  <1>4. /\ timerfd' \in Nat /\ clock <= timerfd' /\ timerfd' <= clock + Check
        /\ timerfd' <= since + Check + Lag
    BY <1>1, <1>2, <1>3, TimerQueueAssumption DEF NextCheck
  <1>5. Queued' = Queued /\ \A d : Open(d)' = Open(d) /\ Idle(d)' = Idle(d)
    BY <1>1 DEF Queued, Open, Idle
  <1>6. ClocksTell'
    BY <1>1, <1>2, <1>4 DEF IdleInv, ClocksTell
  <1>7. ExpirationsTell'
    BY <1>1, <1>5 DEF IdleInv, ExpirationsTell
  <1>8. Timely'
    <2>1. ASSUME NEW d \in Conns, Idle(d), NEW t \in Times, timers_[t] = d
          PROVE  timerfd' < quiet[d] + Hold + Check + Lag
      <3>1. t \in Keys \ Running
        BY <1>1, <2>1, TimerQueueAssumption DEF Keys, Running
      <3>2. expired[d] = t /\ since < t
        <4>1. expired[d] = t
          BY <2>1, <3>1 DEF IInv, KeyIsExpiration
        <4>2. ~(t <= since)
          BY <1>1, <3>1 DEF Due
        <4> QED BY <1>2, <4>1, <4>2
      <3>3. expired[d] <= quiet[d] + Hold
        BY <2>1 DEF IdleInv, ExpirationsTell, Idle
      <3>4. expired[d] \in Int /\ quiet[d] \in Nat /\ t \in Int
        BY <1>2, <2>1, <3>2
      <3> QED BY <1>2, <1>4, <3>2, <3>3, <3>4, TimerQueueAssumption
    <2>2. ASSUME NEW d \in Conns, Idle(d), Coming(d)
          PROVE  clock - behind < quiet[d] + Hold
      BY <2>2 DEF IdleInv, Timely, Coming
    <2> QED BY <1>1, <1>5, <2>1, <2>2 DEF Timely, Add, Coming
  <1>9. Tracked'
    BY <1>1, <1>5 DEF IdleInv, Tracked, Add, Coming
  <1> QED BY <1>6, <1>7, <1>8, <1>9 DEF IdleInv

LEMMA StutterIdle == IInv /\ IdleInv /\ UNCHANGED vars => IdleInv'
  <1> SUFFICES ASSUME IInv, IdleInv, UNCHANGED vars PROVE IdleInv'
    OBVIOUS
  <1>1. UNCHANGED <<clock, behind, conn_, visited, writing, closing, shut, quiet, timerfd,
                    timers_, expired, timer_, collided, main, accepted, since, key, tasks_>>
    BY DEF vars, timeVars, connVars, timerVars, mainVars
  <1>2. Queued' = Queued /\ \A d : Open(d)' = Open(d) /\ Idle(d)' = Idle(d)
    BY <1>1 DEF Queued, Open, Idle
  <1>3. ClocksTell' /\ ExpirationsTell' /\ Timely' /\ Tracked'
    BY <1>1, <1>2 DEF IdleInv, ClocksTell, ExpirationsTell, Timely, Tracked, Add, Coming
  <1> QED BY <1>3 DEF IdleInv

\* Every step keeps what is known of the idle connections.
LEMMA StepIdle == IInv /\ IdleInv /\ [Next]_vars => IdleInv'
  BY TickIdle, AcceptIdle, AddTimerIdle, ReadIdle, DrainIdle, HandleCloseIdle, AddTimerInLoopIdle,
     RemoveConnectionIdle, TimerfdIdle, RunTimerIdle, RestartIdle, ShutdownIdle,
     EraseIdle, EndCheckIdle, StutterIdle
  DEF Next

LEMMA IdleHolds == Spec => []IdleInv
  BY InitIdle, Invariant, StepIdle, PTL DEF Spec

\* A connection that was read and has been idle since is shut down within the
\* hold, one check and twice what the main thread may be behind, for any
\* number of connections and any hold, check and lag: each restart counts from
\* a visit later than the one before, a Timer that is to be added again was
\* not due when the check that ran it began, and one that a check left in
\* timers_ is due by the next.  What it needs of the Timers is that no equal
\* key was met.
THEOREM IdleIsShutInTime == Spec => []IdleAfterReadIsShut
  <1>1. ASSUME IInv, IdleInv, NEW c \in Conns, Idle(c), c \notin collided
        PROVE  clock < quiet[c] + Hold + Check + 2 * Lag
    <2>1. /\ clock \in Nat /\ behind \in 0..Lag /\ timerfd \in Nat /\ quiet[c] \in Nat
          /\ clock <= timerfd + behind
      BY <1>1, Numbers DEF IInv, IdleInv, ClocksTell
    <2>2. Coming(c) \/ \E t \in Times : timers_[t] = c
      BY <1>1 DEF IdleInv, Tracked, Idle, Coming
    <2>3. clock - behind < quiet[c] + Hold \/ timerfd < quiet[c] + Hold + Check + Lag
      BY <1>1, <2>2 DEF IdleInv, Timely, Coming
    <2> QED BY <2>1, <2>3, TimerQueueAssumption
  <1>2. IInv /\ IdleInv => IdleAfterReadIsShut
    BY <1>1 DEF IdleAfterReadIsShut, Idle
  <1> QED BY <1>2, Invariant, IdleHolds, PTL
=============================================================================
