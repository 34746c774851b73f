------------------------------ MODULE EventLoop ------------------------------
(***************************************************************************)
(* One EventLoop of net/EventLoop.cc with its Epoll (net/Epoll.cc): the    *)
(* thread that runs loop() and the threads that hand it tasks through      *)
(* queueInLoop().  Every access to tasks_ is inside a critical section of  *)
(* mutex_ that holds nothing else, so each critical section is one step.   *)
(*                                                                         *)
(* Tasks are numbered in the order of their push_back.  The handlers of    *)
(* the other channels and the bodies of the tasks are callbacks that may   *)
(* call queueInLoop() on this same loop (TimerQueue::addTimer does) before *)
(* they return.                                                            *)
(***************************************************************************)
EXTENDS Naturals, Sequences, FiniteSets

CONSTANTS
  Submitters,     \* other threads that call queueInLoop()
  LoopThread,     \* the thread that runs loop()
  Channels,       \* registered channels other than wakeupChannel_
  WakeupChannel,  \* wakeupChannel_, the channel of wakeupFd
  InitEvents,     \* initial size of Epoll::revents (16 in the code)
  MaxTasks        \* bound of the model: tasks handed over in a behaviour

ASSUME EventLoopAssumption ==
  /\ LoopThread \notin Submitters
  /\ WakeupChannel \notin Channels
  /\ InitEvents \in Nat \ {0}
  /\ MaxTasks \in Nat

VARIABLES
  tasks_,    \* tasks handed over and not swapped out yet
  t_task,    \* the rest of the batch loop() is running
  executed,  \* history: the tasks loop() has called, in order
  eventfd,   \* counter of wakeupFd
  wakeuped,  \* the flag loop() clears after each epoll_wait
  ready,     \* channels whose descriptor has an event to report
  active,    \* activeChannels still to be handled in this iteration
  nrevents,  \* size of Epoll::revents
  quit,      \* _quit
  pc,        \* where loop() is
  call       \* per thread: "idle", or "pushed" between push_back and wakeup

vars == <<tasks_, t_task, executed, eventfd, wakeuped, ready, active,
          nrevents, quit, pc, call>>

Threads == Submitters \cup {LoopThread}
AllChannels == Channels \cup {WakeupChannel}

Submitted == Len(executed) + (Len(t_task) + Len(tasks_))

Init ==
  /\ tasks_ = <<>>
  /\ t_task = <<>>
  /\ executed = <<>>
  /\ eventfd = 0
  /\ wakeuped = FALSE
  /\ ready = {}
  /\ active = {}
  /\ nrevents = InitEvents
  /\ quit = FALSE
  /\ pc = "epoll"
  /\ call = [t \in Threads |-> "idle"]
-----------------------------------------------------------------------------
(* queueInLoop(): push_back under the mutex, then wakeup().                *)

\* The loop thread itself calls queueInLoop() from a handler or a task only.
MayCall(t) == call[t] = "idle" /\ (t = LoopThread => pc \in {"handler", "task"})

PushTask(t) ==
  /\ MayCall(t)
  /\ Submitted < MaxTasks
  /\ tasks_' = Append(tasks_, Submitted + 1)
  /\ call' = [call EXCEPT ![t] = "pushed"]
  /\ UNCHANGED <<t_task, executed, eventfd, wakeuped, ready, active, nrevents, quit, pc>>

\* Mutant: the line commented out at EventLoop.cc:54.
WakeupUnlessWakeuped(t) ==
  /\ call[t] = "pushed"
  /\ call' = [call EXCEPT ![t] = "idle"]
  /\ eventfd' = IF wakeuped THEN eventfd ELSE eventfd + 1
  /\ wakeuped' = TRUE
  /\ UNCHANGED <<tasks_, t_task, executed, ready, active, nrevents, quit, pc>>

Wakeup(t) ==
  /\ call[t] = "pushed"
  /\ call' = [call EXCEPT ![t] = "idle"]
  /\ eventfd' = eventfd + 1
  /\ UNCHANGED <<tasks_, t_task, executed, wakeuped, ready, active, nrevents, quit, pc>>
-----------------------------------------------------------------------------
(* Epoll::epollWait() and the start of an iteration of loop().             *)

\* A descriptor of another channel becomes ready: data, a connection, a timer.
BecomeReady(c) ==
  /\ c \notin ready
  /\ ready' = ready \cup {c}
  /\ UNCHANGED <<tasks_, t_task, executed, eventfd, wakeuped, active, nrevents, quit, pc, call>>

Reportable == ready \cup (IF eventfd > 0 THEN {WakeupChannel} ELSE {})

\* epoll_wait reports as many ready descriptors as fit in revents.
ReportedSets ==
  {S \in SUBSET Reportable :
     \/ S = Reportable /\ Cardinality(S) <= nrevents
     \/ Cardinality(S) = nrevents}

\* Mutant: revents never grows.
NeverGrown(S) == nrevents

\* The size of revents once the events S have been reported.
Grown(S) == IF Cardinality(S) = nrevents THEN 2 * nrevents ELSE nrevents

EpollEvents ==
  /\ pc = "epoll"
  /\ Reportable # {}
  /\ active' \in ReportedSets
  /\ nrevents' = Grown(active')
  /\ wakeuped' = FALSE
  /\ pc' = "dispatch"
  /\ UNCHANGED <<tasks_, t_task, executed, eventfd, ready, quit, call>>

\* Mutant: revents is resized to the number of events reported.
EpollTimeoutShrinking ==
  /\ pc = "epoll" /\ Reportable = {}
  /\ active' = {} /\ nrevents' = Cardinality(active')
  /\ wakeuped' = FALSE /\ pc' = "dispatch"
  /\ UNCHANGED <<tasks_, t_task, executed, eventfd, ready, quit, call>>

\* kPollTimeMs elapsed: n = 0, the iteration goes on with no active channel.
EpollTimeout ==
  /\ pc = "epoll"
  /\ Reportable = {}
  /\ active' = {}
  /\ wakeuped' = FALSE
  /\ pc' = "dispatch"
  /\ UNCHANGED <<tasks_, t_task, executed, eventfd, ready, nrevents, quit, call>>

\* epoll_wait returned -1 (a signal is enough): this iteration is the last.
EpollError ==
  /\ pc = "epoll"
  /\ active' = {}
  /\ wakeuped' = FALSE
  /\ quit' = TRUE
  /\ pc' = "dispatch"
  /\ UNCHANGED <<tasks_, t_task, executed, eventfd, ready, nrevents, call>>
-----------------------------------------------------------------------------
(* The rest of the iteration: handlers, then the tasks swapped out.        *)

\* EventLoop::handleRead(): the read of an eventfd resets its counter.
HandleWakeup ==
  /\ pc = "dispatch"
  /\ WakeupChannel \in active
  /\ active' = active \ {WakeupChannel}
  /\ eventfd' = 0
  /\ UNCHANGED <<tasks_, t_task, executed, wakeuped, ready, nrevents, quit, pc, call>>

HandleChannel(c) ==
  /\ pc = "dispatch"
  /\ c \in active
  /\ active' = active \ {c}
  /\ ready' = ready \ {c}
  /\ pc' = "handler"
  /\ UNCHANGED <<tasks_, t_task, executed, eventfd, wakeuped, nrevents, quit, call>>

\* A handler goes back to the loop over activeChannels, a task to the loop
\* over t_task.
CallbackReturns ==
  /\ pc \in {"handler", "task"}
  /\ call[LoopThread] = "idle"
  /\ pc' = IF pc = "handler" THEN "dispatch" ELSE "run"
  /\ UNCHANGED <<tasks_, t_task, executed, eventfd, wakeuped, ready, active, nrevents, quit, call>>

\* Mutant: the batch is copied instead of swapped.
Copied == tasks_

\* What the swap leaves in tasks_.
Swapped == <<>>

SwapTasks ==
  /\ pc = "dispatch"
  /\ active = {}
  /\ t_task' = tasks_
  /\ tasks_' = Swapped
  /\ pc' = "run"
  /\ UNCHANGED <<executed, eventfd, wakeuped, ready, active, nrevents, quit, call>>

RunTask ==
  /\ pc = "run"
  /\ t_task # <<>>
  /\ executed' = Append(executed, Head(t_task))
  /\ t_task' = Tail(t_task)
  /\ pc' = "task"
  /\ UNCHANGED <<tasks_, eventfd, wakeuped, ready, active, nrevents, quit, call>>

EndIteration ==
  /\ pc = "run"
  /\ t_task = <<>>
  /\ pc' = IF quit THEN "exit" ELSE "epoll"
  /\ UNCHANGED <<tasks_, t_task, executed, eventfd, wakeuped, ready, active, nrevents, quit, call>>
-----------------------------------------------------------------------------
LoopStep ==
  \/ EpollEvents \/ HandleWakeup \/ CallbackReturns
  \/ SwapTasks \/ RunTask \/ EndIteration
  \/ \E c \in Channels : HandleChannel(c)
  \/ Wakeup(LoopThread)

Next ==
  \/ LoopStep
  \/ EpollTimeout
  \/ EpollError
  \/ \E t \in Threads : PushTask(t)
  \/ \E t \in Submitters : Wakeup(t)
  \/ \E c \in Channels : BecomeReady(c)

Spec == Init /\ [][Next]_vars

\* The scheduler runs every thread that can run; a thread in the middle of
\* queueInLoop() returns from it.  Nothing is assumed of the descriptors, of
\* new calls, of the 10-second timeout or of errors of epoll_wait.
Fairness ==
  /\ WF_vars(LoopStep)
  /\ \A t \in Submitters : WF_vars(Wakeup(t))

FairSpec == Spec /\ Fairness
-----------------------------------------------------------------------------
TypeOK ==
  /\ tasks_ \in Seq(Nat)
  /\ t_task \in Seq(Nat)
  /\ executed \in Seq(Nat)
  /\ eventfd \in Nat
  /\ wakeuped \in BOOLEAN
  /\ ready \subseteq Channels
  /\ active \subseteq AllChannels
  /\ nrevents \in Nat \ {0}
  /\ quit \in BOOLEAN
  /\ pc \in {"epoll", "dispatch", "handler", "run", "task", "exit"}
  /\ call \in [Threads -> {"idle", "pushed"}]

\* No lost wakeup.  While loop() is between swapping tasks_ out and the next
\* return of epoll_wait, a task left in tasks_ has its wakeup in the eventfd
\* or about to be written by the thread that pushed it, so the loop never
\* sleeps its 10 seconds on work that is already queued.
NoLostWakeup ==
  pc \in {"epoll", "run", "task"} /\ tasks_ # <<>>
    => eventfd > 0 \/ \E t \in Threads : call[t] = "pushed"

\* The two vectors and the swap of loop() implement the abstract executor:
\* each task is started once, in the order of the queueInLoop() calls.
Executor == INSTANCE TaskExecutor WITH pending <- t_task \o tasks_, executed <- executed
ImplementsExecutor == Executor!Spec

\* Every task handed over is started, with no help from the poll timeout,
\* unless epoll_wait fails and ends the loop.
TaskEventuallyRuns ==
  \A i \in 1..MaxTasks :
    Submitted >= i ~> (Len(executed) >= i \/ quit)

\* A ready descriptor is handled however many others are ready again and
\* again: revents grows until all of them fit.
ReadyChannelServed ==
  \A c \in Channels : c \in ready ~> (c \notin ready \/ quit)
=============================================================================
