------------------------------ MODULE TcpServer ------------------------------
(***************************************************************************)
(* The life of the connections of a TcpServer: accepted on the main loop,  *)
(* handed to an I/O loop of the EventLoopThreadPool, registered with that  *)
(* loop's Epoll, closed by its I/O thread, removed from conn_ by the main  *)
(* thread, and destroyed by whichever thread drops the last                *)
(* shared_ptr<TcpConnection> (net/TcpServer.cc, net/TcpConnection.cc,      *)
(* net/Epoll.cc, net/TimerQueue.*, net/EventLoopThreadPool.cc).            *)
(*                                                                         *)
(* Each loop is a task queue swapped out in batches, as EventLoop proves   *)
(* its implementation to be.  Reference counts are not stored: Held says   *)
(* which variables of the program own a connection.  Time is abstract: a   *)
(* timer in timers_ may expire at any moment.                              *)
(***************************************************************************)
EXTENDS Integers, Sequences, FiniteSets

CONSTANTS
  Conns,        \* connections, each accepted at most once
  Main,         \* the thread of the main loop
  PoolThreads,  \* sequence of threads, the first num_ of them in the pool
  MaxFds,       \* descriptors accept() can hand out: at most 1..MaxFds
  Configs,      \* arguments of the constructor, and the process it runs in
  None          \* no connection, no thread

Threads == {Main} \cup {PoolThreads[i] : i \in DOMAIN PoolThreads}
Fds == 1..MaxFds

\* num_ threads in the pool, mode_ 1 (LT) or 2 (ET), conn_hold_seconds, the
\* descriptors left for connections, and the clients that may come.
Config == [num_ : 0..Len(PoolThreads), mode_ : {1, 2}, conn_hold_seconds : Int,
           fds : SUBSET Fds, clients : SUBSET Conns]

ASSUME TcpServerAssumption ==
  /\ MaxFds \in Nat
  /\ PoolThreads \in Seq({PoolThreads[i] : i \in DOMAIN PoolThreads})
  /\ None \notin Conns \cup Threads
  /\ \A i \in DOMAIN PoolThreads : PoolThreads[i] # Main
  /\ Configs \subseteq Config

kNew == -1
kAdded == 1
kDeleted == 2

VARIABLES
  config,       \* the configuration, one of Configs
  conn_,        \* the connections in the map conn_
  destroyedBy,  \* thread that ran ~TcpConnection, None before
  fdOf,         \* descriptor of each connection, 0 when it has none
  loopOf,       \* the loop (thread) each connection was given to
  currentLoop,  \* EventLoopThreadPool::currentLoop
  configured,   \* connections whose callbacks and context are set
  index_,       \* Channel::index_
  channels,     \* Epoll::channels of each loop: descriptor to Channel
  interest,     \* kernel interest list of each loop: descriptor to data.ptr
  unread, eof,  \* connections with unread data, and closed by their peer
  active,       \* activeChannels still to be handled, per thread
  at, cur,      \* per thread: where it is, and the connection it works on
  queue,        \* tasks_, per loop
  batch,        \* the rest of t_task, per loop
  spent,        \* tasks of the batch already run, their functors still alive
  timers_,      \* connections whose Timer is in TimerQueue::timers_
  timer_        \* connections whose timer_ is not null

objectVars == <<destroyedBy, fdOf, index_, channels, interest>>
serverVars == <<config, conn_, loopOf, currentLoop, configured>>
netVars == <<unread, eof>>
threadVars == <<active, at, cur>>
taskVars == <<queue, batch, spent>>
timerVars == <<timers_, timer_>>
vars == <<objectVars, serverVars, netVars, threadVars, taskVars, timerVars>>

Task == [op : {"establish", "addTimer", "remove"}, conn : Conns]
Labels == {"loop", "dispatch", "tasks", "accepted", "configured", "queued",
           "read", "callback", "close", "closed", "timer"}

Init ==
  /\ config \in Configs
  /\ conn_ = {}
  /\ destroyedBy = [c \in Conns |-> None]
  /\ fdOf = [c \in Conns |-> 0]
  /\ loopOf = [c \in Conns |-> None]
  /\ currentLoop = -1
  /\ configured = {}
  /\ index_ = [c \in Conns |-> kNew]
  /\ channels = [t \in Threads |-> [f \in Fds |-> None]]
  /\ interest = [t \in Threads |-> [f \in Fds |-> None]]
  /\ unread = {} /\ eof = {}
  /\ active = [t \in Threads |-> {}]
  /\ at = [t \in Threads |-> "loop"]
  /\ cur = [t \in Threads |-> None]
  /\ queue = [t \in Threads |-> <<>>]
  /\ batch = [t \in Threads |-> <<>>]
  /\ spent = [t \in Threads |-> {}]
  /\ timers_ = {} /\ timer_ = {}

\* Among the handlers of the events it got; the main thread also has its
\* listening socket and timerfd, which may be readable at any time.
HandlesEvents(t) == at[t] = "dispatch"

Accepted(c) == loopOf[c] # None
Destroyed(c) == destroyedBy[c] # None
Tasks(s) == {s[i] : i \in DOMAIN s}

\* The program counter of a thread, and the connection its handler is about.
Goto(t, label, c) ==
  /\ at' = [at EXCEPT ![t] = label]
  /\ cur' = [cur EXCEPT ![t] = c]
-----------------------------------------------------------------------------
(* Ownership.  addTimer holds the Timer, which has only a weak_ptr to its  *)
(* connection; establish and remove are bound to a shared_ptr.             *)

OwningTask(c) == {[op |-> "establish", conn |-> c], [op |-> "remove", conn |-> c]}

\* A thread owns its connection through the local conn of newConnection, the
\* argument of readCallback_, guardThis or the tcp of Timer::run; it does not
\* while it is in handleRead() through the raw pointer of the channel.
OwningLabels == Labels \ {"loop", "dispatch", "tasks", "read"}

HeldByThreads(c) ==
  \E t \in Threads :
    \/ cur[t] = c /\ at[t] \in OwningLabels
    \/ OwningTask(c) \cap (Tasks(queue[t]) \cup Tasks(batch[t]) \cup spent[t]) # {}

\* Mutant: the callback of the Timer is bound to a shared_ptr.
HeldByTimerToo(c) == c \in conn_ \cup timers_ \/ HeldByThreads(c)

Held(c) == c \in conn_ \/ HeldByThreads(c)

\* Thread t drops references: ~TcpConnection closes the descriptor, which
\* leaves every interest list, and deletes the channel.
DropReferences(t) ==
  LET dying == {c \in Conns : Accepted(c) /\ ~Destroyed(c) /\ ~Held(c)'}
      closed == {fdOf[c] : c \in dying}
  IN  /\ destroyedBy' = [c \in Conns |-> IF c \in dying THEN t ELSE destroyedBy[c]]
      /\ fdOf' = [c \in Conns |-> IF c \in dying THEN 0 ELSE fdOf[c]]
      /\ interest' = [l \in Threads |->
                       [f \in Fds |-> IF f \in closed THEN None ELSE interest[l][f]]]
      /\ UNCHANGED <<index_, channels>>
-----------------------------------------------------------------------------
(* Epoll::updateChannel() on loop l for the channel of c, whose index_ is  *)
(* idx at the call (disableAll sets kDeleted just before it).              *)

\* epoll_ctl() on a descriptor whose data.ptr in the interest list is old:
\* ADD, MOD or DEL, without effect on EEXIST and ENOENT.
Changed(old, c) == IF old = None THEN None ELSE c

\* Mutant: EPOLL_CTL_DEL is forgotten.
EpollCtlWithoutDel(old, c, known, idx) ==
  IF known THEN IF idx = kAdded THEN Changed(old, c) ELSE old
           ELSE IF old = None THEN c ELSE old

EpollCtl(old, c, known, idx) ==
  CASE ~known                   -> IF old = None THEN c ELSE old
    [] known /\ idx = kAdded   -> Changed(old, c)
    [] known /\ idx = kDeleted -> None
    [] OTHER                    -> old

\* Mutant: channels.erase(fd) is forgotten.
EntryKept(c, known, idx) == c

Entry(c, known, idx) == IF known /\ idx = kDeleted THEN None ELSE c

UpdateChannel(l, c, idx) ==
  LET f == fdOf[c]
      known == channels[l][f] # None
  IN  /\ index_' = [index_ EXCEPT ![c] = IF known THEN idx ELSE kAdded]
      /\ channels' = [channels EXCEPT ![l][f] = Entry(c, known, idx)]
      /\ interest' = [interest EXCEPT ![l][f] = EpollCtl(@, c, known, idx)]
      /\ UNCHANGED <<destroyedBy, fdOf>>
-----------------------------------------------------------------------------
(* TcpServer::newConnection(), on the main thread.                         *)

FreeFds == config.fds \ {fdOf[c] : c \in Conns}
LowestFree == CHOOSE f \in FreeFds : \A g \in FreeFds : f <= g

\* Mutant: the end of loops_ is tested before the step and not after it.
NextLoopPastEnd ==
  IF config.num_ = 0 THEN currentLoop
  ELSE IF currentLoop = config.num_ THEN 0 ELSE currentLoop + 1

\* EventLoopThreadPool::getNextLoop(): the next value of currentLoop.
NextLoop == IF config.num_ = 0 THEN currentLoop ELSE (currentLoop + 1) % config.num_
LoopAt(i) == IF config.num_ = 0 THEN Main ELSE PoolThreads[i + 1]

HasTimer == config.conn_hold_seconds >= 0

\* accept, construct the Timer and the TcpConnection, enter it in conn_.
Accept(c) ==
  /\ HandlesEvents(Main)
  /\ c \in config.clients /\ ~Accepted(c)
  /\ FreeFds # {}
  /\ currentLoop' = NextLoop
  /\ loopOf' = [loopOf EXCEPT ![c] = LoopAt(NextLoop)]
  /\ fdOf' = [fdOf EXCEPT ![c] = LowestFree]
  /\ conn_' = conn_ \cup {c}
  /\ timer_' = IF HasTimer THEN timer_ \cup {c} ELSE timer_
  /\ Goto(Main, "accepted", c)
  /\ UNCHANGED <<config, destroyedBy, configured, index_, channels, interest, netVars,
                 active, taskVars, timers_>>

\* Mutant: enableReading() on the main thread, what the comment in
\* newConnection() warns of.
EstablishAtOnce ==
  /\ at[Main] = "accepted"
  /\ LET c == cur[Main] IN UpdateChannel(loopOf[c], c, index_[c])
  /\ Goto(Main, "configured", cur[Main])
  /\ UNCHANGED <<serverVars, netVars, active, taskVars, timerVars>>

\* setReadCallback, setCloseCallback, connectionCallback (setContext).
SetCallbacks ==
  /\ at[Main] = "accepted"
  /\ configured' = configured \cup {cur[Main]}
  /\ Goto(Main, "configured", cur[Main])
  /\ UNCHANGED <<config, conn_, loopOf, currentLoop, objectVars, netVars, active, taskVars,
                 timerVars>>

Queue(t, op, c) == queue' = [queue EXCEPT ![t] = Append(@, [op |-> op, conn |-> c])]

QueueEstablish ==
  /\ at[Main] = "configured"
  /\ Queue(loopOf[cur[Main]], "establish", cur[Main])
  /\ Goto(Main, "queued", cur[Main])
  /\ UNCHANGED <<objectVars, serverVars, netVars, active, batch, spent, timerVars>>

\* Bind and queue the timer, return: the local conn goes out of scope.
AddTimer ==
  /\ at[Main] = "queued"
  /\ IF HasTimer THEN Queue(Main, "addTimer", cur[Main]) ELSE UNCHANGED queue
  /\ Goto(Main, "dispatch", None)
  /\ UNCHANGED <<serverVars, netVars, active, batch, spent, timerVars>>
  /\ DropReferences(Main)
-----------------------------------------------------------------------------
(* An iteration of a loop: epoll_wait, handlers, the tasks swapped out.    *)

ReadyChannels(t) ==
  {c \in {interest[t][f] : f \in Fds} \ {None} : c \in unread \cup eof}

\* epoll_wait returns for an event, or for the wakeup of a queued task.  On
\* the main thread it may be the listening socket or the timerfd.
EpollWait(t) ==
  /\ at[t] = "loop"
  /\ ReadyChannels(t) # {} \/ queue[t] # <<>> \/ t = Main
  /\ active' = [active EXCEPT ![t] = ReadyChannels(t)]
  /\ Goto(t, "dispatch", None)
  /\ UNCHANGED <<objectVars, serverVars, netVars, taskVars, timerVars>>

\* Channel::handleEvent() enters TcpConnection::handleRead().
HandleRead(t, c) ==
  /\ HandlesEvents(t)
  /\ c \in active[t]
  /\ active' = [active EXCEPT ![t] = @ \ {c}]
  /\ Goto(t, "read", c)
  /\ UNCHANGED <<objectVars, serverVars, netVars, taskVars, timerVars>>

\* read() returned 0.  LT reads once per event and sees it when nothing is
\* unread; ET reads until there is nothing more and sees it at once.
ReadsEof(c) == c \in eof /\ (config.mode_ = 2 \/ c \notin unread)

\* The read data is given to readCallback_, with a shared_ptr to the connection.
ReadData(t) ==
  /\ at[t] = "read"
  /\ ~ReadsEof(cur[t])
  /\ unread' = unread \ {cur[t]}
  /\ Goto(t, "callback", cur[t])
  /\ UNCHANGED <<objectVars, serverVars, eof, active, taskVars, timerVars>>

\* Thread t leaves a function of its connection and drops its reference.
Return(t) ==
  /\ Goto(t, "dispatch", None)
  /\ UNCHANGED <<serverVars, netVars, active, taskVars, timerVars>>
  /\ DropReferences(t)

CallbackReturns(t) == at[t] = "callback" /\ Return(t)

\* Mutant: handleClose() without disableAll().
NotDisabled(t, c) == UNCHANGED objectVars

DisableAll(t, c) == UpdateChannel(t, c, kDeleted)

\* handleClose(): disableAll(), guardThis takes a reference.
HandleClose(t) ==
  /\ at[t] = "read"
  /\ ReadsEof(cur[t])
  /\ DisableAll(t, cur[t])
  /\ unread' = unread \ {cur[t]}
  /\ Goto(t, "close", cur[t])
  /\ UNCHANGED <<serverVars, eof, active, taskVars, timerVars>>

\* closeCallback_: TcpServer::removeConnection() hands the work to the main loop.
RemoveConnection(t) ==
  /\ at[t] = "close"
  /\ Queue(Main, "remove", cur[t])
  /\ Goto(t, "closed", cur[t])
  /\ UNCHANGED <<objectVars, serverVars, netVars, active, batch, spent, timerVars>>

\* state_ is set, guardThis goes out of scope.
HandleCloseReturns(t) == at[t] = "closed" /\ Return(t)

SwapTasks(t) ==
  /\ HandlesEvents(t)
  /\ active[t] = {}
  /\ batch' = [batch EXCEPT ![t] = queue[t]]
  /\ queue' = [queue EXCEPT ![t] = <<>>]
  /\ Goto(t, "tasks", None)
  /\ UNCHANGED <<objectVars, serverVars, netVars, active, spent, timerVars>>

NextTask(t, op) ==
  /\ at[t] = "tasks"
  /\ batch[t] # <<>>
  /\ Head(batch[t]).op = op
  /\ batch' = [batch EXCEPT ![t] = Tail(@)]
  /\ spent' = [spent EXCEPT ![t] = @ \cup {Head(batch[t])}]
  /\ UNCHANGED <<netVars, threadVars, queue>>

\* TcpConnection::connectEstablished(): enableET() and enableReading().
ConnectEstablished(t) ==
  /\ NextTask(t, "establish")
  /\ LET c == Head(batch[t]).conn IN UpdateChannel(t, c, index_[c])
  /\ UNCHANGED <<serverVars, timerVars>>

\* TimerQueue::addTimerInLoop()
AddTimerInLoop(t) ==
  /\ NextTask(t, "addTimer")
  /\ timers_' = timers_ \cup {Head(batch[t]).conn}
  /\ UNCHANGED <<objectVars, serverVars, timer_>>

\* TcpServer::removeConnectionInLoop(): deleteTimer, stopTimer, conn_.erase.
RemoveConnectionInLoop(t) ==
  /\ NextTask(t, "remove")
  /\ LET c == Head(batch[t]).conn
     IN  /\ timers_' = IF config.conn_hold_seconds > 0 THEN timers_ \ {c} ELSE timers_
         /\ timer_' = timer_ \ {c}
         /\ conn_' = conn_ \ {c}
  /\ UNCHANGED <<objectVars, config, loopOf, currentLoop, configured>>

\* The vector t_task is destroyed, and with it the functors it holds.
EndBatch(t) ==
  /\ at[t] = "tasks"
  /\ batch[t] = <<>>
  /\ spent' = [spent EXCEPT ![t] = {}]
  /\ Goto(t, "loop", None)
  /\ UNCHANGED <<serverVars, netVars, active, queue, batch, timerVars>>
  /\ DropReferences(t)
-----------------------------------------------------------------------------
(* TimerQueue::handleRead() on the main thread, one expired timer a step.  *)

\* Mutant: the raw pointer is used without locking the weak_ptr.
LockAlways(c) == TRUE

\* weak_ptr::lock() in Timer::run()
Lock(c) == ~Destroyed(c)

TimerRuns(c) ==
  /\ HandlesEvents(Main)
  /\ c \in timers_
  /\ IF Lock(c) THEN Goto(Main, "timer", c) /\ UNCHANGED timers_
     ELSE Goto(Main, "dispatch", None) /\ timers_' = timers_ \ {c}
  /\ UNCHANGED <<objectVars, serverVars, netVars, active, taskVars, timer_>>

\* TcpConnection::handleTimer() restarts the timer, shuts the write side
\* down, or finds timer_ null; run() returns and the entry is erased.
HandleTimer ==
  /\ at[Main] = "timer"
  /\ \/ cur[Main] \in timer_ /\ Queue(Main, "addTimer", cur[Main])
     \/ UNCHANGED queue
  /\ timers_' = timers_ \ {cur[Main]}
  /\ Goto(Main, "dispatch", None)
  /\ UNCHANGED <<serverVars, netVars, active, batch, spent, timer_>>
  /\ DropReferences(Main)
-----------------------------------------------------------------------------
(* The peer.                                                               *)

PeerSends(c) ==
  /\ Accepted(c) /\ ~Destroyed(c)
  /\ c \notin eof \cup unread
  /\ unread' = unread \cup {c}
  /\ UNCHANGED <<objectVars, serverVars, eof, threadVars, taskVars, timerVars>>

PeerCloses(c) ==
  /\ Accepted(c) /\ ~Destroyed(c)
  /\ c \notin eof
  /\ eof' = eof \cup {c}
  /\ UNCHANGED <<objectVars, serverVars, unread, threadVars, taskVars, timerVars>>
-----------------------------------------------------------------------------
ThreadStep(t) ==
  \/ EpollWait(t) \/ ReadData(t) \/ CallbackReturns(t)
  \/ HandleClose(t) \/ RemoveConnection(t) \/ HandleCloseReturns(t)
  \/ SwapTasks(t) \/ ConnectEstablished(t) \/ AddTimerInLoop(t)
  \/ RemoveConnectionInLoop(t) \/ EndBatch(t)
  \/ \E c \in Conns : HandleRead(t, c)

NewConnectionStep == SetCallbacks \/ QueueEstablish \/ AddTimer

Next ==
  \/ \E t \in Threads : ThreadStep(t)
  \/ NewConnectionStep
  \/ HandleTimer
  \/ \E c \in Conns : Accept(c) \/ TimerRuns(c) \/ PeerSends(c) \/ PeerCloses(c)

Spec == Init /\ [][Next]_vars

\* The scheduler runs every thread that has something to do.  Nothing is
\* assumed of the peers, of new connections, or of timers that expire.
Fairness ==
  /\ \A t \in Threads \ {Main} : WF_vars(ThreadStep(t))
  /\ WF_vars(ThreadStep(Main) \/ NewConnectionStep \/ HandleTimer)

FairSpec == Spec /\ Fairness
-----------------------------------------------------------------------------
\* The types, and: a thread has a connection in hand exactly while it is in
\* one of its functions.
TypeOK ==
  /\ config \in Configs
  /\ conn_ \subseteq config.clients
  /\ destroyedBy \in [Conns -> Threads \cup {None}]
  /\ fdOf \in [Conns -> Fds \cup {0}]
  /\ loopOf \in [Conns -> Threads \cup {None}]
  /\ currentLoop \in -1..(config.num_ - 1)
  /\ configured \subseteq Conns
  /\ index_ \in [Conns -> {kNew, kAdded, kDeleted}]
  /\ channels \in [Threads -> [Fds -> Conns \cup {None}]]
  /\ interest \in [Threads -> [Fds -> Conns \cup {None}]]
  /\ unread \subseteq Conns
  /\ eof \subseteq Conns
  /\ active \in [Threads -> SUBSET Conns]
  /\ at \in [Threads -> Labels]
  /\ cur \in [Threads -> Conns \cup {None}]
  /\ \A t \in Threads : cur[t] = None <=> at[t] \in {"loop", "dispatch", "tasks"}
  /\ queue \in [Threads -> Seq(Task)]
  /\ batch \in [Threads -> Seq(Task)]
  /\ spent \in [Threads -> SUBSET Task]
  /\ timers_ \subseteq Conns
  /\ timer_ \subseteq Conns

\* No use after free.  A connection is alive while a thread is in one of its
\* functions (handleRead goes through the raw Channel pointer that epoll_wait
\* returned, handleTimer through the raw pointer bound in newConnection), and
\* every pointer the kernel or activeChannels may still deliver is to the
\* live owner of that descriptor, on its own loop.
NoUseAfterFree ==
  /\ \A t \in Threads : cur[t] # None => ~Destroyed(cur[t])
  /\ \A t \in Threads : \A c \in active[t] : ~Destroyed(c)
  /\ \A t \in Threads, f \in Fds :
       interest[t][f] # None
         => fdOf[interest[t][f]] = f /\ loopOf[interest[t][f]] = t

\* Epoll::channels, which decides between ADD and MOD, agrees with the
\* kernel's interest list on every descriptor, also after close() and reuse.
EpollMapAgreesWithKernel ==
  \A t \in Threads, f \in Fds : channels[t][f] = interest[t][f]

Pending(c, op) ==
  \E t \in Threads :
    [op |-> op, conn |-> c] \in Tasks(queue[t]) \cup Tasks(batch[t])

\* No orphan.  A connection in conn_ is being accepted, waits for
\* connectEstablished on its loop, is watched by its loop, or is on its way
\* out: it never sits in the map with nobody to hear of its peer again.
NoOrphanConnection ==
  \A c \in conn_ :
    \/ at[Main] \in {"accepted", "configured"} /\ cur[Main] = c
    \/ Pending(c, "establish")
    \/ interest[loopOf[c]][fdOf[c]] = c
    \/ \E t \in Threads : at[t] \in {"close", "closed"} /\ cur[t] = c
    \/ Pending(c, "remove")

\* removeConnectionInLoop() runs once per connection: while it is pending its
\* connection is still in conn_, its timer_ is not null (the code
\* dereferences it), and there is no second removal.
RemovalPendingOnce ==
  \A t \in Threads :
    LET coming == batch[t] \o queue[t]
    IN  \A i \in DOMAIN coming : coming[i].op = "remove" =>
          /\ coming[i].conn \in conn_
          /\ config.conn_hold_seconds > 0 => coming[i].conn \in timer_
          /\ \A j \in DOMAIN coming : coming[j] = coming[i] => j = i

\* The phase of ConnectionLife that a connection is in.
PhaseOf(c) ==
  IF ~Accepted(c) THEN 0
  ELSE IF Destroyed(c) THEN 6
  ELSE IF c \notin conn_ THEN 5
  ELSE CASE index_[c] = kDeleted -> 4
         [] index_[c] = kAdded   -> 3
         [] OTHER                -> IF c \in configured THEN 2 ELSE 1

ThreadsIn(c) == {t \in Threads : cur[t] = c}

Life == INSTANCE ConnectionLife WITH
          phase    <- [c \in Conns |-> PhaseOf(c)],
          servedBy <- [c \in Conns |-> ThreadsIn(c)],
          loop     <- loopOf

\* Every connection lives as ConnectionLife says: in particular no handler
\* runs before newConnection() has set its callbacks and its context (its
\* comment on enableReading()), none begins after handleClose(), and the
\* destructor runs when no thread is in a function of the connection.
ImplementsLife == Life!LifeSpec

\* A connection closed by its peer is destroyed and its descriptor freed
\* without waiting for its Timer to expire, which Timer.md:31 gives as the
\* reason for the weak_ptr.
ClosedConnectionIsFreed ==
  \A c \in Conns : (Accepted(c) /\ c \in eof) ~> Destroyed(c)
=============================================================================
