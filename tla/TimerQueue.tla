----------------------------- MODULE TimerQueue -----------------------------
(***************************************************************************)
(* The closing of idle connections: TimerQueue::timers_ keyed by the       *)
(* expiration, the timerfd that has it checked every Check seconds, and    *)
(* TcpConnection::handleTimer() on the main thread, against the I/O        *)
(* threads that read, write and close the same connections                 *)
(* (net/TimerQueue.*, net/TcpConnection.cc, net/TcpServer.cc).             *)
(*                                                                         *)
(* A Timestamp is a long and wraps at LongMax.  The clock moves also while *)
(* the main thread has something to do, Lag units at most until it is up   *)
(* to date again.  The clock of Timestamp::now() and that of the timerfd   *)
(* are taken for one.                                                      *)
(***************************************************************************)
EXTENDS Integers, Sequences, FiniteSets

CONSTANTS
  Conns,    \* connections, each accepted at most once
  None,     \* no connection
  Hold,     \* conn_hold_seconds, also the interval of every Timer
  Check,    \* check_per_seconds_
  Lag,      \* bound of the model: how far the main thread falls behind
  MaxTime,  \* bound of the model: the last moment of the clock
  LongMax   \* LONG_MAX, the largest Timestamp

LongMin == -LongMax - 1

ASSUME TimerQueueAssumption ==
  /\ None \notin Conns
  /\ Hold \in Nat \ {0} /\ Check \in Nat \ {0}
  /\ Lag \in Nat /\ MaxTime \in Nat /\ LongMax \in Nat
  /\ MaxTime + Hold + Check < LongMax

Times == LongMin..LongMax
Wrap(x) == ((x - LongMin) % (2 * LongMax + 2)) + LongMin

VARIABLES
  clock,     \* Timestamp::now()
  behind,    \* how far the main thread has fallen behind
  timerfd,   \* when timer_fd becomes readable
  timers_,   \* key (Timestamp) to the connection of its Timer, or None
  expired,   \* Timer::expired, per connection
  timer_,    \* connections whose timer_ is not null
  conn_,     \* connections in TcpServer::conn_
  visited,   \* TcpConnection::visited
  writing,   \* connections with data in writeBuffer
  closing,   \* connections that have been through handleClose()
  shut,      \* connections whose write side was shut down
  main,      \* where the main thread is
  accepted,  \* the connection newConnection() is busy with, or None
  since,     \* the local now of TimerQueue::handleRead()
  key,       \* the entry whose Timer is running
  tasks_,    \* tasks of the main loop
  quiet,     \* history: when an open connection was last accepted, read or drained
  collided   \* history: connections whose Timer met an equal key

connVars == <<conn_, visited, writing, closing, shut, quiet>>
timerVars == <<timerfd, timers_, expired, timer_, collided>>
mainVars == <<main, accepted, since, key, tasks_>>
timeVars == <<clock, behind>>
vars == <<timeVars, connVars, timerVars, mainVars>>

Init ==
  /\ clock = 0 /\ behind = 0
  /\ timerfd = Check
  /\ timers_ = [t \in Times |-> None]
  /\ expired = [c \in Conns |-> 0]
  /\ timer_ = {}
  /\ conn_ = {}
  /\ visited = [c \in Conns |-> LongMax]
  /\ writing = {} /\ closing = {} /\ shut = {}
  /\ main = "idle" /\ accepted = None
  /\ since = 0 /\ key = 0
  /\ tasks_ = <<>>
  /\ quiet = [c \in Conns |-> 0]
  /\ collided = {}

New(c) == c \notin conn_ \cup closing
Keys == {t \in Times : timers_[t] # None}

UpToDate == main = "idle" /\ tasks_ = <<>> /\ clock < timerfd

Tick ==
  /\ clock < MaxTime
  /\ clock' = clock + 1
  /\ behind' = IF UpToDate THEN 0 ELSE behind + 1
  /\ behind' <= Lag
  /\ UNCHANGED <<connVars, timerVars, mainVars>>
-----------------------------------------------------------------------------
(* The connections: newConnection() on the main thread, handleRead(),      *)
(* send(), handleWrite() and handleClose() on the I/O threads.             *)

\* newConnection() until it has queued connectEstablished(): from there on the
\* I/O thread has the connection.
Accept(c) ==
  /\ main = "idle"
  /\ New(c)
  /\ conn_' = conn_ \cup {c}
  /\ expired' = [expired EXCEPT ![c] = clock + Hold]
  /\ timer_' = timer_ \cup {c}
  /\ quiet' = [quiet EXCEPT ![c] = clock]
  /\ main' = "accept" /\ accepted' = c
  /\ UNCHANGED <<timeVars, visited, writing, closing, shut, timerfd, timers_, collided,
                 since, key, tasks_>>

\* The rest of newConnection(): its Timer may follow its removal.
AddTimer ==
  /\ main = "accept"
  /\ tasks_' = Append(tasks_, [op |-> "add", conn |-> accepted])
  /\ main' = "idle" /\ accepted' = None
  /\ UNCHANGED <<timeVars, connVars, timerVars, since, key>>

\* handleRead(); the callback may leave part of an answer in writeBuffer.
Read(c) ==
  /\ c \in conn_ \ closing
  /\ visited' = [visited EXCEPT ![c] = clock]
  /\ quiet' = [quiet EXCEPT ![c] = IF c \in shut THEN 0 ELSE clock]
  /\ \/ writing' = writing \cup {c}
     \/ UNCHANGED writing
  /\ UNCHANGED <<timeVars, conn_, closing, shut, timerVars, mainVars>>

Drain(c) ==
  /\ c \in writing \ closing
  /\ writing' = writing \ {c}
  /\ quiet' = [quiet EXCEPT ![c] = IF c \in shut THEN 0 ELSE clock]
  /\ UNCHANGED <<timeVars, conn_, visited, closing, shut, timerVars, mainVars>>

\* read() returned 0: handleRead() sets visited, handleClose() has the main
\* loop remove the connection.
HandleClose(c) ==
  /\ c \in conn_ \ closing
  /\ visited' = [visited EXCEPT ![c] = clock]
  /\ closing' = closing \cup {c}
  /\ quiet' = [quiet EXCEPT ![c] = 0]
  /\ tasks_' = Append(tasks_, [op |-> "remove", conn |-> c])
  /\ UNCHANGED <<timeVars, conn_, writing, shut, timerVars, main, accepted, since, key>>
-----------------------------------------------------------------------------
(* Tasks of the main loop.                                                 *)

\* addTimerInLoop(): the insert of a map leaves an entry with that key alone.
AddTimerInLoop ==
  /\ main = "idle"
  /\ tasks_ # <<>> /\ Head(tasks_).op = "add"
  /\ LET c == Head(tasks_).conn
         free == timers_[expired[c]] = None
     IN  /\ timers_' = IF free THEN [timers_ EXCEPT ![expired[c]] = c] ELSE timers_
         /\ collided' = IF free THEN collided ELSE collided \cup {c}
  /\ tasks_' = Tail(tasks_)
  /\ UNCHANGED <<timeVars, connVars, timerfd, expired, timer_, main, accepted,
                 since, key>>

\* Mutant: stopTimer() is forgotten.
StopNothing(c) == timer_

StopTimer(c) == timer_ \ {c}

\* removeConnectionInLoop(): deleteTimer() erases whatever has that key.
RemoveConnectionInLoop ==
  /\ main = "idle"
  /\ tasks_ # <<>> /\ Head(tasks_).op = "remove"
  /\ LET c == Head(tasks_).conn
     IN  /\ timers_' = [timers_ EXCEPT ![expired[c]] = None]
         /\ collided' = collided \cup ({timers_[expired[c]]} \ {c, None})
         /\ timer_' = StopTimer(c)
         /\ conn_' = conn_ \ {c}
  /\ tasks_' = Tail(tasks_)
  /\ UNCHANGED <<timeVars, visited, writing, closing, shut, quiet, timerfd, expired,
                 main, accepted, since, key>>
-----------------------------------------------------------------------------
(* TimerQueue::handleRead().                                               *)

TimerfdReadable ==
  /\ main = "idle"
  /\ clock >= timerfd
  /\ main' = "check"
  /\ since' = clock
  /\ UNCHANGED <<timeVars, connVars, timerVars, accepted, key, tasks_>>

Due == {t \in Keys : t <= since}

\* Timer::run(): a connection that is gone, or whose timer_ is null, is left
\* alone; otherwise handleTimer() compares the clock with visited.
RunTimer ==
  /\ main = "check"
  /\ \E t \in Due :
       /\ \A u \in Due : t <= u
       /\ key' = t
       /\ LET c == timers_[t]
              remain == Wrap(clock - visited[c])
          IN  main' = CASE c \notin timer_                    -> "erase"
                        [] c \in timer_ /\ (remain < Hold \/ c \in writing) -> "restart"
                        [] OTHER                              -> "shutdown"
  /\ UNCHANGED <<timeVars, connVars, timerVars, accepted, since, tasks_>>

\* Mutant: the new expiration is counted from now.
FromNow(c) == Wrap(clock + Hold)

FromVisited(c) == Wrap(visited[c] + Hold)

\* handleTimer() reads visited a second time for the new expiration.
Restart ==
  /\ main = "restart"
  /\ LET c == timers_[key]
     IN  /\ expired' = [expired EXCEPT ![c] = FromVisited(c)]
         /\ tasks_' = Append(tasks_, [op |-> "add", conn |-> c])
  /\ main' = "erase"
  /\ UNCHANGED <<timeVars, connVars, timerfd, timers_, timer_, collided, accepted, since, key>>

ShutdownWrite ==
  /\ main = "shutdown"
  /\ shut' = shut \cup {timers_[key]}
  /\ quiet' = [quiet EXCEPT ![timers_[key]] = 0]
  /\ main' = "erase"
  /\ UNCHANGED <<timeVars, conn_, visited, writing, closing, timerVars, accepted, since,
                 key, tasks_>>

\* Mutant: the entry of the Timer that ran stays in timers_.
KeepEntry == timers_

EraseEntry == [timers_ EXCEPT ![key] = None]

Erase ==
  /\ main = "erase"
  /\ timers_' = EraseEntry
  /\ main' = "check" /\ key' = 0
  /\ UNCHANGED <<timeVars, connVars, timerfd, expired, timer_, collided, accepted, since,
                 tasks_>>

\* resetTimerfd(): a moment that has passed is taken for now.
NextCheck == IF since + Check < clock THEN clock ELSE since + Check

EndCheck ==
  /\ main = "check"
  /\ Due = {}
  /\ timerfd' = NextCheck
  /\ main' = "idle" /\ since' = 0
  /\ UNCHANGED <<timeVars, connVars, timers_, expired, timer_, collided, accepted, key,
                 tasks_>>
-----------------------------------------------------------------------------
Next ==
  \/ Tick
  \/ \E c \in Conns : Accept(c) \/ Read(c) \/ Drain(c) \/ HandleClose(c)
  \/ AddTimer \/ AddTimerInLoop \/ RemoveConnectionInLoop
  \/ TimerfdReadable \/ RunTimer \/ Restart \/ ShutdownWrite \/ Erase \/ EndCheck

Spec == Init /\ [][Next]_vars
-----------------------------------------------------------------------------
TypeOK ==
  /\ clock \in 0..MaxTime /\ behind \in 0..Lag
  /\ timerfd \in 0..(MaxTime + Check)
  /\ timers_ \in [Times -> Conns \cup {None}]
  /\ expired \in [Conns -> Times]
  /\ timer_ \subseteq conn_
  /\ conn_ \subseteq Conns
  /\ visited \in [Conns -> Times]
  /\ writing \subseteq Conns
  /\ closing \subseteq Conns
  /\ shut \subseteq Conns
  /\ main \in {"idle", "accept", "check", "restart", "shutdown", "erase"}
  /\ accepted \in Conns \cup {None} /\ (accepted # None <=> main = "accept")
  /\ since \in 0..MaxTime
  /\ key \in Times
  /\ tasks_ \in Seq([op : {"add", "remove"}, conn : Conns])
  /\ quiet \in [Conns -> 0..MaxTime]
  /\ collided \subseteq Conns

Adding(c) == {n \in DOMAIN tasks_ : tasks_[n] = [op |-> "add", conn |-> c]}
Running == IF main \in {"restart", "shutdown", "erase"} THEN {key} ELSE {}

\* deleteTimer() looks a Timer up under its current expiration, although
\* restart() changes the expiration of a Timer that is in timers_: every
\* Timer in timers_ is under that key, but for the one that is being run.
KeyIsExpiration ==
  \A t \in Keys \ Running : expired[timers_[t]] = t

\* A Timer is in timers_ or on its way into it at most once, through every
\* restart: a connection is not checked twice as often the longer it lives.
OneTimerPerConnection ==
  \A c \in Conns :
    Cardinality({t \in Keys \ Running : timers_[t] = c}) + Cardinality(Adding(c)) <= 1

Open(c) == c \in conn_ \ (closing \cup shut)

\* A connection that was read once and has been idle since is shut down at
\* the first check after Hold, whatever was read, written and restarted
\* before, unless its Timer met an equal key.
IdleAfterReadIsShut ==
  \A c \in Conns :
    Open(c) /\ visited[c] # LongMax /\ c \notin writing \cup collided
      => clock < quiet[c] + Hold + Check + 2 * Lag

\* Timer.md:2 says that the server closes a connection whose client has not
\* accessed the server within the holding time.
IdleIsShut ==
  \A c \in Conns :
    Open(c) /\ c \notin writing => clock < quiet[c] + Hold + Check
=============================================================================
