--------------------------- MODULE TcpServerProofs ---------------------------
(***************************************************************************)
(* The life of connections for any number of connections, I/O threads,     *)
(* descriptors and configurations: nothing is used after it is freed, a    *)
(* connection is removed once, Epoll agrees with the kernel, nobody is     *)
(* left deaf, and TcpServer implements ConnectionLife.                     *)
(***************************************************************************)
EXTENDS TcpServer, SequenceTheorems, WellFoundedInduction, TLAPS

Est(c) == [op |-> "establish", conn |-> c]
Rem(c) == [op |-> "remove", conn |-> c]

\* The tasks a loop has still to run.
Coming(t) == Tasks(queue[t]) \cup Tasks(batch[t])

\* A connection that was not accepted is nowhere.
Fresh ==
  \A c \in Conns : ~Accepted(c) =>
    c \notin conn_ \cup configured /\ fdOf[c] = 0 /\ index_[c] = kNew /\ ~Destroyed(c)

\* The descriptors of the connections that live are their own.
Descriptors ==
  /\ \A c \in Conns : fdOf[c] # 0 <=> Accepted(c) /\ ~Destroyed(c)
  /\ \A c, d \in Conns : fdOf[c] = fdOf[d] /\ fdOf[c] # 0 => c = d

\* A channel is in the interest list of its loop, under its descriptor, from
\* enableReading() to disableAll(); the map of Epoll says the same.
Registered ==
  /\ EpollMapAgreesWithKernel
  /\ \A t \in Threads, f \in Fds, c \in Conns :
       interest[t][f] = c <=> fdOf[c] = f /\ loopOf[c] = t /\ index_[c] = kAdded

\* Only a connection that went through handleClose() leaves conn_, and its
\* timer_ is there until then.
InMap ==
  /\ \A c \in Conns : Accepted(c) /\ c \notin conn_ => index_[c] = kDeleted
  /\ HasTimer => conn_ \subseteq timer_

\* What a task to come says of its connection.
TasksTell ==
  \A t \in Threads, c \in Conns :
    /\ Est(c) \in Coming(t) => t = loopOf[c] /\ index_[c] = kNew /\ c \in configured
    /\ Rem(c) \in Coming(t) => t = Main /\ index_[c] = kDeleted /\ c \in conn_

\* What the place of thread t says of the connection it has in hand.
InPlace(t) ==
  \A c \in Conns : cur[t] = c =>
    /\ at[t] \in {"accepted", "configured", "queued", "timer"} => t = Main
    /\ at[t] \in {"accepted", "configured"} =>
         Accepted(c) /\ index_[c] = kNew /\ \A u \in Threads : Est(c) \notin Coming(u)
    /\ at[t] = "accepted" => c \notin configured
    /\ at[t] = "configured" => c \in configured
    /\ at[t] \in {"read", "callback", "close", "closed"} => t = loopOf[c]
    /\ at[t] \in {"read", "callback"} => index_[c] = kAdded /\ c \notin active[t]
    /\ at[t] = "close" => index_[c] = kDeleted /\ c \in conn_ /\ Rem(c) \notin Coming(Main)

ThreadsTell == \A t \in Threads : InPlace(t)

\* A connection in conn_ has a place.
Placed ==
  \A c \in conn_ :
    \/ at[Main] \in {"accepted", "configured"} /\ cur[Main] = c
    \/ \E t \in Threads : Est(c) \in Coming(t)
    \/ index_[c] = kAdded
    \/ \E t \in Threads : at[t] = "close" /\ cur[t] = c
    \/ \E t \in Threads : Rem(c) \in Coming(t)

\* The pointers in activeChannels are to channels of the loop that are enabled.
ActiveTell ==
  \A t \in Threads : \A c \in active[t] : t = loopOf[c] /\ index_[c] = kAdded

\* t_task is a local of one iteration.
BatchIsLocal ==
  \A t \in Threads : at[t] # "tasks" => batch[t] = <<>> /\ spent[t] = {}

\* ~TcpConnection runs when the last reference is dropped.
DestroyedUnheld ==
  \A c \in Conns : Destroyed(c) => ~Held(c)

Once(s, x) == \A i, j \in DOMAIN s : s[i] = x /\ s[j] = x => i = j

\* connectEstablished() and removeConnectionInLoop() are queued once.
TasksOnce ==
  \A t \in Threads, c \in Conns : \A x \in {Est(c), Rem(c)} :
    /\ Once(queue[t], x) /\ Once(batch[t], x)
    /\ x \in Tasks(queue[t]) => x \notin Tasks(batch[t])

\* The inductive invariant.  NoUseAfterFree says which pointers must not
\* dangle; that they do not rests on a connection having one place at a time:
\* with newConnection(), in a task to establish it, enabled, with
\* handleClose(), in a task to remove it.  The parts relate the place that
\* index_ records to the tasks, the threads and the lists of Epoll.
IInv ==
  /\ TypeOK
  /\ Fresh /\ Descriptors /\ Registered /\ InMap
  /\ TasksTell /\ ThreadsTell /\ ActiveTell /\ BatchIsLocal
  /\ DestroyedUnheld /\ TasksOnce /\ Placed

USE TcpServerAssumption DEF kNew, kAdded, kDeleted
-----------------------------------------------------------------------------
(* Tasks.                                                                  *)

\* The configuration keeps to the clients and the descriptors there are.
LEMMA ConfigTells ==
  ASSUME TypeOK
  PROVE  /\ config.num_ \in 0..Len(PoolThreads) /\ config.fds \subseteq Fds
         /\ config.clients \subseteq Conns /\ conn_ \subseteq Conns
         /\ config.conn_hold_seconds \in Int
  BY TcpServerAssumption DEF TypeOK, Config

\* What Append does to the tasks of a loop.
LEMMA TasksAppend ==
  ASSUME NEW s \in Seq(Task), NEW x \in Task
  PROVE  /\ Append(s, x) \in Seq(Task)
         /\ Tasks(Append(s, x)) = Tasks(s) \cup {x}
         /\ \A y : Once(s, y) /\ (y # x \/ y \notin Tasks(s)) => Once(Append(s, x), y)
  <1> DEFINE r == Append(s, x)
  <1>1. /\ r \in Seq(Task) /\ DOMAIN r = 1..(Len(s) + 1) /\ DOMAIN s = 1..Len(s)
        /\ Len(s) \in Nat
        /\ \A i \in 1..Len(s) : r[i] = s[i]
        /\ r[Len(s) + 1] = x
    OBVIOUS
  <1> HIDE DEF r
  <1>2. Tasks(r) = Tasks(s) \cup {x}
    <2>1. \A i \in DOMAIN r : r[i] \in Tasks(s) \cup {x}
      BY <1>1 DEF Tasks
    <2>2. \A i \in DOMAIN s : s[i] \in Tasks(r)
      BY <1>1 DEF Tasks
    <2>3. x \in Tasks(r)
      <3>1. Len(s) + 1 \in DOMAIN r /\ r[Len(s) + 1] = x
        BY <1>1
      <3> DEFINE n == Len(s) + 1
      <3> HIDE DEF n
      <3>2. n \in DOMAIN r /\ r[n] = x
        BY <3>1 DEF n
      <3> QED BY <3>2, Zenon DEF Tasks
    <2> QED BY <2>1, <2>2, <2>3 DEF Tasks
  <1>3. ASSUME NEW y, Once(s, y), y # x \/ y \notin Tasks(s) PROVE Once(r, y)
    BY <1>1, <1>3 DEF Tasks, Once
  <1> QED BY <1>1, <1>2, <1>3 DEF r

\* What Tail does to them.
LEMMA TasksTail ==
  ASSUME NEW s \in Seq(Task), s # <<>>
  PROVE  /\ Head(s) \in Task /\ Tail(s) \in Seq(Task)
         /\ Tasks(s) = Tasks(Tail(s)) \cup {Head(s)}
         /\ \A y : Once(s, y) =>
              Once(Tail(s), y) /\ (y = Head(s) => y \notin Tasks(Tail(s)))
  <1> DEFINE r == Tail(s)
  <1>1. /\ r \in Seq(Task) /\ Len(s) \in Nat \ {0}
        /\ DOMAIN r = 1..(Len(s) - 1) /\ DOMAIN s = 1..Len(s)
        /\ \A i \in 1..(Len(s) - 1) : r[i] = s[i + 1]
        /\ Head(s) = s[1] /\ Head(s) \in Task
    OBVIOUS
  <1> HIDE DEF r
  <1>2. Tasks(s) = Tasks(r) \cup {Head(s)}
    <2>1. ASSUME NEW i \in DOMAIN s PROVE s[i] \in Tasks(r) \cup {Head(s)}
      <3>1. CASE i = 1
        BY <1>1, <3>1
      <3>2. CASE i # 1
        <4>1. i - 1 \in DOMAIN r /\ r[i - 1] = s[i]
          BY <1>1, <3>2
        <4> QED BY <4>1 DEF Tasks
      <3> QED BY <3>1, <3>2
    <2>2. ASSUME NEW i \in DOMAIN r PROVE r[i] \in Tasks(s)
      <3>1. i + 1 \in DOMAIN s /\ r[i] = s[i + 1]
        BY <1>1
      <3> QED BY <3>1 DEF Tasks
    <2>3. Head(s) \in Tasks(s)
      BY <1>1 DEF Tasks
    <2> QED BY <2>1, <2>2, <2>3 DEF Tasks
  <1>3. ASSUME NEW y, Once(s, y)
        PROVE  Once(r, y) /\ (y = Head(s) => y \notin Tasks(r))
    <2>1. \A i \in DOMAIN r : i + 1 \in DOMAIN s /\ r[i] = s[i + 1] /\ i + 1 # 1
      BY <1>1
    <2>2. Once(r, y)
      <3>1. ASSUME NEW i \in DOMAIN r, NEW j \in DOMAIN r, r[i] = y, r[j] = y PROVE i = j
        <4>1. i + 1 = j + 1
          BY <1>3, <2>1, <3>1 DEF Once
        <4> QED BY <1>1, <4>1
      <3> QED BY <3>1 DEF Once
    <2>3. y = Head(s) => y \notin Tasks(r)
      BY <1>1, <1>3, <2>1 DEF Tasks, Once
    <2> QED BY <2>2, <2>3
  <1> QED BY <1>1, <1>2, <1>3 DEF r

\* What t_task and tasks_ hold together.
LEMMA TasksConcat ==
  ASSUME NEW s \in Seq(Task), NEW r \in Seq(Task)
  PROVE  /\ s \o r \in Seq(Task)
         /\ Tasks(s \o r) = Tasks(s) \cup Tasks(r)
         /\ \A i \in DOMAIN (s \o r) : (s \o r)[i] \in Task
         /\ \A y : Once(s, y) /\ Once(r, y) /\ (y \in Tasks(r) => y \notin Tasks(s))
                     => Once(s \o r, y)
  <1> DEFINE q == s \o r
  <1>1. /\ q \in Seq(Task) /\ Len(s) \in Nat /\ Len(r) \in Nat
        /\ DOMAIN s = 1..Len(s) /\ DOMAIN r = 1..Len(r) /\ DOMAIN q = 1..(Len(s) + Len(r))
        /\ \A i \in 1..(Len(s) + Len(r)) :
             q[i] = IF i <= Len(s) THEN s[i] ELSE r[i - Len(s)]
    BY ConcatProperties
  <1> HIDE DEF q
  <1>2. \A i \in DOMAIN q :
          /\ i \in Int
          /\ i <= Len(s) => i \in DOMAIN s /\ q[i] = s[i]
          /\ i > Len(s) => i - Len(s) \in DOMAIN r /\ q[i] = r[i - Len(s)]
    BY <1>1
  <1>3. Tasks(q) = Tasks(s) \cup Tasks(r)
    <2>1. ASSUME NEW i \in DOMAIN q PROVE q[i] \in Tasks(s) \cup Tasks(r)
      <3>1. CASE i <= Len(s)
        <4>1. i \in DOMAIN s /\ q[i] = s[i]
          BY <1>2, <3>1
        <4> QED BY <4>1 DEF Tasks
      <3>2. CASE i > Len(s)
        <4> DEFINE j == i - Len(s)
        <4>1. j \in DOMAIN r /\ q[i] = r[j]
          BY <1>2, <3>2
        <4> HIDE DEF j
        <4> QED BY <4>1 DEF Tasks
      <3>3. i <= Len(s) \/ i > Len(s)
        BY <1>1
      <3> QED BY <3>1, <3>2, <3>3
    <2>2. \A i \in DOMAIN s : i \in DOMAIN q /\ q[i] = s[i]
      BY <1>1
    <2>3. ASSUME NEW i \in DOMAIN r PROVE i + Len(s) \in DOMAIN q /\ q[i + Len(s)] = r[i]
      <3> DEFINE j == i + Len(s)
      <3>1. j \in 1..(Len(s) + Len(r)) /\ ~(j <= Len(s)) /\ j - Len(s) = i
        BY <1>1
      <3> HIDE DEF j
      <3>2. j \in DOMAIN q /\ q[j] = r[i]
        BY <1>1, <3>1
      <3> QED BY <3>2 DEF j
    <2>4. Tasks(q) \subseteq Tasks(s) \cup Tasks(r)
      BY <2>1 DEF Tasks
    <2>5. Tasks(s) \subseteq Tasks(q) /\ Tasks(r) \subseteq Tasks(q)
      BY <2>2, <2>3 DEF Tasks
    <2> QED BY <2>4, <2>5
  <1>4. ASSUME NEW y, Once(s, y), Once(r, y), y \in Tasks(r) => y \notin Tasks(s)
        PROVE  Once(q, y)
    <2> SUFFICES ASSUME NEW i \in DOMAIN q, NEW j \in DOMAIN q, q[i] = y, q[j] = y
                 PROVE  i = j
      BY DEF Once
    <2>1. CASE i <= Len(s) /\ j <= Len(s)
      BY <1>2, <1>4, <2>1 DEF Once
    <2>2. CASE i > Len(s) /\ j > Len(s)
      <3>1. i - Len(s) = j - Len(s)
        BY <1>2, <1>4, <2>2 DEF Once
      <3> QED BY <1>1, <1>2, <3>1
    <2>3. CASE i <= Len(s) /\ j > Len(s)
      BY <1>2, <1>4, <2>3 DEF Tasks
    <2>4. CASE i > Len(s) /\ j <= Len(s)
      BY <1>2, <1>4, <2>4 DEF Tasks
    <2> QED BY <1>1, <1>2, <2>1, <2>2, <2>3, <2>4
  <1>5. \A i \in DOMAIN q : q[i] \in Task
    BY <1>1
  <1> QED BY <1>1, <1>3, <1>4, <1>5 DEF q

\* There is nothing in an empty vector.
LEMMA TasksEmpty == <<>> \in Seq(Task) /\ Tasks(<<>>) = {} /\ \A y : Once(<<>>, y)
  BY DEF Tasks, Once

\* queueInLoop() adds one task to those of one loop.
LEMMA QueueTells ==
  ASSUME TypeOK, NEW l \in Threads, NEW c \in Conns,
         NEW op \in {"establish", "addTimer", "remove"},
         Queue(l, op, c), UNCHANGED batch
  PROVE  /\ queue' \in [Threads -> Seq(Task)]
         /\ \A t \in Threads :
              Coming(t)' = IF t = l THEN Coming(t) \cup {[op |-> op, conn |-> c]} ELSE Coming(t)
         /\ TasksOnce /\ (op = "addTimer" \/ [op |-> op, conn |-> c] \notin Coming(l)) => TasksOnce'
  <1> DEFINE x == [op |-> op, conn |-> c]
  <1>1. x \in Task
    BY DEF Task
  <1>2. /\ queue \in [Threads -> Seq(Task)] /\ batch' = batch
        /\ queue' = [queue EXCEPT ![l] = Append(queue[l], x)]
    BY DEF TypeOK, Queue
  <1>3. \A y \in {Est(d) : d \in Conns} \cup {Rem(d) : d \in Conns} : op = "addTimer" => y # x
    BY DEF Est, Rem
  <1> HIDE DEF x
  <1>4. /\ Append(queue[l], x) \in Seq(Task)
        /\ Tasks(Append(queue[l], x)) = Tasks(queue[l]) \cup {x}
        /\ \A y : Once(queue[l], y) /\ (y # x \/ y \notin Tasks(queue[l]))
             => Once(Append(queue[l], x), y)
    BY <1>1, <1>2, TasksAppend
  <1>5. queue' \in [Threads -> Seq(Task)]
    BY <1>2, <1>4
  <1>6. \A t \in Threads : Coming(t)' = IF t = l THEN Coming(t) \cup {x} ELSE Coming(t)
    BY <1>2, <1>4 DEF Coming
  <1>7. ASSUME TasksOnce, op = "addTimer" \/ x \notin Coming(l) PROVE TasksOnce'
    <2> SUFFICES ASSUME NEW t \in Threads, NEW d \in Conns, NEW y \in {Est(d), Rem(d)}
                 PROVE  /\ Once(queue'[t], y) /\ Once(batch[t], y)
                        /\ y \in Tasks(queue'[t]) => y \notin Tasks(batch[t])
      BY <1>2 DEF TasksOnce, Est, Rem
    <2>1. /\ Once(queue[t], y) /\ Once(batch[t], y)
          /\ y \in Tasks(queue[t]) => y \notin Tasks(batch[t])
      BY <1>7 DEF TasksOnce
    <2>2. CASE t # l
      BY <1>2, <2>1, <2>2
    <2>3. CASE t = l
      <3>1. queue'[t] = Append(queue[l], x)
        BY <1>2, <2>3
      <3>2. y # x \/ y \notin Coming(l)
        BY <1>3, <1>7
      <3> QED BY <1>4, <2>1, <2>3, <3>1, <3>2 DEF Coming
    <2> QED BY <2>2, <2>3
  <1> QED BY <1>5, <1>6, <1>7 DEF x

\* Steps that queue and run no task.
LEMMA TasksStay ==
  ASSUME UNCHANGED <<queue, batch>>
  PROVE  /\ \A t \in Threads : Coming(t)' = Coming(t)
         /\ TasksOnce => TasksOnce'
  BY DEF Coming, TasksOnce

\* The swap moves the tasks of a loop into an empty vector.
LEMMA SwapTells ==
  ASSUME TypeOK, BatchIsLocal, TasksOnce, NEW t \in Threads, SwapTasks(t)
  PROVE  /\ queue' \in [Threads -> Seq(Task)] /\ batch' \in [Threads -> Seq(Task)]
         /\ \A u \in Threads : Coming(u)' = Coming(u)
         /\ TasksOnce'
  <1>1. /\ queue \in [Threads -> Seq(Task)] /\ batch \in [Threads -> Seq(Task)]
        /\ batch[t] = <<>>
        /\ queue' = [queue EXCEPT ![t] = <<>>]
        /\ batch' = [batch EXCEPT ![t] = queue[t]]
    BY DEF TypeOK, SwapTasks, HandlesEvents, BatchIsLocal
  <1>2. \A u \in Threads : Coming(u)' = Coming(u)
    BY <1>1, TasksEmpty DEF Coming
  <1>3. TasksOnce'
    <2> SUFFICES ASSUME NEW u \in Threads, NEW d \in Conns, NEW y \in {Est(d), Rem(d)}
                 PROVE  /\ Once(queue'[u], y) /\ Once(batch'[u], y)
                        /\ y \in Tasks(queue'[u]) => y \notin Tasks(batch'[u])
      BY DEF TasksOnce, Est, Rem
    <2>1. /\ Once(queue[u], y) /\ Once(batch[u], y)
          /\ y \in Tasks(queue[u]) => y \notin Tasks(batch[u])
      BY DEF TasksOnce
    <2> QED BY <1>1, <2>1, TasksEmpty
  <1> QED BY <1>1, <1>2, <1>3, TasksEmpty

\* A task that runs is no longer to come, and is still in t_task.
LEMMA NextTaskTells ==
  ASSUME TypeOK, TasksOnce, NEW t \in Threads, NEW op, NextTask(t, op)
  PROVE  LET x == Head(batch[t])
         IN  /\ x \in Task /\ x.op = op
             /\ x \in Coming(t)
             /\ batch' \in [Threads -> Seq(Task)] /\ spent' \in [Threads -> SUBSET Task]
             /\ \A u \in Threads : Coming(u)' \subseteq Coming(u)
             /\ \A u \in Threads : Coming(u)' \cup spent'[u] = Coming(u) \cup spent[u]
             /\ \A u \in Threads : \A y \in Coming(u) : y \in Coming(u)' \/ (u = t /\ y = x)
             /\ \A c \in Conns : x \in {Est(c), Rem(c)} => x \notin Coming(t)'
             /\ TasksOnce'
  <1> DEFINE x == Head(batch[t])
  <1>1. /\ queue \in [Threads -> Seq(Task)] /\ batch \in [Threads -> Seq(Task)]
        /\ spent \in [Threads -> SUBSET Task]
        /\ batch[t] # <<>> /\ queue' = queue /\ x.op = op
        /\ batch' = [batch EXCEPT ![t] = Tail(batch[t])]
        /\ spent' = [spent EXCEPT ![t] = spent[t] \cup {x}]
    BY DEF TypeOK, NextTask
  <1> HIDE DEF x
  <1>2. /\ x \in Task /\ Tail(batch[t]) \in Seq(Task)
        /\ Tasks(batch[t]) = Tasks(Tail(batch[t])) \cup {x}
        /\ \A y : Once(batch[t], y) =>
             Once(Tail(batch[t]), y) /\ (y = x => y \notin Tasks(Tail(batch[t])))
    BY <1>1, TasksTail DEF x
  <1>3. batch' \in [Threads -> Seq(Task)] /\ spent' \in [Threads -> SUBSET Task]
    BY <1>1, <1>2
  <1>4. \A u \in Threads :
          Coming(u)' = Tasks(queue[u]) \cup
                       Tasks(IF u = t THEN Tail(batch[t]) ELSE batch[u])
    BY <1>1 DEF Coming
  <1>5. /\ \A u \in Threads : Coming(u)' \subseteq Coming(u)
        /\ \A u \in Threads : \A y \in Coming(u) : y \in Coming(u)' \/ (u = t /\ y = x)
        /\ x \in Coming(t)
    BY <1>2, <1>4 DEF Coming
  <1>6. \A u \in Threads : Coming(u)' \cup spent'[u] = Coming(u) \cup spent[u]
    BY <1>1, <1>5
  <1>7. \A c \in Conns : x \in {Est(c), Rem(c)} => x \notin Coming(t)'
    BY <1>2, <1>4 DEF Coming, TasksOnce
  <1>8. TasksOnce'
    <2> SUFFICES ASSUME NEW u \in Threads, NEW d \in Conns, NEW y \in {Est(d), Rem(d)}
                 PROVE  /\ Once(queue'[u], y) /\ Once(batch'[u], y)
                        /\ y \in Tasks(queue'[u]) => y \notin Tasks(batch'[u])
      BY DEF TasksOnce, Est, Rem
    <2>1. /\ Once(queue[u], y) /\ Once(batch[u], y)
          /\ y \in Tasks(queue[u]) => y \notin Tasks(batch[u])
      BY DEF TasksOnce
    <2>2. CASE u = t
      BY <1>1, <1>2, <2>1, <2>2
    <2>3. CASE u # t
      BY <1>1, <2>1, <2>3
    <2> QED BY <2>2, <2>3
  <1> QED BY <1>1, <1>2, <1>3, <1>5, <1>6, <1>7, <1>8 DEF x
-----------------------------------------------------------------------------
(* References.                                                             *)

\* What thread t owns of connection c.
Owns(t, c) ==
  \/ cur[t] = c /\ at[t] \in OwningLabels
  \/ Est(c) \in Coming(t) \cup spent[t]
  \/ Rem(c) \in Coming(t) \cup spent[t]

\* A connection is held by conn_ or by a thread.
LEMMA HeldIs ==
  ASSUME NEW c \in Conns
  PROVE  /\ Held(c) <=> c \in conn_ \/ \E t \in Threads : Owns(t, c)
         /\ Held(c)' <=> c \in conn_' \/ \E t \in Threads : Owns(t, c)'
  BY DEF Held, HeldByThreads, OwningTask, Owns, Est, Rem, Coming

\* The destructor runs for connections that have left conn_, which are no
\* longer registered: it changes no interest list.
LEMMA DropTells ==
  ASSUME TypeOK, Descriptors, Registered, InMap, NEW t \in Threads, DropReferences(t),
         UNCHANGED <<conn_, loopOf>>
  PROVE  /\ destroyedBy' \in [Conns -> Threads \cup {None}]
         /\ fdOf' \in [Conns -> Fds \cup {0}]
         /\ \A c \in Conns :
              \/ destroyedBy'[c] = destroyedBy[c] /\ fdOf'[c] = fdOf[c]
              \/ /\ Accepted(c) /\ ~Destroyed(c) /\ ~Held(c)' /\ c \notin conn_
                 /\ destroyedBy'[c] = t /\ fdOf'[c] = 0
         /\ UNCHANGED <<interest, index_, channels>>
  <1> DEFINE dying == {c \in Conns : Accepted(c) /\ ~Destroyed(c) /\ ~Held(c)'}
             closed == {fdOf[c] : c \in dying}
  <1>1. /\ destroyedBy' = [c \in Conns |-> IF c \in dying THEN t ELSE destroyedBy[c]]
        /\ fdOf' = [c \in Conns |-> IF c \in dying THEN 0 ELSE fdOf[c]]
        /\ interest' = [l \in Threads |->
                         [f \in Fds |-> IF f \in closed THEN None ELSE interest[l][f]]]
        /\ UNCHANGED <<index_, channels>>
    BY DEF DropReferences
  <1>2. \A c \in dying : c \in Conns /\ Accepted(c) /\ ~Destroyed(c) /\ ~Held(c)'
    OBVIOUS
  <1>3. \A c \in dying : c \notin conn_
    BY <1>2, HeldIs
  <1> HIDE DEF dying
  <1>4. \A l \in Threads, f \in Fds : f \in closed => interest[l][f] = None
    <2> SUFFICES ASSUME NEW l \in Threads, NEW f \in Fds, NEW c \in dying, f = fdOf[c],
                        interest[l][f] # None
                 PROVE  FALSE
      OBVIOUS
    <2>1. c \in Conns /\ fdOf[c] # 0 /\ index_[c] = kDeleted
      BY <1>2, <1>3 DEF InMap, Fds
    <2>2. PICK d \in Conns : interest[l][f] = d
      BY DEF TypeOK
    <2>3. fdOf[d] = f /\ loopOf[d] = l /\ index_[d] = kAdded
      BY <2>2 DEF Registered
    <2> QED BY <2>1, <2>3 DEF Descriptors
  <1>5. interest' = interest
    <2>1. interest \in [Threads -> [Fds -> Conns \cup {None}]]
      BY DEF TypeOK
    <2>2. \A l \in Threads, f \in Fds : interest'[l][f] = interest[l][f]
      BY <1>1, <1>4
    <2>3. \A l \in Threads : interest'[l] = interest[l]
      BY <1>1, <2>1, <2>2
    <2> QED BY <1>1, <2>1, <2>3
  <1>6. destroyedBy' \in [Conns -> Threads \cup {None}] /\ fdOf' \in [Conns -> Fds \cup {0}]
    BY <1>1 DEF TypeOK
  <1>7. \A c \in Conns :
          \/ destroyedBy'[c] = destroyedBy[c] /\ fdOf'[c] = fdOf[c]
          \/ /\ Accepted(c) /\ ~Destroyed(c) /\ ~Held(c)' /\ c \notin conn_
             /\ destroyedBy'[c] = t /\ fdOf'[c] = 0
    BY <1>1, <1>2, <1>3
  <1> QED BY <1>1, <1>5, <1>6, <1>7

\* What the parts about objects need of a step that drops references: it
\* gives no new ones.
LEMMA DropKeeps ==
  ASSUME IInv, NEW t \in Threads, DropReferences(t),
         UNCHANGED <<config, conn_, loopOf, configured>>, timer_' = timer_,
         \A c \in Conns : Held(c)' => Held(c)
  PROVE  Fresh' /\ Descriptors' /\ Registered' /\ InMap' /\ DestroyedUnheld'
  <1> USE DEF IInv
  <1>1. /\ \A c \in Conns :
             \/ destroyedBy'[c] = destroyedBy[c] /\ fdOf'[c] = fdOf[c]
             \/ /\ Accepted(c) /\ ~Destroyed(c) /\ ~Held(c)' /\ c \notin conn_
                /\ destroyedBy'[c] = t /\ fdOf'[c] = 0
        /\ UNCHANGED <<interest, index_, channels>>
    BY DropTells
  <1>2. None \notin Threads
    BY TcpServerAssumption
  <1>3. Fresh'
    BY <1>1 DEF Fresh, Accepted, Destroyed
  <1>4. Descriptors'
    BY <1>1, <1>2 DEF Descriptors, Accepted, Destroyed
  <1>5. \A c \in Conns : index_[c] = kAdded => fdOf'[c] = fdOf[c]
    BY <1>1 DEF InMap
  <1>6. Registered'
    <2>1. EpollMapAgreesWithKernel'
      BY <1>1 DEF Registered, EpollMapAgreesWithKernel
    <2>2. ASSUME NEW l \in Threads, NEW f \in Fds, NEW c \in Conns
          PROVE  interest[l][f] = c <=> fdOf'[c] = f /\ loopOf[c] = l /\ index_[c] = kAdded
      BY <1>5 DEF Registered
    <2> QED BY <1>1, <2>1, <2>2 DEF Registered
  <1>7. InMap'
    BY <1>1 DEF InMap, Accepted, HasTimer
  <1>8. DestroyedUnheld'
    BY <1>1 DEF DestroyedUnheld, Destroyed
  <1> QED BY <1>3, <1>4, <1>6, <1>7, <1>8
-----------------------------------------------------------------------------
(* Threads.                                                                *)

\* A thread that takes no step has its connection where it was, when the step
\* of the other changes nothing that matters there.
LEMMA Bystander ==
  ASSUME NEW t \in Threads, InPlace(t), cur'[t] = cur[t], at'[t] = at[t],
         active'[t] \subseteq active[t],
         \A c \in Conns : cur[t] = c =>
           /\ loopOf'[c] = loopOf[c]
           /\ at[t] \notin {"queued", "timer", "closed"} => index_'[c] = index_[c]
           /\ at[t] \in {"accepted", "configured"} =>
                /\ c \in configured' <=> c \in configured
                /\ \A u \in Threads : Est(c) \in Coming(u)' => Est(c) \in Coming(u)
           /\ at[t] = "close" =>
                /\ c \in conn_ => c \in conn_'
                /\ Rem(c) \in Coming(Main)' => Rem(c) \in Coming(Main)
  PROVE  InPlace(t)'
  <1> SUFFICES ASSUME NEW c \in Conns, cur[t] = c
               PROVE  /\ at[t] \in {"accepted", "configured", "queued", "timer"} => t = Main
                      /\ at[t] \in {"accepted", "configured"} =>
                           /\ Accepted(c)' /\ index_'[c] = kNew
                           /\ \A u \in Threads : Est(c) \notin Coming(u)'
                      /\ at[t] = "accepted" => c \notin configured'
                      /\ at[t] = "configured" => c \in configured'
                      /\ at[t] \in {"read", "callback", "close", "closed"} => t = loopOf'[c]
                      /\ at[t] \in {"read", "callback"} =>
                           index_'[c] = kAdded /\ c \notin active'[t]
                      /\ at[t] = "close" =>
                           index_'[c] = kDeleted /\ c \in conn_' /\ Rem(c) \notin Coming(Main)'
    BY DEF InPlace
  <1> QED BY DEF InPlace, Accepted
-----------------------------------------------------------------------------
(* newConnection().                                                        *)

\* A set of natural numbers that is not empty has a least element.
LEMMA Least ==
  ASSUME NEW S \in SUBSET Nat, S # {}
  PROVE  (CHOOSE x \in S : \A y \in S : x <= y) \in S
  <1> DEFINE R == {ss \in Nat \X Nat : ss[1] < ss[2]}
  <1>1. R = OpToRel(<, Nat)
    BY Zenon DEF OpToRel
  <1>2. IsWellFoundedOn(R, Nat)
    BY <1>1, NatLessThanWellFounded
  <1> HIDE DEF R
  <1>3. \E x \in S : \A y \in S : ~(<<y, x>> \in R)
    <2>1. S \subseteq Nat
      OBVIOUS
    <2> QED BY <1>2, <2>1, WFMin, Zenon
  <1>4. PICK x \in S : \A y \in S : ~(<<y, x>> \in R)
    BY <1>3
  <1>5. ASSUME NEW y \in S PROVE x <= y
    <2>1. x \in Nat /\ y \in Nat /\ <<y, x>> \in Nat \X Nat
      OBVIOUS
    <2>2. <<y, x>> \notin R
      BY <1>4
    <2> QED BY <2>1, <2>2 DEF R
  <1> QED BY <1>5

\* accept() gives a descriptor that no connection has, getNextLoop() a loop
\* of the pool or the main one.
LEMMA AcceptFinds ==
  ASSUME TypeOK, FreeFds # {}
  PROVE  /\ LowestFree \in Fds /\ \A c \in Conns : fdOf[c] # LowestFree
         /\ NextLoop \in -1..(config.num_ - 1) /\ LoopAt(NextLoop) \in Threads
  <1>1. /\ config.num_ \in 0..Len(PoolThreads) /\ config.fds \subseteq Fds
        /\ currentLoop \in -1..(config.num_ - 1)
    BY ConfigTells DEF TypeOK
  <1>2. FreeFds \in SUBSET Nat
    BY <1>1 DEF FreeFds, Fds
  <1>3. LowestFree \in FreeFds
    BY <1>2, Least DEF LowestFree
  <1>4. LowestFree \in Fds /\ \A c \in Conns : fdOf[c] # LowestFree
    BY <1>1, <1>3 DEF FreeFds
  <1>5. Len(PoolThreads) \in Nat /\ DOMAIN PoolThreads = 1..Len(PoolThreads)
    BY TcpServerAssumption
  <1>6. NextLoop \in -1..(config.num_ - 1) /\ LoopAt(NextLoop) \in Threads
    <2>1. CASE config.num_ = 0
      BY <1>1, <2>1 DEF NextLoop, LoopAt, Threads
    <2>2. CASE config.num_ # 0
      <3>1. config.num_ \in Nat \ {0} /\ currentLoop + 1 \in Int
        BY <1>1, <1>5, <2>2
      <3>2. NextLoop \in 0..(config.num_ - 1)
        BY <2>2, <3>1 DEF NextLoop
      <3>3. NextLoop + 1 \in DOMAIN PoolThreads
        BY <1>1, <1>5, <3>2
      <3> QED BY <1>1, <1>5, <2>2, <3>2, <3>3 DEF LoopAt, Threads
    <2> QED BY <2>1, <2>2
  <1> QED BY <1>4, <1>6

\* The new connection is nowhere but in conn_ and in the hand of the main
\* thread.
LEMMA AcceptKeeps ==
  ASSUME IInv, NEW c \in Conns, Accept(c)
  PROVE  IInv'
  <1> USE DEF IInv
  <1>1. /\ LowestFree \in Fds /\ \A d \in Conns : fdOf[d] # LowestFree
        /\ NextLoop \in -1..(config.num_ - 1) /\ LoopAt(NextLoop) \in Threads
        /\ LowestFree # 0 /\ Main \in Threads
    BY AcceptFinds DEF Accept, Fds, Threads
  <1>2. /\ at[Main] = "dispatch" /\ cur[Main] = None
        /\ loopOf[c] = None /\ c \in config.clients
        /\ loopOf' = [loopOf EXCEPT ![c] = LoopAt(NextLoop)]
        /\ fdOf' = [fdOf EXCEPT ![c] = LowestFree]
        /\ conn_' = conn_ \cup {c}
        /\ timer_' = IF HasTimer THEN timer_ \cup {c} ELSE timer_
        /\ at' = [at EXCEPT ![Main] = "accepted"] /\ cur' = [cur EXCEPT ![Main] = c]
        /\ UNCHANGED <<config, destroyedBy, configured, index_, channels, interest, unread, eof,
                       active, queue, batch, spent, timers_>>
    BY <1>1 DEF Accept, HandlesEvents, Accepted, Goto, TypeOK, netVars, taskVars
  <1>3. /\ fdOf[c] = 0 /\ index_[c] = kNew /\ ~Destroyed(c) /\ c \notin conn_ \cup configured
        /\ \A t \in Threads : Est(c) \notin Coming(t) /\ Rem(c) \notin Coming(t)
    <2>1. fdOf[c] = 0 /\ index_[c] = kNew /\ ~Destroyed(c) /\ c \notin conn_ \cup configured
      BY <1>2 DEF Fresh, Accepted
    <2> QED BY <2>1 DEF TasksTell
  <1>4. None \notin Conns /\ None \notin Threads
    BY TcpServerAssumption
  <1> HIDE DEF IInv
  <1>5. TypeOK'
    <2>1. currentLoop' \in -1..(config'.num_ - 1)
      BY <1>1, <1>2 DEF Accept
    <2>2. Main \in Threads /\ "accepted" \in Labels
      BY DEF Threads, Labels
    <2> QED BY <1>1, <1>2, <1>4, <2>1, <2>2 DEF IInv, TypeOK
  <1> USE DEF Accepted, Destroyed
  <1>6. Fresh'
    BY <1>1, <1>2, <1>4 DEF IInv, TypeOK, Fresh
  <1>7. Descriptors'
    BY <1>1, <1>2, <1>3, <1>4 DEF IInv, TypeOK, Descriptors
  <1>8. Registered'
    <2>1. EpollMapAgreesWithKernel'
      BY <1>2 DEF IInv, Registered, EpollMapAgreesWithKernel
    <2>2. ASSUME NEW t \in Threads, NEW f \in Fds, NEW d \in Conns
          PROVE  interest'[t][f] = d <=> fdOf'[d] = f /\ loopOf'[d] = t /\ index_'[d] = kAdded
      BY <1>2, <1>3 DEF IInv, TypeOK, Registered
    <2> QED BY <2>1, <2>2 DEF Registered
  <1>9. InMap'
    BY <1>2 DEF IInv, TypeOK, InMap, HasTimer
  <1>10. /\ \A t \in Threads : Coming(t)' = Coming(t)
         /\ TasksOnce'
    BY <1>2, TasksStay DEF IInv
  <1>11. TasksTell'
    BY <1>2, <1>3, <1>10 DEF IInv, TypeOK, TasksTell
  <1>12. ThreadsTell'
    <2> SUFFICES ASSUME NEW t \in Threads PROVE InPlace(t)'
      BY DEF ThreadsTell
    <2>1. CASE t = Main
      BY <1>1, <1>2, <1>3, <1>4, <1>10, <2>1 DEF IInv, TypeOK, InPlace
    <2>2. CASE t # Main
      <3>1. cur'[t] = cur[t] /\ at'[t] = at[t] /\ InPlace(t)
        BY <1>2, <2>2 DEF IInv, TypeOK, ThreadsTell
      <3>2. cur[t] # None => at[t] \in {"read", "callback", "close", "closed"}
        BY <1>4, <2>2, <3>1 DEF IInv, TypeOK, InPlace, Labels
      <3>3. \A d \in Conns : cur[t] = d => loopOf'[d] = loopOf[d]
        BY <1>2, <1>4, <3>1, <3>2 DEF IInv, TypeOK, InPlace
      <3> QED BY <1>1, <1>2, <1>10, <3>1, <3>3, Bystander
    <2> QED BY <2>1, <2>2
  <1>13. ActiveTell'
    BY <1>2, <1>3 DEF IInv, TypeOK, ActiveTell
  <1>14. BatchIsLocal'
    BY <1>2 DEF IInv, TypeOK, BatchIsLocal
  <1>15. DestroyedUnheld'
    <2> SUFFICES ASSUME NEW d \in Conns, destroyedBy[d] # None PROVE ~Held(d)'
      BY <1>2 DEF DestroyedUnheld
    <2>1. d # c /\ ~Held(d)
      BY <1>3 DEF IInv, DestroyedUnheld
    <2> QED BY <1>2, <1>10, <2>1, HeldIs DEF IInv, TypeOK, Owns
  <1>16. Placed'
    <2>1. \A t \in Threads, d \in Conns : at[t] = "close" /\ cur[t] = d
            => at'[t] = "close" /\ cur'[t] = d
      BY <1>2 DEF IInv, TypeOK
    <2>2. at'[Main] = "accepted" /\ cur'[Main] = c
      BY <1>1, <1>2 DEF IInv, TypeOK
    <2>3. ASSUME NEW d \in conn_', d # c
          PROVE  \/ \E t \in Threads : Est(d) \in Coming(t)'
                 \/ index_'[d] = kAdded
                 \/ \E t \in Threads : at'[t] = "close" /\ cur'[t] = d
                 \/ \E t \in Threads : Rem(d) \in Coming(t)'
      <3>1. d \in conn_ /\ d \in Conns /\ cur[Main] # d
        BY <1>2, <1>4, <2>3, ConfigTells DEF IInv
      <3> QED BY <1>2, <1>10, <2>1, <3>1 DEF IInv, Placed
    <2> QED BY <2>2, <2>3 DEF Placed
  <1> QED BY <1>5, <1>6, <1>7, <1>8, <1>9, <1>10, <1>11, <1>12, <1>13, <1>14, <1>15, <1>16 DEF IInv

\* A step that touches no object and no map.
LEMMA ObjectsStay ==
  ASSUME IInv, UNCHANGED <<objectVars, config, conn_, loopOf, configured>>, timer_' = timer_,
         \A c \in Conns : Destroyed(c) => ~Held(c)'
  PROVE  Fresh' /\ Descriptors' /\ Registered' /\ InMap' /\ DestroyedUnheld'
  <1> USE DEF IInv
  <1>1. UNCHANGED <<destroyedBy, fdOf, index_, channels, interest, config, conn_, loopOf,
                    configured, timer_>>
    BY DEF objectVars
  <1>2. Fresh'
    BY <1>1 DEF Fresh, Accepted, Destroyed
  <1>3. Descriptors'
    BY <1>1 DEF Descriptors, Accepted, Destroyed
  <1>4. Registered'
    BY <1>1 DEF Registered, EpollMapAgreesWithKernel
  <1>5. InMap'
    BY <1>1 DEF InMap, Accepted, HasTimer
  <1>6. DestroyedUnheld'
    BY <1>1 DEF DestroyedUnheld, Destroyed
  <1> QED BY <1>2, <1>3, <1>4, <1>5, <1>6

\* A step of thread t that leaves the connections and the tasks to establish
\* and to remove them where they are.
LEMMA StepKeeps ==
  ASSUME IInv, NEW t \in Threads, TypeOK',
         Fresh', Descriptors', Registered', InMap', DestroyedUnheld', TasksOnce',
         UNCHANGED <<conn_, loopOf, configured>>, index_' = index_,
         \A u \in Threads \ {t} :
           /\ at'[u] = at[u] /\ cur'[u] = cur[u] /\ active'[u] = active[u]
           /\ batch'[u] = batch[u] /\ spent'[u] = spent[u],
         \A u \in Threads, c \in Conns :
           /\ Est(c) \in Coming(u)' <=> Est(c) \in Coming(u)
           /\ Rem(c) \in Coming(u)' <=> Rem(c) \in Coming(u),
         \A c \in active'[t] : t = loopOf[c] /\ index_[c] = kAdded,
         at'[t] # "tasks" => batch'[t] = <<>> /\ spent'[t] = {},
         at[t] \notin {"accepted", "configured", "close"},
         InPlace(t)'
  PROVE  IInv'
  <1>1. TasksTell'
    BY DEF IInv, TasksTell
  <1>2. ThreadsTell'
    <2> SUFFICES ASSUME NEW u \in Threads, u # t PROVE InPlace(u)'
      BY DEF ThreadsTell
    <2>1. InPlace(u)
      BY DEF IInv, ThreadsTell
    <2>2. Main \in Threads
      BY DEF Threads
    <2> QED BY <2>1, <2>2, Bystander
  <1>3. ActiveTell'
    BY DEF IInv, ActiveTell
  <1>4. BatchIsLocal'
    BY DEF IInv, BatchIsLocal
  <1>5. Placed'
    <2> SUFFICES ASSUME NEW c \in conn_
                 PROVE  \/ at'[Main] \in {"accepted", "configured"} /\ cur'[Main] = c
                        \/ \E u \in Threads : Est(c) \in Coming(u)'
                        \/ index_[c] = kAdded
                        \/ \E u \in Threads : at'[u] = "close" /\ cur'[u] = c
                        \/ \E u \in Threads : Rem(c) \in Coming(u)'
      BY DEF Placed
    <2>1. c \in Conns /\ Main \in Threads
      BY ConfigTells DEF IInv, Threads
    <2>2. \A u \in Threads : at[u] \in {"accepted", "configured", "close"}
            => at'[u] = at[u] /\ cur'[u] = cur[u]
      OBVIOUS
    <2> QED BY <2>1, <2>2 DEF IInv, Placed
  <1> QED BY <1>1, <1>2, <1>3, <1>4, <1>5 DEF IInv
-----------------------------------------------------------------------------
(* The steps of a loop that leave its connections where they are.          *)

\* A connection whose channel is enabled is in conn_, and lives.
LEMMA EnabledLives ==
  ASSUME IInv, NEW c \in Conns, index_[c] = kAdded
  PROVE  Accepted(c) /\ c \in conn_ /\ ~Destroyed(c)
  <1>1. Accepted(c)
    BY DEF IInv, Fresh
  <1>2. c \in conn_
    BY <1>1 DEF IInv, InMap
  <1> QED BY <1>1, <1>2 DEF IInv, DestroyedUnheld, Held

\* epoll_wait() reports channels that the kernel watches, which are alive.
LEMMA EpollWaitKeeps ==
  ASSUME IInv, NEW t \in Threads, EpollWait(t)
  PROVE  IInv'
  <1>1. /\ at[t] = "loop"
        /\ active' = [active EXCEPT ![t] = ReadyChannels(t)]
        /\ at' = [at EXCEPT ![t] = "dispatch"] /\ cur' = [cur EXCEPT ![t] = None]
        /\ UNCHANGED <<objectVars, config, conn_, loopOf, currentLoop, configured, unread, eof,
                       queue, batch, spent, timers_, timer_>>
    BY DEF EpollWait, Goto, serverVars, netVars, taskVars, timerVars
  <1>2. \A c \in ReadyChannels(t) : c \in Conns /\ t = loopOf[c] /\ index_[c] = kAdded
    <2> SUFFICES ASSUME NEW f \in Fds, interest[t][f] # None
                 PROVE  /\ interest[t][f] \in Conns
                        /\ t = loopOf[interest[t][f]] /\ index_[interest[t][f]] = kAdded
      BY DEF ReadyChannels
    <2> QED BY DEF IInv, TypeOK, Registered
  <1>3. TypeOK'
    BY <1>1, <1>2 DEF IInv, TypeOK, Labels, objectVars
  <1>4. (\A u \in Threads : Coming(u)' = Coming(u)) /\ TasksOnce'
    BY <1>1, TasksStay DEF IInv
  <1>5. \A c \in Conns : Held(c)' => Held(c)
    BY <1>1, <1>4, HeldIs DEF IInv, TypeOK, Owns, OwningLabels
  <1>6. Fresh' /\ Descriptors' /\ Registered' /\ InMap' /\ DestroyedUnheld'
    BY <1>1, <1>5, ObjectsStay DEF IInv, DestroyedUnheld
  <1>7. InPlace(t)'
    BY <1>1, TcpServerAssumption DEF IInv, TypeOK, InPlace
  <1>8. /\ \A c \in active'[t] : t = loopOf[c] /\ index_[c] = kAdded
        /\ at'[t] = "dispatch" /\ batch'[t] = <<>> /\ spent'[t] = {}
        /\ index_' = index_
        /\ \A u \in Threads \ {t} :
             /\ at'[u] = at[u] /\ cur'[u] = cur[u] /\ active'[u] = active[u]
             /\ batch'[u] = batch[u] /\ spent'[u] = spent[u]
    BY <1>1, <1>2 DEF IInv, TypeOK, objectVars, BatchIsLocal
  <1> QED BY <1>1, <1>3, <1>4, <1>6, <1>7, <1>8, StepKeeps

\* handleRead() of a reported channel, whose connection is alive.
LEMMA HandleReadKeeps ==
  ASSUME IInv, NEW t \in Threads, NEW c \in Conns, HandleRead(t, c)
  PROVE  IInv'
  <1>1. /\ at[t] = "dispatch" /\ c \in active[t]
        /\ active' = [active EXCEPT ![t] = active[t] \ {c}]
        /\ at' = [at EXCEPT ![t] = "read"] /\ cur' = [cur EXCEPT ![t] = c]
        /\ UNCHANGED <<objectVars, config, conn_, loopOf, currentLoop, configured, unread, eof,
                       queue, batch, spent, timers_, timer_>>
    BY DEF HandleRead, HandlesEvents, Goto, serverVars, netVars, taskVars, timerVars, IInv, TypeOK
  <1>2. t = loopOf[c] /\ index_[c] = kAdded /\ Accepted(c)
    BY <1>1, EnabledLives DEF IInv, ActiveTell
  <1>3. TypeOK'
    BY <1>1, TcpServerAssumption DEF IInv, TypeOK, Labels, objectVars
  <1>4. (\A u \in Threads : Coming(u)' = Coming(u)) /\ TasksOnce'
    BY <1>1, TasksStay DEF IInv
  <1>5. \A d \in Conns : Held(d)' => Held(d)
    BY <1>1, <1>4, HeldIs DEF IInv, TypeOK, Owns, OwningLabels
  <1>6. Fresh' /\ Descriptors' /\ Registered' /\ InMap' /\ DestroyedUnheld'
    BY <1>1, <1>5, ObjectsStay DEF IInv, DestroyedUnheld
  <1>7. InPlace(t)'
    BY <1>1, <1>2 DEF IInv, TypeOK, InPlace, Accepted, objectVars
  <1>8. /\ \A d \in active'[t] : t = loopOf[d] /\ index_[d] = kAdded
        /\ at'[t] = "read" /\ batch'[t] = <<>> /\ spent'[t] = {}
        /\ index_' = index_
        /\ \A u \in Threads \ {t} :
             /\ at'[u] = at[u] /\ cur'[u] = cur[u] /\ active'[u] = active[u]
             /\ batch'[u] = batch[u] /\ spent'[u] = spent[u]
    BY <1>1 DEF IInv, TypeOK, objectVars, BatchIsLocal, ActiveTell
  <1> QED BY <1>1, <1>3, <1>4, <1>6, <1>7, <1>8, StepKeeps

\* The data goes to readCallback_, with a reference of the call's own.
LEMMA ReadDataKeeps ==
  ASSUME IInv, NEW t \in Threads, ReadData(t)
  PROVE  IInv'
  <1> DEFINE c == cur[t]
  <1>1. /\ at[t] = "read"
        /\ at' = [at EXCEPT ![t] = "callback"] /\ cur' = [cur EXCEPT ![t] = c]
        /\ unread' \subseteq unread
        /\ UNCHANGED <<objectVars, config, conn_, loopOf, currentLoop, configured, eof, active,
                       queue, batch, spent, timers_, timer_>>
    BY DEF ReadData, Goto, serverVars, taskVars, timerVars
  <1>2. /\ c \in Conns /\ cur'[t] = c
        /\ t = loopOf[c] /\ index_[c] = kAdded /\ c \notin active[t]
    <2>1. c \in Conns /\ cur'[t] = c
      BY <1>1 DEF IInv, TypeOK
    <2>2. InPlace(t)
      BY DEF IInv, ThreadsTell
    <2> QED BY <1>1, <2>1, <2>2 DEF InPlace
  <1>3. TypeOK'
    BY <1>1, <1>2, TcpServerAssumption DEF IInv, TypeOK, Labels, objectVars
  <1>4. (\A u \in Threads : Coming(u)' = Coming(u)) /\ TasksOnce'
    BY <1>1, TasksStay DEF IInv
  <1>5. \A d \in Conns : Destroyed(d) => ~Held(d)'
    <2>1. \A d \in Conns : Held(d)' => Held(d) \/ d = c
      BY <1>1, <1>4, HeldIs DEF IInv, TypeOK, Owns, OwningLabels
    <2> QED BY <1>2, <2>1, EnabledLives DEF IInv, DestroyedUnheld
  <1>6. Fresh' /\ Descriptors' /\ Registered' /\ InMap' /\ DestroyedUnheld'
    BY <1>1, <1>5, ObjectsStay
  <1> HIDE DEF c
  <1>7. InPlace(t)'
    BY <1>1, <1>2 DEF IInv, TypeOK, InPlace, Accepted, objectVars
  <1>8. /\ \A d \in active'[t] : t = loopOf[d] /\ index_[d] = kAdded
        /\ at'[t] = "callback" /\ batch'[t] = <<>> /\ spent'[t] = {}
        /\ index_' = index_
        /\ \A u \in Threads \ {t} :
             /\ at'[u] = at[u] /\ cur'[u] = cur[u] /\ active'[u] = active[u]
             /\ batch'[u] = batch[u] /\ spent'[u] = spent[u]
    BY <1>1 DEF IInv, TypeOK, objectVars, BatchIsLocal, ActiveTell
  <1> QED BY <1>1, <1>3, <1>4, <1>6, <1>7, <1>8, StepKeeps

\* readCallback_ or handleClose() returns.
LEMMA ReturnKeeps ==
  ASSUME IInv, NEW t \in Threads, at[t] \in {"callback", "closed"}, Return(t)
  PROVE  IInv'
  <1>1. /\ at' = [at EXCEPT ![t] = "dispatch"] /\ cur' = [cur EXCEPT ![t] = None]
        /\ UNCHANGED <<config, conn_, loopOf, currentLoop, configured, unread, eof, active,
                       queue, batch, spent, timers_, timer_>>
        /\ DropReferences(t)
    BY DEF Return, Goto, serverVars, netVars, taskVars, timerVars
  <1>2. /\ destroyedBy' \in [Conns -> Threads \cup {None}]
        /\ fdOf' \in [Conns -> Fds \cup {0}]
        /\ UNCHANGED <<interest, index_, channels>>
    BY <1>1, DropTells DEF IInv
  <1>3. TypeOK'
    BY <1>1, <1>2 DEF IInv, TypeOK, Labels
  <1>4. (\A u \in Threads : Coming(u)' = Coming(u)) /\ TasksOnce'
    BY <1>1, TasksStay DEF IInv
  <1>5. \A d \in Conns : Held(d)' => Held(d)
    BY <1>1, <1>4, HeldIs DEF IInv, TypeOK, Owns, OwningLabels
  <1>6. Fresh' /\ Descriptors' /\ Registered' /\ InMap' /\ DestroyedUnheld'
    BY <1>1, <1>5, DropKeeps
  <1>7. InPlace(t)'
    BY <1>1, TcpServerAssumption DEF IInv, TypeOK, InPlace
  <1>8. /\ \A c \in active'[t] : t = loopOf[c] /\ index_[c] = kAdded
        /\ at'[t] = "dispatch" /\ batch'[t] = <<>> /\ spent'[t] = {}
        /\ \A u \in Threads \ {t} :
             /\ at'[u] = at[u] /\ cur'[u] = cur[u] /\ active'[u] = active[u]
             /\ batch'[u] = batch[u] /\ spent'[u] = spent[u]
    BY <1>1 DEF IInv, TypeOK, BatchIsLocal, ActiveTell
  <1> QED BY <1>1, <1>2, <1>3, <1>4, <1>6, <1>7, <1>8, StepKeeps

\* The tasks move from the queue to the batch with the references they hold.
LEMMA SwapTasksKeeps ==
  ASSUME IInv, NEW t \in Threads, SwapTasks(t)
  PROVE  IInv'
  <1>1. /\ at[t] = "dispatch"
        /\ at' = [at EXCEPT ![t] = "tasks"] /\ cur' = [cur EXCEPT ![t] = None]
        /\ batch' = [batch EXCEPT ![t] = queue[t]]
        /\ UNCHANGED <<objectVars, config, conn_, loopOf, currentLoop, configured, unread, eof,
                       active, spent, timers_, timer_>>
    BY DEF SwapTasks, HandlesEvents, Goto, serverVars, netVars, timerVars
  <1>2. /\ queue' \in [Threads -> Seq(Task)] /\ batch' \in [Threads -> Seq(Task)]
        /\ \A u \in Threads : Coming(u)' = Coming(u)
        /\ TasksOnce'
    BY SwapTells DEF IInv
  <1>3. TypeOK'
    BY <1>1, <1>2 DEF IInv, TypeOK, Labels, objectVars
  <1>4. \A d \in Conns : Held(d)' => Held(d)
    BY <1>1, <1>2, HeldIs DEF IInv, TypeOK, Owns, OwningLabels
  <1>5. Fresh' /\ Descriptors' /\ Registered' /\ InMap' /\ DestroyedUnheld'
    BY <1>1, <1>4, ObjectsStay DEF IInv, DestroyedUnheld
  <1>6. InPlace(t)'
    BY <1>1, TcpServerAssumption DEF IInv, TypeOK, InPlace
  <1>7. /\ \A c \in active'[t] : t = loopOf[c] /\ index_[c] = kAdded
        /\ at'[t] = "tasks" /\ index_' = index_
        /\ \A u \in Threads \ {t} :
             /\ at'[u] = at[u] /\ cur'[u] = cur[u] /\ active'[u] = active[u]
             /\ batch'[u] = batch[u] /\ spent'[u] = spent[u]
    BY <1>1 DEF IInv, TypeOK, objectVars, ActiveTell
  <1> QED BY <1>1, <1>2, <1>3, <1>5, <1>6, <1>7, StepKeeps

\* The reference of the task goes on in the Timer.
LEMMA AddTimerInLoopKeeps ==
  ASSUME IInv, NEW t \in Threads, AddTimerInLoop(t)
  PROVE  IInv'
  <1> DEFINE x == Head(batch[t])
  <1>1. /\ NextTask(t, "addTimer") /\ at[t] = "tasks"
        /\ timers_' = timers_ \cup {x.conn}
        /\ batch' = [batch EXCEPT ![t] = Tail(batch[t])]
        /\ spent' = [spent EXCEPT ![t] = spent[t] \cup {x}]
        /\ UNCHANGED <<objectVars, config, conn_, loopOf, currentLoop, configured, unread, eof,
                       active, at, cur, queue, timer_>>
    BY DEF AddTimerInLoop, NextTask, serverVars, netVars, threadVars, IInv, TypeOK
  <1>2. /\ x \in Task /\ x.op = "addTimer"
        /\ batch' \in [Threads -> Seq(Task)] /\ spent' \in [Threads -> SUBSET Task]
        /\ \A u \in Threads : Coming(u)' \subseteq Coming(u)
        /\ \A u \in Threads : Coming(u)' \cup spent'[u] = Coming(u) \cup spent[u]
        /\ \A u \in Threads : \A y \in Coming(u) : y \in Coming(u)' \/ (u = t /\ y = x)
        /\ TasksOnce'
    BY <1>1, NextTaskTells DEF IInv
  <1> HIDE DEF x
  <1>3. \A c \in Conns : x # Est(c) /\ x # Rem(c)
    BY <1>2 DEF Est, Rem
  <1>4. TypeOK'
    BY <1>1, <1>2 DEF IInv, TypeOK, objectVars, Task
  <1>5. \A d \in Conns : Held(d)' => Held(d)
    BY <1>1, <1>2, HeldIs DEF Owns
  <1>6. Fresh' /\ Descriptors' /\ Registered' /\ InMap' /\ DestroyedUnheld'
    BY <1>1, <1>5, ObjectsStay DEF IInv, DestroyedUnheld
  <1>7. InPlace(t)'
    BY <1>1, TcpServerAssumption DEF IInv, TypeOK, InPlace
  <1>8. /\ \A c \in active'[t] : t = loopOf[c] /\ index_[c] = kAdded
        /\ at'[t] = "tasks" /\ index_' = index_
        /\ \A u \in Threads \ {t} :
             /\ at'[u] = at[u] /\ cur'[u] = cur[u] /\ active'[u] = active[u]
             /\ batch'[u] = batch[u] /\ spent'[u] = spent[u]
    BY <1>1 DEF IInv, TypeOK, objectVars, ActiveTell
  <1> QED BY <1>1, <1>2, <1>3, <1>4, <1>6, <1>7, <1>8, StepKeeps

\* The functions of the batch are destroyed, and with them the references they held.
LEMMA EndBatchKeeps ==
  ASSUME IInv, NEW t \in Threads, EndBatch(t)
  PROVE  IInv'
  <1>1. /\ at[t] = "tasks" /\ batch[t] = <<>>
        /\ at' = [at EXCEPT ![t] = "loop"] /\ cur' = [cur EXCEPT ![t] = None]
        /\ spent' = [spent EXCEPT ![t] = {}]
        /\ UNCHANGED <<config, conn_, loopOf, currentLoop, configured, unread, eof, active,
                       queue, batch, timers_, timer_>>
        /\ DropReferences(t)
    BY DEF EndBatch, Goto, serverVars, netVars, timerVars
  <1>2. /\ destroyedBy' \in [Conns -> Threads \cup {None}]
        /\ fdOf' \in [Conns -> Fds \cup {0}]
        /\ UNCHANGED <<interest, index_, channels>>
    BY <1>1, DropTells DEF IInv
  <1>3. TypeOK'
    BY <1>1, <1>2 DEF IInv, TypeOK, Labels
  <1>4. (\A u \in Threads : Coming(u)' = Coming(u)) /\ TasksOnce'
    BY <1>1, TasksStay DEF IInv
  <1>5. \A d \in Conns : Held(d)' => Held(d)
    BY <1>1, <1>4, HeldIs DEF IInv, TypeOK, Owns, OwningLabels
  <1>6. Fresh' /\ Descriptors' /\ Registered' /\ InMap' /\ DestroyedUnheld'
    BY <1>1, <1>5, DropKeeps
  <1>7. InPlace(t)'
    BY <1>1, TcpServerAssumption DEF IInv, TypeOK, InPlace
  <1>8. /\ \A c \in active'[t] : t = loopOf[c] /\ index_[c] = kAdded
        /\ at'[t] = "loop" /\ batch'[t] = <<>> /\ spent'[t] = {}
        /\ \A u \in Threads \ {t} :
             /\ at'[u] = at[u] /\ cur'[u] = cur[u] /\ active'[u] = active[u]
             /\ batch'[u] = batch[u] /\ spent'[u] = spent[u]
    BY <1>1 DEF IInv, TypeOK, ActiveTell
  <1> QED BY <1>1, <1>2, <1>3, <1>4, <1>6, <1>7, <1>8, StepKeeps
-----------------------------------------------------------------------------
(* The timers.                                                             *)

LEMMA TimerRunsKeeps ==
  ASSUME IInv, NEW c \in Conns, TimerRuns(c)
  PROVE  IInv'
  <1>1. /\ at[Main] = "dispatch" /\ cur[Main] = None /\ Main \in Threads
        /\ timers_' \subseteq timers_
        /\ UNCHANGED <<objectVars, config, conn_, loopOf, currentLoop, configured, unread, eof,
                       active, queue, batch, spent, timer_>>
    BY DEF TimerRuns, HandlesEvents, Goto, serverVars, netVars, taskVars, IInv, TypeOK, Threads
  <1>2. /\ at' \in [Threads -> Labels] /\ cur' \in [Threads -> Conns \cup {None}]
        /\ \/ at'[Main] = "timer" /\ cur'[Main] = c /\ ~Destroyed(c)
           \/ at'[Main] = "dispatch" /\ cur'[Main] = None
        /\ \A t \in Threads \ {Main} : at'[t] = at[t] /\ cur'[t] = cur[t]
    <2>1. /\ at \in [Threads -> Labels] /\ cur \in [Threads -> Conns \cup {None}]
          /\ "timer" \in Labels /\ "dispatch" \in Labels
      BY DEF IInv, TypeOK, Labels
    <2>2. CASE Goto(Main, "timer", c) /\ ~Destroyed(c)
      BY <1>1, <2>1, <2>2 DEF Goto
    <2>3. CASE Goto(Main, "dispatch", None)
      BY <1>1, <2>1, <2>3 DEF Goto
    <2> QED BY <2>2, <2>3 DEF TimerRuns, Lock
  <1>3. TypeOK'
    <2>1. \A t \in Threads : cur'[t] = None <=> at'[t] \in {"loop", "dispatch", "tasks"}
      <3>1. \A t \in Threads : cur[t] = None <=> at[t] \in {"loop", "dispatch", "tasks"}
        BY DEF IInv, TypeOK
      <3>2. c # None
        BY TcpServerAssumption
      <3> QED BY <1>2, <3>1, <3>2
    <2>2. timers_' \subseteq Conns
      BY <1>1 DEF IInv, TypeOK
    <2>3. TypeOK
      BY DEF IInv
    <2> QED BY <1>1, <1>2, <2>1, <2>2, <2>3 DEF TypeOK, objectVars
  <1>4. (\A u \in Threads : Coming(u)' = Coming(u)) /\ TasksOnce'
    BY <1>1, TasksStay DEF IInv
  <1>5. \A d \in Conns : Destroyed(d) => ~Held(d)'
    <2>1. \A u \in Threads : cur'[u] # None /\ at'[u] \in OwningLabels =>
            \/ cur'[u] = cur[u] /\ at'[u] = at[u]
            \/ cur'[u] = c /\ ~Destroyed(c)
      BY <1>2 DEF OwningLabels
    <2>2. \A d \in Conns : Held(d)' => Held(d) \/ (d = c /\ ~Destroyed(c))
      BY <1>1, <1>4, <2>1, HeldIs, TcpServerAssumption DEF Owns
    <2> QED BY <2>2 DEF IInv, DestroyedUnheld
  <1>6. Fresh' /\ Descriptors' /\ Registered' /\ InMap' /\ DestroyedUnheld'
    BY <1>1, <1>5, ObjectsStay
  <1>7. InPlace(Main)'
    <2>1. CASE cur'[Main] = None
      BY <2>1, TcpServerAssumption DEF InPlace
    <2>2. CASE at'[Main] = "timer"
      BY <1>1, <2>2 DEF InPlace
    <2> QED BY <1>2, <2>1, <2>2
  <1>8. /\ \A d \in active'[Main] : Main = loopOf[d] /\ index_[d] = kAdded
        /\ at'[Main] # "tasks" /\ batch'[Main] = <<>> /\ spent'[Main] = {}
        /\ index_' = index_
        /\ \A u \in Threads \ {Main} :
             /\ at'[u] = at[u] /\ cur'[u] = cur[u] /\ active'[u] = active[u]
             /\ batch'[u] = batch[u] /\ spent'[u] = spent[u]
    BY <1>1, <1>2 DEF IInv, TypeOK, objectVars, BatchIsLocal, ActiveTell
  <1> QED BY <1>1, <1>3, <1>4, <1>6, <1>7, <1>8, StepKeeps

\* The main thread leaves newConnection() or handleTimer(), and may have
\* queued its timer.
LEMMA TimerQueuedKeeps ==
  ASSUME IInv, at[Main] \in {"queued", "timer"},
         Queue(Main, "addTimer", cur[Main]) \/ UNCHANGED queue,
         Goto(Main, "dispatch", None), DropReferences(Main), timers_' \subseteq timers_,
         UNCHANGED <<serverVars, netVars, active, batch, spent>>, timer_' = timer_
  PROVE  IInv'
  <1>1. /\ Main \in Threads /\ cur[Main] \in Conns
        /\ at' = [at EXCEPT ![Main] = "dispatch"] /\ cur' = [cur EXCEPT ![Main] = None]
        /\ UNCHANGED <<config, conn_, loopOf, currentLoop, configured, unread, eof, active,
                       batch, spent, timer_>>
    BY DEF Goto, serverVars, netVars, Threads, IInv, TypeOK
  <1>2. /\ destroyedBy' \in [Conns -> Threads \cup {None}]
        /\ fdOf' \in [Conns -> Fds \cup {0}]
        /\ UNCHANGED <<interest, index_, channels>>
    BY <1>1, DropTells DEF IInv
  <1>3. /\ queue' \in [Threads -> Seq(Task)]
        /\ TasksOnce'
        /\ \A u \in Threads, d \in Conns :
             /\ Est(d) \in Coming(u)' <=> Est(d) \in Coming(u)
             /\ Rem(d) \in Coming(u)' <=> Rem(d) \in Coming(u)
    <2>1. CASE UNCHANGED queue
      BY <1>1, <2>1, TasksStay DEF IInv, TypeOK
    <2>2. CASE Queue(Main, "addTimer", cur[Main])
      <3> DEFINE x == [op |-> "addTimer", conn |-> cur[Main]]
      <3>1. /\ queue' \in [Threads -> Seq(Task)]
            /\ \A u \in Threads :
                 Coming(u)' = IF u = Main THEN Coming(u) \cup {x} ELSE Coming(u)
            /\ TasksOnce'
        BY <1>1, <2>2, QueueTells DEF IInv
      <3>2. \A d \in Conns : x # Est(d) /\ x # Rem(d)
        BY DEF Est, Rem
      <3> HIDE DEF x
      <3> QED BY <3>1, <3>2
    <2> QED BY <2>1, <2>2
  <1>4. TypeOK'
    BY <1>1, <1>2, <1>3 DEF IInv, TypeOK, Labels
  <1>5. \A d \in Conns : Held(d)' => Held(d)
    BY <1>1, <1>3, HeldIs DEF IInv, TypeOK, Owns, OwningLabels
  <1>6. Fresh' /\ Descriptors' /\ Registered' /\ InMap' /\ DestroyedUnheld'
    BY <1>1, <1>5, DropKeeps
  <1>7. InPlace(Main)'
    BY <1>1, TcpServerAssumption DEF IInv, TypeOK, InPlace
  <1>8. /\ \A d \in active'[Main] : Main = loopOf[d] /\ index_[d] = kAdded
        /\ at'[Main] = "dispatch" /\ batch'[Main] = <<>> /\ spent'[Main] = {}
        /\ \A u \in Threads \ {Main} :
             /\ at'[u] = at[u] /\ cur'[u] = cur[u] /\ active'[u] = active[u]
             /\ batch'[u] = batch[u] /\ spent'[u] = spent[u]
    BY <1>1 DEF IInv, TypeOK, BatchIsLocal, ActiveTell
  <1> QED BY <1>1, <1>2, <1>3, <1>4, <1>6, <1>7, <1>8, StepKeeps
-----------------------------------------------------------------------------
(* The rest of newConnection().                                            *)

LEMMA SetCallbacksKeeps ==
  ASSUME IInv, SetCallbacks
  PROVE  IInv'
  <1> DEFINE c == cur[Main]
  <1>1. /\ Main \in Threads /\ c \in Conns
        /\ at[Main] = "accepted"
        /\ configured' = configured \cup {c}
        /\ at' = [at EXCEPT ![Main] = "configured"] /\ cur' = [cur EXCEPT ![Main] = c]
        /\ UNCHANGED <<destroyedBy, fdOf, index_, channels, interest, config, conn_, loopOf,
                       currentLoop, unread, eof, active, queue, batch, spent, timers_, timer_>>
    BY DEF SetCallbacks, Goto, objectVars, netVars, taskVars, timerVars, Threads, IInv, TypeOK
  <1>2. /\ Accepted(c) /\ index_[c] = kNew
        /\ \A u \in Threads : Est(c) \notin Coming(u)
    <2>1. InPlace(Main)
      BY <1>1 DEF IInv, ThreadsTell
    <2> QED BY <1>1, <2>1 DEF InPlace
  <1> HIDE DEF c
  <1>3. TypeOK'
    BY <1>1, TcpServerAssumption DEF IInv, TypeOK, Labels
  <1>4. (\A u \in Threads : Coming(u)' = Coming(u)) /\ TasksOnce'
    BY <1>1, TasksStay DEF IInv
  <1>5. \A d \in Conns : Held(d)' => Held(d)
    BY <1>1, <1>4, HeldIs DEF IInv, TypeOK, Owns, OwningLabels, c
  <1>6. Fresh'
    BY <1>1, <1>2 DEF IInv, Fresh, Accepted, Destroyed
  <1>7. Descriptors' /\ Registered' /\ InMap' /\ DestroyedUnheld'
    <2>1. Descriptors'
      BY <1>1 DEF IInv, Descriptors, Accepted, Destroyed
    <2>2. Registered'
      BY <1>1 DEF IInv, Registered, EpollMapAgreesWithKernel
    <2>3. InMap'
      BY <1>1 DEF IInv, InMap, Accepted, HasTimer
    <2>4. DestroyedUnheld'
      BY <1>1, <1>5 DEF IInv, DestroyedUnheld, Destroyed
    <2> QED BY <2>1, <2>2, <2>3, <2>4
  <1>8. TasksTell'
    BY <1>1, <1>4 DEF IInv, TasksTell
  <1>9. ThreadsTell'
    <2> SUFFICES ASSUME NEW t \in Threads PROVE InPlace(t)'
      BY DEF ThreadsTell
    <2>1. InPlace(t)
      BY DEF IInv, ThreadsTell
    <2>2. CASE t = Main
      BY <1>1, <1>2, <1>4, <2>2 DEF IInv, TypeOK, InPlace, Accepted
    <2>3. CASE t # Main
      <3>1. cur'[t] = cur[t] /\ at'[t] = at[t]
        BY <1>1, <2>3 DEF IInv, TypeOK
      <3>2. cur[t] = c => at[t] \notin {"accepted", "configured"}
        BY <1>1, <2>1, <2>3 DEF InPlace
      <3> QED BY <1>1, <1>2, <1>4, <2>1, <2>3, <3>1, <3>2 DEF InPlace, Accepted
    <2> QED BY <2>2, <2>3
  <1>10. ActiveTell'
    BY <1>1 DEF IInv, ActiveTell
  <1>11. BatchIsLocal'
    BY <1>1 DEF IInv, TypeOK, BatchIsLocal
  <1>12. Placed'
    <2>1. at'[Main] = "configured" /\ cur'[Main] = c
      BY <1>1 DEF IInv, TypeOK
    <2>2. \A t \in Threads : at[t] = "close" => at'[t] = "close" /\ cur'[t] = cur[t]
      BY <1>1 DEF IInv, TypeOK
    <2>3. ASSUME NEW d \in conn_', d # c
          PROVE  \/ \E t \in Threads : Est(d) \in Coming(t)'
                 \/ index_'[d] = kAdded
                 \/ \E t \in Threads : at'[t] = "close" /\ cur'[t] = d
                 \/ \E t \in Threads : Rem(d) \in Coming(t)'
      BY <1>1, <1>4, <2>2, <2>3 DEF IInv, Placed, c
    <2> QED BY <2>1, <2>3 DEF Placed
  <1> QED BY <1>3, <1>4, <1>6, <1>7, <1>8, <1>9, <1>10, <1>11, <1>12 DEF IInv

\* The task to establish is queued once, with a reference of its own.
LEMMA QueueEstablishKeeps ==
  ASSUME IInv, QueueEstablish
  PROVE  IInv'
  <1> DEFINE c == cur[Main]
  <1>1. /\ Main \in Threads /\ c \in Conns
        /\ at[Main] = "configured"
        /\ Queue(loopOf[c], "establish", c)
        /\ at' = [at EXCEPT ![Main] = "queued"] /\ cur' = [cur EXCEPT ![Main] = c]
        /\ UNCHANGED <<objectVars, config, conn_, loopOf, currentLoop, configured, unread, eof,
                       active, batch, spent, timers_, timer_>>
    BY DEF QueueEstablish, Goto, serverVars, netVars, timerVars, Threads, IInv, TypeOK
  <1>2. InPlace(Main)
    BY <1>1 DEF IInv, ThreadsTell
  <1>3. /\ loopOf[c] \in Threads /\ index_[c] = kNew /\ c \in configured
        /\ \A u \in Threads : Est(c) \notin Coming(u)
    BY <1>1, <1>2 DEF InPlace, Accepted, IInv, TypeOK
  <1> HIDE DEF c
  <1>4. /\ queue' \in [Threads -> Seq(Task)]
        /\ \A u \in Threads :
             Coming(u)' = IF u = loopOf[c] THEN Coming(u) \cup {Est(c)} ELSE Coming(u)
        /\ TasksOnce'
    BY <1>1, <1>3, QueueTells DEF IInv, Est
  <1>5. \A d \in Conns, u \in Threads :
          /\ Est(d) \in Coming(u)' <=> Est(d) \in Coming(u) \/ (d = c /\ u = loopOf[c])
          /\ Rem(d) \in Coming(u)' <=> Rem(d) \in Coming(u)
    BY <1>4 DEF Est, Rem
  <1>6. TypeOK'
    BY <1>1, <1>4, TcpServerAssumption DEF IInv, TypeOK, Labels, objectVars
  <1>7. \A d \in Conns : Destroyed(d) => ~Held(d)'
    <2>1. Held(c)
      BY <1>1, HeldIs DEF Owns, OwningLabels, Labels, c
    <2>2. \A d \in Conns : Held(d)' => Held(d) \/ d = c
      BY <1>1, <1>5, HeldIs DEF IInv, TypeOK, Owns, c
    <2> QED BY <2>1, <2>2 DEF IInv, DestroyedUnheld
  <1>8. Fresh' /\ Descriptors' /\ Registered' /\ InMap' /\ DestroyedUnheld'
    BY <1>1, <1>7, ObjectsStay
  <1>9. UNCHANGED <<index_, conn_, configured, loopOf, active, batch, spent>>
    BY <1>1 DEF objectVars
  <1>10. TasksTell'
    BY <1>3, <1>5, <1>9 DEF IInv, TasksTell
  <1>11. ThreadsTell'
    <2> SUFFICES ASSUME NEW t \in Threads PROVE InPlace(t)'
      BY DEF ThreadsTell
    <2>1. InPlace(t)
      BY DEF IInv, ThreadsTell
    <2>2. CASE t = Main
      BY <1>1, <2>2 DEF IInv, TypeOK, InPlace
    <2>3. CASE t # Main
      <3>1. cur'[t] = cur[t] /\ at'[t] = at[t]
        BY <1>1, <2>3 DEF IInv, TypeOK
      <3>2. \A d \in Conns : cur[t] = d => at[t] \notin {"accepted", "configured"}
        BY <2>1, <2>3 DEF InPlace
      <3> QED BY <1>1, <1>5, <1>9, <2>1, <3>1, <3>2, Bystander
    <2> QED BY <2>2, <2>3
  <1>12. ActiveTell'
    BY <1>9 DEF IInv, ActiveTell
  <1>13. BatchIsLocal'
    BY <1>1, <1>9 DEF IInv, TypeOK, BatchIsLocal
  <1>14. Placed'
    <2>1. \A t \in Threads : at[t] = "close" => at'[t] = "close" /\ cur'[t] = cur[t]
      BY <1>1 DEF IInv, TypeOK
    <2>2. ASSUME NEW d \in conn_'
          PROVE  \/ \E t \in Threads : Est(d) \in Coming(t)'
                 \/ index_'[d] = kAdded
                 \/ \E t \in Threads : at'[t] = "close" /\ cur'[t] = d
                 \/ \E t \in Threads : Rem(d) \in Coming(t)'
      <3>1. d \in conn_ /\ d \in Conns
        BY <1>9, ConfigTells DEF IInv
      <3> QED BY <1>1, <1>3, <1>5, <1>9, <2>1, <3>1 DEF IInv, Placed, c
    <2> QED BY <2>2 DEF Placed
  <1> QED BY <1>4, <1>6, <1>8, <1>10, <1>11, <1>12, <1>13, <1>14 DEF IInv
-----------------------------------------------------------------------------
(* handleClose().                                                          *)

LEMMA HandleCloseKeeps ==
  ASSUME IInv, NEW t \in Threads, HandleClose(t)
  PROVE  IInv'
  <1> DEFINE c == cur[t]
             f == fdOf[c]
  <1>1. /\ at[t] = "read" /\ c \in Conns
        /\ DisableAll(t, c)
        /\ at' = [at EXCEPT ![t] = "close"] /\ cur' = [cur EXCEPT ![t] = c]
        /\ unread' \subseteq unread
        /\ UNCHANGED <<config, conn_, loopOf, currentLoop, configured, eof, active,
                       queue, batch, spent, timers_, timer_>>
    BY DEF HandleClose, Goto, serverVars, taskVars, timerVars, IInv, TypeOK
  <1>2. InPlace(t)
    BY DEF IInv, ThreadsTell
  <1>3. t = loopOf[c] /\ index_[c] = kAdded /\ c \notin active[t]
    BY <1>1, <1>2 DEF InPlace
  <1>4. Accepted(c) /\ c \in conn_ /\ ~Destroyed(c) /\ None \notin Conns
    BY <1>1, <1>3, EnabledLives, TcpServerAssumption
  <1>5. f \in Fds /\ interest[t][f] = c /\ channels[t][f] = c
    <2>1. f \in Fds
      BY <1>1, <1>4 DEF IInv, TypeOK, Descriptors
    <2> QED BY <1>1, <1>3, <2>1 DEF IInv, Registered, EpollMapAgreesWithKernel
  <1>6. /\ index_' = [index_ EXCEPT ![c] = kDeleted]
        /\ channels' = [channels EXCEPT ![t][f] = None]
        /\ interest' = [interest EXCEPT ![t][f] = None]
        /\ UNCHANGED <<destroyedBy, fdOf>>
    <2>1. EpollCtl(interest[t][f], c, TRUE, kDeleted) = None /\ Entry(c, TRUE, kDeleted) = None
      BY DEF EpollCtl, Entry
    <2>2. (channels[t][f] # None) = TRUE
      BY <1>1, <1>4, <1>5
    <2> QED BY <1>1, <2>1, <2>2 DEF DisableAll, UpdateChannel
  <1> HIDE DEF c, f
  <1>7. TypeOK'
    BY <1>1, <1>4, <1>5, <1>6 DEF IInv, TypeOK, Labels
  <1>8. (\A u \in Threads : Coming(u)' = Coming(u)) /\ TasksOnce'
    BY <1>1, TasksStay DEF IInv
  <1>9. Fresh' /\ Descriptors' /\ InMap'
    <2>1. Fresh'
      BY <1>1, <1>4, <1>6 DEF IInv, TypeOK, Fresh, Accepted, Destroyed
    <2>2. Descriptors'
      BY <1>1, <1>6 DEF IInv, Descriptors, Accepted, Destroyed
    <2>3. InMap'
      BY <1>1, <1>6 DEF IInv, TypeOK, InMap, Accepted, HasTimer
    <2> QED BY <2>1, <2>2, <2>3
  <1>10. Registered'
    <2>1. EpollMapAgreesWithKernel'
      BY <1>5, <1>6 DEF IInv, TypeOK, Registered, EpollMapAgreesWithKernel
    <2>2. ASSUME NEW l \in Threads, NEW g \in Fds, NEW d \in Conns
          PROVE  interest'[l][g] = d <=> fdOf[d] = g /\ loopOf[d] = l /\ index_'[d] = kAdded
      <3>1. interest[l][g] = d <=> fdOf[d] = g /\ loopOf[d] = l /\ index_[d] = kAdded
        BY DEF IInv, Registered
      <3>2. interest'[l][g] = IF l = t /\ g = f THEN None ELSE interest[l][g]
        BY <1>5, <1>6 DEF IInv, TypeOK
      <3>3. index_'[d] = IF d = c THEN kDeleted ELSE index_[d]
        BY <1>1, <1>6 DEF IInv, TypeOK
      <3> QED BY <1>3, <1>4, <1>5, <3>1, <3>2, <3>3 DEF f
    <2> QED BY <1>1, <1>6, <2>1, <2>2 DEF Registered
  <1>11. DestroyedUnheld'
    <2>1. \A d \in Conns : Held(d)' => Held(d) \/ d = c
      BY <1>1, <1>8, HeldIs DEF IInv, TypeOK, Owns
    <2> QED BY <1>4, <1>6, <2>1 DEF IInv, DestroyedUnheld, Destroyed
  <1>12. \A u \in Threads : Est(c) \notin Coming(u) /\ Rem(c) \notin Coming(u)
    BY <1>1, <1>3 DEF IInv, TasksTell
  <1>13. \A d \in Conns : d # c => index_'[d] = index_[d]
    BY <1>6 DEF IInv, TypeOK
  <1>14. index_'[c] = kDeleted /\ Main \in Threads
    BY <1>1, <1>6 DEF IInv, TypeOK, Threads
  <1>15. TasksTell'
    BY <1>1, <1>8, <1>12, <1>13 DEF IInv, TasksTell
  <1>16. ThreadsTell'
    <2> SUFFICES ASSUME NEW u \in Threads PROVE InPlace(u)'
      BY DEF ThreadsTell
    <2>1. InPlace(u)
      BY DEF IInv, ThreadsTell
    <2>2. CASE u = t
      <3>1. cur'[t] = c /\ at'[t] = "close"
        BY <1>1 DEF IInv, TypeOK
      <3> QED BY <1>1, <1>3, <1>4, <1>8, <1>12, <1>14, <2>2, <3>1 DEF InPlace
    <2>3. CASE u # t
      <3>1. cur'[u] = cur[u] /\ at'[u] = at[u]
        BY <1>1, <2>3 DEF IInv, TypeOK
      <3>2. cur[u] = c => at[u] \in {"queued", "timer", "closed"}
        <4>1. cur[u] = c => at[u] \in Labels \ {"loop", "dispatch", "tasks"}
          BY <1>1, <1>4 DEF IInv, TypeOK
        <4> QED BY <1>1, <1>3, <2>1, <2>3, <4>1 DEF InPlace, Labels
      <3> QED BY <1>1, <1>8, <1>13, <1>14, <2>1, <3>1, <3>2, Bystander
    <2> QED BY <2>2, <2>3
  <1>17. ActiveTell'
    BY <1>1, <1>3, <1>13 DEF IInv, TypeOK, ActiveTell
  <1>18. BatchIsLocal'
    BY <1>1 DEF IInv, TypeOK, BatchIsLocal
  <1>19. Placed'
    <2>1. at'[t] = "close" /\ cur'[t] = c
      BY <1>1 DEF IInv, TypeOK
    <2>2. \A u \in Threads : at[u] \in {"accepted", "configured", "close"} =>
            at'[u] = at[u] /\ cur'[u] = cur[u]
      BY <1>1 DEF IInv, TypeOK
    <2>3. ASSUME NEW d \in conn_', d # c
          PROVE  \/ at'[Main] \in {"accepted", "configured"} /\ cur'[Main] = d
                 \/ \E u \in Threads : Est(d) \in Coming(u)'
                 \/ index_'[d] = kAdded
                 \/ \E u \in Threads : at'[u] = "close" /\ cur'[u] = d
                 \/ \E u \in Threads : Rem(d) \in Coming(u)'
      <3>1. d \in conn_ /\ d \in Conns
        BY <1>1, ConfigTells DEF IInv
      <3> QED BY <1>8, <1>13, <1>14, <2>2, <2>3, <3>1 DEF IInv, Placed
    <2> QED BY <2>1, <2>3 DEF Placed
  <1> QED BY <1>7, <1>8, <1>9, <1>10, <1>11, <1>15, <1>16, <1>17, <1>18, <1>19 DEF IInv

\* removeConnection() queues the one task to remove.
LEMMA RemoveConnectionKeeps ==
  ASSUME IInv, NEW t \in Threads, RemoveConnection(t)
  PROVE  IInv'
  <1> DEFINE c == cur[t]
  <1>1. /\ Main \in Threads /\ c \in Conns
        /\ at[t] = "close"
        /\ Queue(Main, "remove", c)
        /\ at' = [at EXCEPT ![t] = "closed"] /\ cur' = [cur EXCEPT ![t] = c]
        /\ UNCHANGED <<objectVars, config, conn_, loopOf, currentLoop, configured, unread, eof,
                       active, batch, spent, timers_, timer_>>
    BY DEF RemoveConnection, Goto, serverVars, netVars, timerVars, Threads, IInv, TypeOK
  <1>2. InPlace(t)
    BY <1>1 DEF IInv, ThreadsTell
  <1>3. t = loopOf[c] /\ index_[c] = kDeleted /\ c \in conn_ /\ Rem(c) \notin Coming(Main)
    BY <1>1, <1>2 DEF InPlace
  <1> HIDE DEF c
  <1>4. /\ queue' \in [Threads -> Seq(Task)]
        /\ \A u \in Threads :
             Coming(u)' = IF u = Main THEN Coming(u) \cup {Rem(c)} ELSE Coming(u)
        /\ TasksOnce'
    BY <1>1, <1>3, QueueTells DEF IInv, Rem
  <1>5. \A d \in Conns, u \in Threads :
          /\ Est(d) \in Coming(u)' <=> Est(d) \in Coming(u)
          /\ Rem(d) \in Coming(u)' <=> Rem(d) \in Coming(u) \/ (d = c /\ u = Main)
    BY <1>4 DEF Est, Rem
  <1>6. TypeOK'
    BY <1>1, <1>4, TcpServerAssumption DEF IInv, TypeOK, Labels, objectVars
  <1>7. \A d \in Conns : Destroyed(d) => ~Held(d)'
    <2>1. Held(c)
      BY <1>3 DEF Held
    <2>2. \A d \in Conns : Held(d)' => Held(d) \/ d = c
      BY <1>1, <1>5, HeldIs DEF IInv, TypeOK, Owns
    <2> QED BY <2>1, <2>2 DEF IInv, DestroyedUnheld
  <1>8. Fresh' /\ Descriptors' /\ Registered' /\ InMap' /\ DestroyedUnheld'
    BY <1>1, <1>7, ObjectsStay
  <1>9. UNCHANGED <<index_, conn_, configured, loopOf, active, batch, spent>>
    BY <1>1 DEF objectVars
  <1>10. TasksTell'
    BY <1>3, <1>5, <1>9 DEF IInv, TasksTell
  <1>11. ThreadsTell'
    <2> SUFFICES ASSUME NEW u \in Threads PROVE InPlace(u)'
      BY DEF ThreadsTell
    <2>1. InPlace(u)
      BY DEF IInv, ThreadsTell
    <2>2. CASE u = t
      BY <1>1, <1>3, <1>9, <2>2 DEF IInv, TypeOK, InPlace
    <2>3. CASE u # t
      <3>1. cur'[u] = cur[u] /\ at'[u] = at[u]
        BY <1>1, <2>3 DEF IInv, TypeOK
      <3>2. cur[u] = c => at[u] # "close"
        BY <1>1, <1>3, <2>1, <2>3 DEF InPlace
      <3> QED BY <1>1, <1>5, <1>9, <2>1, <3>1, <3>2, Bystander
    <2> QED BY <2>2, <2>3
  <1>12. ActiveTell'
    BY <1>9 DEF IInv, ActiveTell
  <1>13. BatchIsLocal'
    BY <1>1, <1>9 DEF IInv, TypeOK, BatchIsLocal
  <1>14. Placed'
    <2>1. \A u \in Threads : at[u] \in {"accepted", "configured", "close"} /\ cur[u] # c =>
            at'[u] = at[u] /\ cur'[u] = cur[u]
      BY <1>1 DEF IInv, TypeOK, c
    <2>2. ASSUME NEW d \in conn_', d # c
          PROVE  \/ at'[Main] \in {"accepted", "configured"} /\ cur'[Main] = d
                 \/ \E u \in Threads : Est(d) \in Coming(u)'
                 \/ index_'[d] = kAdded
                 \/ \E u \in Threads : at'[u] = "close" /\ cur'[u] = d
                 \/ \E u \in Threads : Rem(d) \in Coming(u)'
      <3>1. d \in conn_ /\ d \in Conns
        BY <1>9, ConfigTells DEF IInv
      <3> QED BY <1>1, <1>5, <1>9, <2>1, <2>2, <3>1 DEF IInv, Placed
    <2>3. \E u \in Threads : Rem(c) \in Coming(u)'
      BY <1>1, <1>5
    <2> QED BY <2>2, <2>3 DEF Placed
  <1> QED BY <1>4, <1>6, <1>8, <1>10, <1>11, <1>12, <1>13, <1>14 DEF IInv
-----------------------------------------------------------------------------
(* The tasks that establish and remove a connection.                       *)

\* What a task that is about to run and its connection are.
LEMMA TaskRuns ==
  ASSUME IInv, NEW t \in Threads, NEW op \in {"establish", "remove"}, NextTask(t, op)
  PROVE  LET c == Head(batch[t]).conn
         IN  /\ c \in Conns
             /\ op = "establish" => Est(c) \in Coming(t)
             /\ op = "remove" => Rem(c) \in Coming(t)
             /\ batch' \in [Threads -> Seq(Task)] /\ spent' \in [Threads -> SUBSET Task]
             /\ TasksOnce'
             /\ \A u \in Threads, d \in Conns :
                  /\ Est(d) \in Coming(u)' \cup spent'[u] <=> Est(d) \in Coming(u) \cup spent[u]
                  /\ Rem(d) \in Coming(u)' \cup spent'[u] <=> Rem(d) \in Coming(u) \cup spent[u]
                  /\ Est(d) \in Coming(u)' <=>
                       Est(d) \in Coming(u) /\ ~(op = "establish" /\ u = t /\ d = c)
                  /\ Rem(d) \in Coming(u)' <=>
                       Rem(d) \in Coming(u) /\ ~(op = "remove" /\ u = t /\ d = c)
  <1> DEFINE x == Head(batch[t])
             c == x.conn
  <1>1. /\ x \in Task /\ x.op = op /\ x \in Coming(t)
        /\ batch' \in [Threads -> Seq(Task)] /\ spent' \in [Threads -> SUBSET Task]
        /\ \A u \in Threads : Coming(u)' \subseteq Coming(u)
        /\ \A u \in Threads : Coming(u)' \cup spent'[u] = Coming(u) \cup spent[u]
        /\ \A u \in Threads : \A y \in Coming(u) : y \in Coming(u)' \/ (u = t /\ y = x)
        /\ \A d \in Conns : x \in {Est(d), Rem(d)} => x \notin Coming(t)'
        /\ TasksOnce'
    BY NextTaskTells DEF IInv
  <1>2. c \in Conns /\ x = [op |-> op, conn |-> c]
    BY <1>1 DEF Task
  <1> HIDE DEF x, c
  <1>3. \A d \in Conns : /\ x = Est(d) <=> op = "establish" /\ d = c
                         /\ x = Rem(d) <=> op = "remove" /\ d = c
    BY <1>2 DEF Est, Rem
  <1> QED BY <1>1, <1>2, <1>3 DEF x, c

\* A connection that waits for connectEstablished() is alive, and unknown to
\* Epoll.
LEMMA EstablishFinds ==
  ASSUME IInv, NEW t \in Threads, NEW c \in Conns, Est(c) \in Coming(t)
  PROVE  /\ t = loopOf[c] /\ index_[c] = kNew /\ c \in configured
         /\ Accepted(c) /\ c \in conn_ /\ ~Destroyed(c)
         /\ fdOf[c] \in Fds
         /\ interest[t][fdOf[c]] = None /\ channels[t][fdOf[c]] = None
  <1> DEFINE f == fdOf[c]
  <1>1. t = loopOf[c] /\ index_[c] = kNew /\ c \in configured
    BY DEF IInv, TasksTell
  <1>2. Accepted(c) /\ c \in conn_ /\ ~Destroyed(c)
    <2>1. Accepted(c)
      BY <1>1, TcpServerAssumption DEF Accepted
    <2> QED BY <1>1, <2>1 DEF IInv, InMap, DestroyedUnheld, Held
  <1>3. f \in Fds
    BY <1>2 DEF IInv, TypeOK, Descriptors
  <1>4. ASSUME NEW d \in Conns PROVE interest[t][f] # d
    <2>1. fdOf[d] = f => d = c
      BY <1>3 DEF IInv, Descriptors, Fds
    <2> QED BY <1>1, <1>3, <2>1 DEF IInv, Registered
  <1>5. interest[t][f] = None /\ channels[t][f] = None
    BY <1>3, <1>4 DEF IInv, TypeOK, Registered, EpollMapAgreesWithKernel
  <1> QED BY <1>1, <1>2, <1>3, <1>5

\* The connection is registered with the Epoll of its own loop.
LEMMA ConnectEstablishedKeeps ==
  ASSUME IInv, NEW t \in Threads, ConnectEstablished(t)
  PROVE  IInv'
  <1> DEFINE c == Head(batch[t]).conn
             f == fdOf[c]
  <1>1. /\ at[t] = "tasks" /\ NextTask(t, "establish")
        /\ UpdateChannel(t, c, index_[c])
        /\ batch' = [batch EXCEPT ![t] = Tail(batch[t])]
        /\ spent' = [spent EXCEPT ![t] = spent[t] \cup {Head(batch[t])}]
        /\ UNCHANGED <<config, conn_, loopOf, currentLoop, configured, unread, eof, active,
                       at, cur, queue, timers_, timer_>>
    BY DEF ConnectEstablished, NextTask, serverVars, netVars, threadVars, timerVars, IInv, TypeOK
  <1>2. /\ c \in Conns /\ Est(c) \in Coming(t)
        /\ batch' \in [Threads -> Seq(Task)] /\ spent' \in [Threads -> SUBSET Task]
        /\ TasksOnce'
        /\ \A u \in Threads, d \in Conns :
             /\ Est(d) \in Coming(u)' \cup spent'[u] <=> Est(d) \in Coming(u) \cup spent[u]
             /\ Rem(d) \in Coming(u)' \cup spent'[u] <=> Rem(d) \in Coming(u) \cup spent[u]
             /\ Est(d) \in Coming(u)' <=> Est(d) \in Coming(u) /\ ~(u = t /\ d = c)
             /\ Rem(d) \in Coming(u)' <=> Rem(d) \in Coming(u)
    BY <1>1, TaskRuns
  <1>3. t = loopOf[c] /\ index_[c] = kNew /\ c \in configured
    BY <1>2, EstablishFinds
  <1>4. Accepted(c) /\ ~Destroyed(c) /\ None \notin Conns
    BY <1>2, EstablishFinds, TcpServerAssumption
  <1>5. f \in Fds /\ interest[t][f] = None /\ channels[t][f] = None
    BY <1>2, EstablishFinds
  <1>6. /\ index_' = [index_ EXCEPT ![c] = kAdded]
        /\ channels' = [channels EXCEPT ![t][f] = c]
        /\ interest' = [interest EXCEPT ![t][f] = c]
        /\ UNCHANGED <<destroyedBy, fdOf>>
    BY <1>1, <1>3, <1>5 DEF UpdateChannel, Entry, EpollCtl
  <1> HIDE DEF c, f
  <1>7. TypeOK'
    BY <1>1, <1>2, <1>5, <1>6 DEF IInv, TypeOK, Labels
  <1>8. Fresh' /\ Descriptors' /\ InMap'
    <2>1. Fresh'
      BY <1>1, <1>2, <1>4, <1>6 DEF IInv, TypeOK, Fresh, Accepted, Destroyed
    <2>2. Descriptors'
      BY <1>1, <1>6 DEF IInv, Descriptors, Accepted, Destroyed
    <2>3. InMap'
      BY <1>1, <1>2, <1>3, <1>6 DEF IInv, TypeOK, InMap, Accepted, HasTimer
    <2> QED BY <2>1, <2>2, <2>3
  <1>9. \A d \in Conns : index_'[d] = IF d = c THEN kAdded ELSE index_[d]
    BY <1>2, <1>6 DEF IInv, TypeOK
  <1>10. Registered'
    <2>1. EpollMapAgreesWithKernel'
      BY <1>5, <1>6 DEF IInv, TypeOK, Registered, EpollMapAgreesWithKernel
    <2>2. ASSUME NEW l \in Threads, NEW g \in Fds, NEW d \in Conns
          PROVE  interest'[l][g] = d <=> fdOf[d] = g /\ loopOf[d] = l /\ index_'[d] = kAdded
      <3>1. interest[l][g] = d <=> fdOf[d] = g /\ loopOf[d] = l /\ index_[d] = kAdded
        BY DEF IInv, Registered
      <3>2. interest'[l][g] = IF l = t /\ g = f THEN c ELSE interest[l][g]
        BY <1>5, <1>6 DEF IInv, TypeOK
      <3>3. fdOf[d] = f => d = c
        BY <1>2, <1>5 DEF IInv, Descriptors, Fds, f
      <3> QED BY <1>2, <1>3, <1>9, <3>1, <3>2, <3>3 DEF f
    <2> QED BY <1>1, <1>6, <2>1, <2>2 DEF Registered
  <1>11. DestroyedUnheld'
    <2>1. \A d \in Conns : Held(d)' => Held(d)
      BY <1>1, <1>2, HeldIs DEF Owns
    <2> QED BY <1>6, <2>1 DEF IInv, DestroyedUnheld, Destroyed
  <1>12. \A u \in Threads : Est(c) \notin Coming(u)' /\ Rem(c) \notin Coming(u)'
    BY <1>2, <1>3 DEF IInv, TasksTell
  <1>13. TasksTell'
    BY <1>1, <1>2, <1>9, <1>12 DEF IInv, TasksTell
  <1>14. ThreadsTell'
    <2> SUFFICES ASSUME NEW u \in Threads PROVE InPlace(u)'
      BY DEF ThreadsTell
    <2>1. InPlace(u) /\ Main \in Threads
      BY DEF IInv, ThreadsTell, Threads
    <2>2. cur[u] = c => at[u] \in {"queued", "timer", "closed"}
      <3>1. cur[u] = c => at[u] \in Labels \ {"loop", "dispatch", "tasks"}
        BY <1>2, <1>4 DEF IInv, TypeOK
      <3> QED BY <1>2, <1>3, <2>1, <3>1 DEF InPlace, Labels
    <2> QED BY <1>1, <1>2, <1>9, <2>1, <2>2, Bystander
  <1>15. ActiveTell'
    BY <1>1, <1>9 DEF IInv, TypeOK, ActiveTell
  <1>16. BatchIsLocal'
    BY <1>1 DEF IInv, TypeOK, BatchIsLocal
  <1>17. Placed'
    <2>1. ASSUME NEW d \in conn_', d # c
          PROVE  \/ at'[Main] \in {"accepted", "configured"} /\ cur'[Main] = d
                 \/ \E u \in Threads : Est(d) \in Coming(u)'
                 \/ index_'[d] = kAdded
                 \/ \E u \in Threads : at'[u] = "close" /\ cur'[u] = d
                 \/ \E u \in Threads : Rem(d) \in Coming(u)'
      <3>1. d \in conn_ /\ d \in Conns
        BY <1>1, ConfigTells DEF IInv
      <3> QED BY <1>1, <1>2, <1>9, <2>1, <3>1 DEF IInv, Placed
    <2> QED BY <1>2, <1>9, <2>1 DEF Placed
  <1> QED BY <1>2, <1>7, <1>8, <1>10, <1>11, <1>13, <1>14, <1>15, <1>16, <1>17 DEF IInv

\* The connection leaves conn_ on the main thread, and epoll has let go of it.
LEMMA RemoveInLoopKeeps ==
  ASSUME IInv, NEW t \in Threads, RemoveConnectionInLoop(t)
  PROVE  IInv'
  <1> DEFINE c == Head(batch[t]).conn
  <1>1. /\ at[t] = "tasks" /\ NextTask(t, "remove")
        /\ batch' = [batch EXCEPT ![t] = Tail(batch[t])]
        /\ spent' = [spent EXCEPT ![t] = spent[t] \cup {Head(batch[t])}]
        /\ timers_' \subseteq timers_ /\ timer_' = timer_ \ {c} /\ conn_' = conn_ \ {c}
        /\ UNCHANGED <<destroyedBy, fdOf, index_, channels, interest, config, loopOf, currentLoop,
                       configured, unread, eof, active, at, cur, queue>>
    BY DEF RemoveConnectionInLoop, NextTask, objectVars, netVars, threadVars, IInv, TypeOK
  <1>2. /\ c \in Conns /\ Rem(c) \in Coming(t)
        /\ batch' \in [Threads -> Seq(Task)] /\ spent' \in [Threads -> SUBSET Task]
        /\ TasksOnce'
        /\ \A u \in Threads, d \in Conns :
             /\ Est(d) \in Coming(u)' \cup spent'[u] <=> Est(d) \in Coming(u) \cup spent[u]
             /\ Rem(d) \in Coming(u)' \cup spent'[u] <=> Rem(d) \in Coming(u) \cup spent[u]
             /\ Est(d) \in Coming(u)' <=> Est(d) \in Coming(u)
             /\ Rem(d) \in Coming(u)' <=> Rem(d) \in Coming(u) /\ ~(u = t /\ d = c)
    BY <1>1, TaskRuns
  <1>3. t = Main /\ index_[c] = kDeleted /\ c \in conn_
    BY <1>2 DEF IInv, TasksTell
  <1> HIDE DEF c
  <1>4. TypeOK'
    BY <1>1, <1>2 DEF IInv, TypeOK
  <1>5. Fresh' /\ Descriptors' /\ Registered'
    <2>1. Fresh'
      BY <1>1 DEF IInv, Fresh, Accepted, Destroyed
    <2>2. Descriptors'
      BY <1>1 DEF IInv, Descriptors, Accepted, Destroyed
    <2>3. Registered'
      BY <1>1 DEF IInv, Registered, EpollMapAgreesWithKernel
    <2> QED BY <2>1, <2>2, <2>3
  <1>6. InMap'
    BY <1>1, <1>3 DEF IInv, InMap, Accepted, HasTimer
  <1>7. DestroyedUnheld'
    <2>1. \A d \in Conns : Held(d)' => Held(d)
      BY <1>1, <1>2, HeldIs DEF Owns
    <2> QED BY <1>1, <2>1 DEF IInv, DestroyedUnheld, Destroyed
  <1>8. TasksTell'
    BY <1>1, <1>2, <1>3 DEF IInv, TasksTell
  <1>9. ThreadsTell'
    <2> SUFFICES ASSUME NEW u \in Threads PROVE InPlace(u)'
      BY DEF ThreadsTell
    <2>1. InPlace(u)
      BY DEF IInv, ThreadsTell
    <2>2. cur[u] = c => at[u] # "close"
      BY <1>2, <1>3, <2>1 DEF InPlace
    <2> QED BY <1>1, <1>2, <1>3, <2>1, <2>2, Bystander
  <1>10. ActiveTell'
    BY <1>1 DEF IInv, ActiveTell
  <1>11. BatchIsLocal'
    BY <1>1 DEF IInv, TypeOK, BatchIsLocal
  <1>12. Placed'
    <2> SUFFICES ASSUME NEW d \in conn_, d # c
                 PROVE  \/ at[Main] \in {"accepted", "configured"} /\ cur[Main] = d
                        \/ \E u \in Threads : Est(d) \in Coming(u)'
                        \/ index_[d] = kAdded
                        \/ \E u \in Threads : at[u] = "close" /\ cur[u] = d
                        \/ \E u \in Threads : Rem(d) \in Coming(u)'
      BY <1>1 DEF Placed
    <2>1. d \in Conns
      BY ConfigTells DEF IInv
    <2> QED BY <1>2, <2>1 DEF IInv, Placed
  <1> QED BY <1>2, <1>4, <1>5, <1>6, <1>7, <1>8, <1>9, <1>10, <1>11, <1>12 DEF IInv
-----------------------------------------------------------------------------
(* The invariant.                                                          *)

\* Nothing of it is about the data that is on its way.
LEMMA PeerKeeps ==
  ASSUME IInv, unread' \subseteq Conns, eof' \subseteq Conns,
         UNCHANGED <<objectVars, serverVars, threadVars, taskVars, timerVars>>
  PROVE  IInv'
  <1>1. /\ UNCHANGED <<destroyedBy, fdOf, index_, channels, interest, config, conn_, loopOf,
                       currentLoop, configured, active, at, cur, queue, batch, spent>>
        /\ timers_' = timers_ /\ timer_' = timer_
    BY DEF objectVars, serverVars, threadVars, taskVars, timerVars
  <1>2. TypeOK'
    BY <1>1 DEF IInv, TypeOK
  <1>3. (\A u \in Threads : Coming(u)' = Coming(u)) /\ TasksOnce'
    BY <1>1, TasksStay DEF IInv
  <1>4. \A d \in Conns : Held(d)' => Held(d)
    BY <1>1, <1>3, HeldIs DEF Owns
  <1>5. Fresh' /\ Descriptors' /\ Registered' /\ InMap' /\ DestroyedUnheld'
    BY <1>1, <1>4, ObjectsStay DEF IInv, DestroyedUnheld, objectVars
  <1>6. TasksTell' /\ ActiveTell' /\ BatchIsLocal'
    BY <1>1, <1>3 DEF IInv, TasksTell, ActiveTell, BatchIsLocal
  <1>7. ThreadsTell'
    <2> SUFFICES ASSUME NEW t \in Threads PROVE InPlace(t)'
      BY DEF ThreadsTell
    <2>1. InPlace(t) /\ Main \in Threads
      BY DEF IInv, ThreadsTell, Threads
    <2> QED BY <1>1, <1>3, <2>1, Bystander
  <1>8. Placed'
    BY <1>1, <1>3 DEF IInv, Placed
  <1> QED BY <1>2, <1>3, <1>5, <1>6, <1>7, <1>8 DEF IInv

\* The invariant holds initially.
LEMMA InitHolds == Init => IInv
  <1> SUFFICES ASSUME Init PROVE IInv
    OBVIOUS
  <1>1. /\ config \in Configs /\ config.num_ \in 0..Len(PoolThreads) /\ Len(PoolThreads) \in Nat
        /\ None \notin Conns /\ None \notin Threads
    BY TcpServerAssumption DEF Init, Config
  <1>2. \A t \in Threads : Coming(t) = {}
    BY TasksEmpty DEF Init, Coming
  <1>3. TypeOK
    BY <1>1, TasksEmpty DEF Init, TypeOK, Labels
  <1>4. Fresh /\ Descriptors /\ InMap /\ Placed
    BY DEF Init, Fresh, Descriptors, InMap, Placed, Accepted, Destroyed
  <1>5. Registered
    BY <1>1 DEF Init, Registered, EpollMapAgreesWithKernel
  <1>6. TasksTell /\ TasksOnce
    BY <1>2, TasksEmpty DEF Init, TasksTell, TasksOnce
  <1>7. ThreadsTell /\ ActiveTell /\ BatchIsLocal /\ DestroyedUnheld
    BY <1>1 DEF Init, ThreadsTell, InPlace, ActiveTell, BatchIsLocal, DestroyedUnheld, Destroyed
  <1> QED BY <1>3, <1>4, <1>5, <1>6, <1>7 DEF IInv

\* Every step keeps the invariant.
LEMMA StepHolds ==
  ASSUME IInv, [Next]_vars
  PROVE  IInv'
  <1>1. CASE UNCHANGED vars
    <2>1. UNCHANGED <<objectVars, serverVars, threadVars, taskVars, timerVars>>
          /\ unread' = unread /\ eof' = eof
      BY <1>1 DEF vars, netVars
    <2> QED BY <2>1, PeerKeeps DEF IInv, TypeOK
  <1>2. ASSUME NEW t \in Threads, ThreadStep(t) PROVE IInv'
    <2>1. CASE EpollWait(t)
      BY <2>1, EpollWaitKeeps
    <2>2. CASE ReadData(t)
      BY <2>2, ReadDataKeeps
    <2>3. CASE CallbackReturns(t)
      BY <2>3, ReturnKeeps DEF CallbackReturns
    <2>4. CASE HandleClose(t)
      BY <2>4, HandleCloseKeeps
    <2>5. CASE RemoveConnection(t)
      BY <2>5, RemoveConnectionKeeps
    <2>6. CASE HandleCloseReturns(t)
      BY <2>6, ReturnKeeps DEF HandleCloseReturns
    <2>7. CASE SwapTasks(t)
      BY <2>7, SwapTasksKeeps
    <2>8. CASE ConnectEstablished(t)
      BY <2>8, ConnectEstablishedKeeps
    <2>9. CASE AddTimerInLoop(t)
      BY <2>9, AddTimerInLoopKeeps
    <2>10. CASE RemoveConnectionInLoop(t)
      BY <2>10, RemoveInLoopKeeps
    <2>11. CASE EndBatch(t)
      BY <2>11, EndBatchKeeps
    <2>12. CASE \E c \in Conns : HandleRead(t, c)
      BY <2>12, HandleReadKeeps
    <2> QED BY <1>2, <2>1, <2>2, <2>3, <2>4, <2>5, <2>6, <2>7, <2>8, <2>9, <2>10, <2>11, <2>12
            DEF ThreadStep
  <1>3. CASE NewConnectionStep
    <2>1. CASE SetCallbacks
      BY <2>1, SetCallbacksKeeps
    <2>2. CASE QueueEstablish
      BY <2>2, QueueEstablishKeeps
    <2>3. CASE AddTimer
      <3>1. /\ at[Main] = "queued"
            /\ Queue(Main, "addTimer", cur[Main]) \/ UNCHANGED queue
            /\ Goto(Main, "dispatch", None) /\ DropReferences(Main)
            /\ UNCHANGED <<serverVars, netVars, active, batch, spent>>
            /\ timers_' \subseteq timers_ /\ timer_' = timer_
        BY <2>3 DEF AddTimer, timerVars
      <3> QED BY <3>1, TimerQueuedKeeps
    <2> QED BY <1>3, <2>1, <2>2, <2>3 DEF NewConnectionStep
  <1>4. CASE HandleTimer
    <2>1. /\ at[Main] = "timer"
          /\ Queue(Main, "addTimer", cur[Main]) \/ UNCHANGED queue
          /\ Goto(Main, "dispatch", None) /\ DropReferences(Main)
          /\ UNCHANGED <<serverVars, netVars, active, batch, spent>>
          /\ timers_' \subseteq timers_ /\ timer_' = timer_
      BY <1>4 DEF HandleTimer
    <2> QED BY <2>1, TimerQueuedKeeps
  <1>5. ASSUME NEW c \in Conns, Accept(c) PROVE IInv'
    BY <1>5, AcceptKeeps
  <1>6. ASSUME NEW c \in Conns, TimerRuns(c) PROVE IInv'
    BY <1>6, TimerRunsKeeps
  <1>7. ASSUME NEW c \in Conns, PeerSends(c) \/ PeerCloses(c) PROVE IInv'
    <2>1. UNCHANGED <<objectVars, serverVars, threadVars, taskVars, timerVars>>
          /\ unread' \subseteq Conns /\ eof' \subseteq Conns
      BY <1>7 DEF PeerSends, PeerCloses, IInv, TypeOK
    <2> QED BY <2>1, PeerKeeps
  <1> QED BY <1>1, <1>2, <1>3, <1>4, <1>5, <1>6, <1>7 DEF Next

\* The inductive invariant holds in every behaviour.
LEMMA Invariant == Spec => []IInv
  <1>1. IInv /\ [Next]_vars => IInv'
    BY StepHolds
  <1> QED BY <1>1, InitHolds, PTL DEF Spec

\* The variables have their types, and a thread has a connection in hand
\* exactly while it is in one of its functions.
THEOREM Typing == Spec => []TypeOK
  <1>1. IInv => TypeOK
    BY DEF IInv
  <1> QED BY <1>1, Invariant, PTL

\* The pointers are to connections that are held, or enabled.
LEMMA Safe == IInv => NoUseAfterFree
  <1> SUFFICES ASSUME IInv PROVE NoUseAfterFree
    OBVIOUS
  <1>1. ASSUME NEW t \in Threads, cur[t] # None PROVE ~Destroyed(cur[t])
    <2>1. cur[t] \in Conns /\ at[t] \in Labels \ {"loop", "dispatch", "tasks"}
      BY <1>1 DEF IInv, TypeOK
    <2>2. CASE at[t] = "read"
      <3>1. index_[cur[t]] = kAdded
        BY <2>1, <2>2 DEF IInv, ThreadsTell, InPlace
      <3> QED BY <2>1, <3>1, EnabledLives
    <2>3. CASE at[t] # "read"
      <3>1. Owns(t, cur[t])
        BY <2>1, <2>3 DEF Owns, OwningLabels
      <3> QED BY <2>1, <3>1, HeldIs DEF IInv, DestroyedUnheld
    <2> QED BY <2>2, <2>3
  <1>2. ASSUME NEW t \in Threads, NEW c \in active[t] PROVE ~Destroyed(c)
    <2>1. c \in Conns /\ index_[c] = kAdded
      BY <1>2 DEF IInv, TypeOK, ActiveTell
    <2> QED BY <2>1, EnabledLives
  <1>3. ASSUME NEW t \in Threads, NEW f \in Fds, interest[t][f] # None
        PROVE  fdOf[interest[t][f]] = f /\ loopOf[interest[t][f]] = t
    BY <1>3 DEF IInv, TypeOK, Registered
  <1> QED BY <1>1, <1>2, <1>3 DEF NoUseAfterFree

\* handleRead(), handleTimer(), the readCallback and epoll_wait() work on raw
\* pointers; none of them dangles, for any number of connections and threads.
THEOREM NoUseAfterFreeHolds == Spec => []NoUseAfterFree
  BY Safe, Invariant, PTL

\* Epoll::channels agrees with the kernel on every descriptor of every loop,
\* whatever closes and reuses descriptors.
THEOREM EpollAgrees == Spec => []EpollMapAgreesWithKernel
  <1>1. IInv => EpollMapAgreesWithKernel
    BY DEF IInv, Registered
  <1> QED BY <1>1, Invariant, PTL

\* A connection in conn_ always has a way on: newConnection(), a task, the
\* interest list of its loop or handleClose().
THEOREM NoOrphan == Spec => []NoOrphanConnection
  <1>1. ASSUME IInv PROVE NoOrphanConnection
    <2> SUFFICES ASSUME NEW c \in conn_, index_[c] = kAdded
                 PROVE  interest[loopOf[c]][fdOf[c]] = c
      BY <1>1 DEF IInv, Placed, NoOrphanConnection, Pending, Coming, Est, Rem
    <2>1. c \in Conns
      BY <1>1, ConfigTells DEF IInv
    <2>2. Accepted(c) /\ ~Destroyed(c)
      BY <1>1, <2>1, EnabledLives
    <2>3. loopOf[c] \in Threads /\ fdOf[c] \in Fds
      BY <1>1, <2>1, <2>2 DEF IInv, TypeOK, Accepted, Descriptors
    <2> QED BY <1>1, <2>1, <2>3 DEF IInv, Registered
  <1> QED BY <1>1, Invariant, PTL

\* removeConnectionInLoop() is queued once for a connection, which is still
\* in conn_ and whose timer_ it may dereference.
THEOREM RemovalOnce == Spec => []RemovalPendingOnce
  <1>1. ASSUME IInv PROVE RemovalPendingOnce
    <2> SUFFICES ASSUME NEW t \in Threads
                 PROVE  LET coming == batch[t] \o queue[t]
                        IN  \A i \in DOMAIN coming : coming[i].op = "remove" =>
                              /\ coming[i].conn \in conn_
                              /\ config.conn_hold_seconds > 0 => coming[i].conn \in timer_
                              /\ \A j \in DOMAIN coming : coming[j] = coming[i] => j = i
      BY DEF RemovalPendingOnce
    <2> DEFINE coming == batch[t] \o queue[t]
    <2>1. batch[t] \in Seq(Task) /\ queue[t] \in Seq(Task)
      BY <1>1 DEF IInv, TypeOK
    <2>2. \A i \in DOMAIN coming : coming[i] \in Coming(t) /\ coming[i] \in Task
      <3>1. \A i \in DOMAIN coming : coming[i] \in Tasks(coming)
        BY DEF Tasks
      <3>2. /\ Tasks(coming) = Tasks(batch[t]) \cup Tasks(queue[t])
            /\ \A i \in DOMAIN coming : coming[i] \in Task
        BY <2>1, TasksConcat
      <3> QED BY <3>1, <3>2 DEF Coming
    <2>3. \A c \in Conns : Once(coming, Rem(c))
      BY <1>1, <2>1, TasksConcat DEF IInv, TasksOnce
    <2> HIDE DEF coming
    <2> SUFFICES ASSUME NEW i \in DOMAIN coming, coming[i].op = "remove"
                 PROVE  /\ coming[i].conn \in conn_
                        /\ config.conn_hold_seconds > 0 => coming[i].conn \in timer_
                        /\ \A j \in DOMAIN coming : coming[j] = coming[i] => j = i
      BY DEF coming
    <2>4. PICK c \in Conns : coming[i] = Rem(c) /\ coming[i].conn = c
      BY <2>2 DEF Task, Rem
    <2>5. c \in conn_
      BY <1>1, <2>2, <2>4 DEF IInv, TasksTell
    <2>6. config.conn_hold_seconds > 0 => c \in timer_
      <3>1. config.conn_hold_seconds \in Int
        BY <1>1, ConfigTells DEF IInv
      <3> QED BY <1>1, <2>5, <3>1 DEF IInv, InMap, HasTimer
    <2> QED BY <2>3, <2>4, <2>5, <2>6 DEF Once
  <1> QED BY <1>1, Invariant, PTL
-----------------------------------------------------------------------------
(* TcpServer implements ConnectionLife.                                    *)

\* The phases, by what they are recognized from.
LEMMA PhaseIs ==
  ASSUME NEW c \in Conns
  PROVE  /\ ~Accepted(c) => PhaseOf(c) = 0
         /\ Accepted(c) /\ Destroyed(c) => PhaseOf(c) = 6
         /\ Accepted(c) /\ ~Destroyed(c) /\ c \notin conn_ => PhaseOf(c) = 5
         /\ Accepted(c) /\ ~Destroyed(c) /\ c \in conn_ =>
              /\ index_[c] = kDeleted => PhaseOf(c) = 4
              /\ index_[c] = kAdded => PhaseOf(c) = 3
              /\ index_[c] = kNew /\ c \in configured => PhaseOf(c) = 2
              /\ index_[c] = kNew /\ c \notin configured => PhaseOf(c) = 1
         /\ PhaseOf(c) = 6 => Destroyed(c)
  BY DEF PhaseOf

\* The phase after a step, from the variables after it.
LEMMA NextPhaseIs ==
  ASSUME NEW c \in Conns
  PROVE  /\ loopOf'[c] # None /\ destroyedBy'[c] # None => PhaseOf(c)' = 6
         /\ loopOf'[c] # None /\ destroyedBy'[c] = None /\ c \notin conn_' => PhaseOf(c)' = 5
         /\ loopOf'[c] # None /\ destroyedBy'[c] = None /\ c \in conn_' =>
              /\ index_'[c] = kDeleted => PhaseOf(c)' = 4
              /\ index_'[c] = kAdded => PhaseOf(c)' = 3
              /\ index_'[c] = kNew /\ c \in configured' => PhaseOf(c)' = 2
              /\ index_'[c] = kNew /\ c \notin configured' => PhaseOf(c)' = 1
         /\ PhaseOf(c)' = 6 => destroyedBy'[c] # None
  BY DEF PhaseOf, Accepted, Destroyed

\* What a step does to the phase of a connection.
Lives(c) ==
  \/ PhaseOf(c) = 0 /\ PhaseOf(c)' = 1 /\ loopOf'[c] \in Threads
  \/ PhaseOf(c) \in 1..5 /\ PhaseOf(c)' = PhaseOf(c) + 1 /\ loopOf'[c] = loopOf[c]
  \/ PhaseOf(c)' = PhaseOf(c) /\ loopOf'[c] = loopOf[c]

\* The connections whose entries do not change keep their phases.
LEMMA PhaseStays ==
  ASSUME NEW c \in Conns, loopOf'[c] = loopOf[c], destroyedBy'[c] = destroyedBy[c],
         c \in conn_' <=> c \in conn_, index_'[c] = index_[c], c \in configured' <=> c \in configured
  PROVE  Lives(c)
  BY DEF Lives, PhaseOf, Accepted, Destroyed

\* A step that drops references takes the dying from phase 5 to phase 6.
LEMMA DropLives ==
  ASSUME IInv, NEW t \in Threads, DropReferences(t), UNCHANGED <<conn_, loopOf, configured>>,
         NEW c \in Conns
  PROVE  Lives(c)
  <1>1. /\ UNCHANGED index_
        /\ \/ destroyedBy'[c] = destroyedBy[c]
           \/ Accepted(c) /\ ~Destroyed(c) /\ c \notin conn_ /\ destroyedBy'[c] = t
    BY DropTells DEF IInv
  <1>2. CASE destroyedBy'[c] = destroyedBy[c]
    BY <1>1, <1>2, PhaseStays
  <1>3. CASE Accepted(c) /\ ~Destroyed(c) /\ c \notin conn_ /\ destroyedBy'[c] = t
    <2>1. PhaseOf(c) = 5
      BY <1>3, PhaseIs
    <2>2. PhaseOf(c)' = 6
      BY <1>3, NextPhaseIs, TcpServerAssumption DEF Accepted
    <2> QED BY <2>1, <2>2 DEF Lives
  <1> QED BY <1>1, <1>2, <1>3

\* Every step takes every connection to its next phase, or leaves it.
LEMMA StepLives ==
  ASSUME IInv, IInv', [Next]_vars, NEW c \in Conns
  PROVE  Lives(c)
  <1>1. CASE UNCHANGED <<objectVars, conn_, loopOf, configured>>
    BY <1>1, PhaseStays DEF objectVars
  <1>2. CASE UNCHANGED vars
    BY <1>1, <1>2 DEF vars, serverVars
  <1>3. ASSUME NEW t \in Threads, ThreadStep(t) PROVE Lives(c)
    <2>1. CASE \/ EpollWait(t) \/ ReadData(t) \/ RemoveConnection(t)
               \/ SwapTasks(t) \/ AddTimerInLoop(t) \/ \E d \in Conns : HandleRead(t, d)
      BY <1>1, <2>1 DEF EpollWait, ReadData, RemoveConnection, SwapTasks, AddTimerInLoop,
                        HandleRead, serverVars
    <2>2. CASE CallbackReturns(t) \/ HandleCloseReturns(t) \/ EndBatch(t)
      BY <2>2, DropLives DEF CallbackReturns, HandleCloseReturns, Return, EndBatch, serverVars
    <2>3. CASE HandleClose(t)
      <3> DEFINE d == cur[t]
      <3>1. /\ d \in Conns /\ at[t] = "read" /\ InPlace(t)
            /\ at'[t] = "close" /\ cur'[t] = d
            /\ UNCHANGED <<conn_, loopOf, configured, destroyedBy>>
        <4>1. UNCHANGED <<conn_, loopOf, configured, destroyedBy>> /\ at[t] = "read"
          BY <2>3 DEF HandleClose, DisableAll, UpdateChannel, serverVars
        <4>2. at'[t] = "close" /\ cur'[t] = d
          BY <2>3 DEF HandleClose, Goto, IInv, TypeOK
        <4>3. d \in Conns
          BY <4>1 DEF IInv, TypeOK
        <4>4. InPlace(t)
          BY DEF IInv, ThreadsTell
        <4> QED BY <4>1, <4>2, <4>3, <4>4
      <3>2. index_[d] = kAdded /\ index_'[d] = kDeleted
        <4>1. InPlace(t)'
          BY DEF IInv, ThreadsTell
        <4> QED BY <3>1, <4>1 DEF InPlace
      <3>3. \A e \in Conns \ {d} : index_'[e] = index_[e]
        BY <2>3 DEF HandleClose, DisableAll, UpdateChannel, IInv, TypeOK
      <3>4. Accepted(d) /\ d \in conn_ /\ ~Destroyed(d)
        BY <3>1, <3>2, EnabledLives
      <3> HIDE DEF d
      <3>5. CASE c = d
        BY <3>1, <3>2, <3>4, <3>5, PhaseIs, NextPhaseIs DEF Lives, Accepted, Destroyed
      <3>6. CASE c # d
        BY <3>1, <3>3, <3>6, PhaseStays
      <3> QED BY <3>5, <3>6
    <2>4. CASE ConnectEstablished(t)
      <3> DEFINE d == Head(batch[t]).conn
      <3>1. /\ NextTask(t, "establish") /\ UpdateChannel(t, d, index_[d])
            /\ UNCHANGED <<conn_, loopOf, configured, destroyedBy>>
        BY <2>4 DEF ConnectEstablished, UpdateChannel, serverVars
      <3>2. d \in Conns /\ Est(d) \in Coming(t)
        BY <3>1, TaskRuns
      <3>3. /\ index_[d] = kNew /\ d \in configured /\ Accepted(d) /\ d \in conn_
            /\ ~Destroyed(d) /\ channels[t][fdOf[d]] = None
        BY <3>2, EstablishFinds
      <3>4. index_' = [index_ EXCEPT ![d] = kAdded]
        BY <3>1, <3>3 DEF UpdateChannel
      <3>5. index_'[d] = kAdded /\ \A e \in Conns \ {d} : index_'[e] = index_[e]
        BY <3>2, <3>4 DEF IInv, TypeOK
      <3> HIDE DEF d
      <3>6. CASE c = d
        BY <3>1, <3>3, <3>5, <3>6, PhaseIs, NextPhaseIs DEF Lives, Accepted, Destroyed
      <3>7. CASE c # d
        BY <3>1, <3>5, <3>7, PhaseStays
      <3> QED BY <3>6, <3>7
    <2>5. CASE RemoveConnectionInLoop(t)
      <3> DEFINE d == Head(batch[t]).conn
      <3>1. /\ NextTask(t, "remove") /\ conn_' = conn_ \ {d}
            /\ UNCHANGED <<index_, loopOf, configured, destroyedBy>>
        BY <2>5 DEF RemoveConnectionInLoop, objectVars
      <3>2. d \in Conns /\ index_[d] = kDeleted /\ d \in conn_
        <4>1. d \in Conns /\ Rem(d) \in Coming(t)
          BY <3>1, TaskRuns
        <4> QED BY <4>1 DEF IInv, TasksTell
      <3>3. Accepted(d) /\ ~Destroyed(d)
        BY <3>2 DEF IInv, Fresh, DestroyedUnheld, Held
      <3> HIDE DEF d
      <3>4. CASE c = d
        BY <3>1, <3>2, <3>3, <3>4, PhaseIs, NextPhaseIs DEF Lives, Accepted, Destroyed
      <3>5. CASE c # d
        BY <3>1, <3>5, PhaseStays
      <3> QED BY <3>4, <3>5
    <2> QED BY <1>3, <2>1, <2>2, <2>3, <2>4, <2>5 DEF ThreadStep
  <1>4. CASE NewConnectionStep
    <2>1. CASE SetCallbacks
      <3> DEFINE d == cur[Main]
      <3>1. /\ Main \in Threads /\ d \in Conns
            /\ at[Main] = "accepted" /\ configured' = configured \cup {d}
            /\ UNCHANGED <<conn_, loopOf, destroyedBy, index_>>
        BY <2>1 DEF SetCallbacks, objectVars, IInv, TypeOK, Threads
      <3>2. Accepted(d) /\ index_[d] = kNew /\ d \notin configured
        <4>1. InPlace(Main)
          BY <3>1 DEF IInv, ThreadsTell
        <4> QED BY <3>1, <4>1 DEF InPlace
      <3>3. d \in conn_ /\ ~Destroyed(d)
        BY <3>1, <3>2 DEF IInv, InMap, DestroyedUnheld, Held
      <3> HIDE DEF d
      <3>4. CASE c = d
        BY <3>1, <3>2, <3>3, <3>4, PhaseIs, NextPhaseIs DEF Lives, Accepted, Destroyed
      <3>5. CASE c # d
        BY <3>1, <3>5, PhaseStays
      <3> QED BY <3>4, <3>5
    <2>2. CASE QueueEstablish
      BY <1>1, <2>2 DEF QueueEstablish, serverVars
    <2>3. CASE AddTimer
      BY <2>3, DropLives DEF AddTimer, serverVars, Threads
    <2> QED BY <1>4, <2>1, <2>2, <2>3 DEF NewConnectionStep
  <1>5. CASE HandleTimer
    BY <1>5, DropLives DEF HandleTimer, serverVars, Threads
  <1>6. ASSUME NEW d \in Conns, Accept(d) PROVE Lives(c)
    <2>1. /\ loopOf[d] = None /\ loopOf' = [loopOf EXCEPT ![d] = LoopAt(NextLoop)]
          /\ LoopAt(NextLoop) \in Threads
          /\ conn_' = conn_ \cup {d}
          /\ UNCHANGED <<destroyedBy, index_, configured>>
      BY <1>6, AcceptFinds DEF Accept, Accepted, IInv
    <2>2. index_[d] = kNew /\ d \notin configured /\ ~Destroyed(d)
      BY <2>1 DEF IInv, Fresh, Accepted
    <2>3. loopOf'[d] \in Threads /\ \A e \in Conns \ {d} : loopOf'[e] = loopOf[e]
      BY <2>1 DEF IInv, TypeOK
    <2>4. CASE c = d
      <3>1. PhaseOf(c) = 0
        BY <2>1, <2>4, PhaseIs DEF Accepted
      <3>2. PhaseOf(c)' = 1
        BY <2>1, <2>2, <2>3, <2>4, NextPhaseIs, TcpServerAssumption DEF Destroyed
      <3> QED BY <2>3, <2>4, <3>1, <3>2 DEF Lives
    <2>5. CASE c # d
      BY <2>1, <2>3, <2>5, PhaseStays
    <2> QED BY <2>4, <2>5
  <1>7. ASSUME NEW d \in Conns, TimerRuns(d) \/ PeerSends(d) \/ PeerCloses(d) PROVE Lives(c)
    BY <1>1, <1>7 DEF TimerRuns, PeerSends, PeerCloses, serverVars
  <1> QED BY <1>2, <1>3, <1>4, <1>5, <1>6, <1>7 DEF Next

\* Every step that puts a connection in the hand of a thread.
LEMMA StepEnters ==
  ASSUME IInv, IInv', [Next]_vars, NEW c \in Conns, NEW u \in Threads, cur'[u] = c, cur[u] # c
  PROVE  u = Main \/ (u = loopOf[c] /\ PhaseOf(c) = 3)
  <1>1. None # c /\ Main \in Threads
    BY TcpServerAssumption DEF Threads
  <1>2. ASSUME NEW t \in Threads, NEW label, Goto(t, label, None) \/ Goto(t, label, cur[t])
        PROVE  FALSE
    <2>1. cur' = [cur EXCEPT ![t] = None] \/ cur' = [cur EXCEPT ![t] = cur[t]]
      BY <1>2 DEF Goto
    <2> QED BY <1>1, <2>1 DEF IInv, TypeOK
  <1>3. cur' # cur
    OBVIOUS
  <1>4. ASSUME NEW t \in Threads, NEW d \in Conns, HandleRead(t, d)
        PROVE  u = loopOf[c] /\ PhaseOf(c) = 3
    <2>1. /\ d \in active[t] /\ cur' = [cur EXCEPT ![t] = d]
      BY <1>4 DEF HandleRead, Goto
    <2>2. u = t /\ d = c
      BY <2>1 DEF IInv, TypeOK
    <2>3. t = loopOf[c] /\ index_[c] = kAdded
      BY <2>1, <2>2 DEF IInv, ActiveTell
    <2> QED BY <2>2, <2>3, EnabledLives, PhaseIs
  <1>5. ASSUME NEW d, Goto(Main, "accepted", d) \/ Goto(Main, "timer", d) PROVE u = Main
    BY <1>1, <1>5 DEF Goto, IInv, TypeOK
  <1>6. ASSUME NEW t \in Threads, ThreadStep(t) PROVE u = loopOf[c] /\ PhaseOf(c) = 3
    <2>1. CASE EpollWait(t) \/ SwapTasks(t) \/ EndBatch(t)
      BY <1>2, <2>1 DEF EpollWait, SwapTasks, EndBatch
    <2>2. CASE ReadData(t) \/ HandleClose(t) \/ RemoveConnection(t)
      BY <1>2, <2>2 DEF ReadData, HandleClose, RemoveConnection
    <2>3. CASE CallbackReturns(t) \/ HandleCloseReturns(t)
      BY <1>2, <2>3 DEF CallbackReturns, HandleCloseReturns, Return
    <2>4. CASE ConnectEstablished(t) \/ AddTimerInLoop(t) \/ RemoveConnectionInLoop(t)
      BY <1>3, <2>4 DEF ConnectEstablished, AddTimerInLoop, RemoveConnectionInLoop, NextTask,
                        threadVars
    <2>5. CASE \E d \in Conns : HandleRead(t, d)
      BY <1>4, <2>5
    <2> QED BY <1>6, <2>1, <2>2, <2>3, <2>4, <2>5 DEF ThreadStep
  <1>7. CASE NewConnectionStep \/ HandleTimer
    BY <1>1, <1>2, <1>7 DEF NewConnectionStep, SetCallbacks, QueueEstablish, AddTimer, HandleTimer
  <1>8. ASSUME NEW d \in Conns, Accept(d) \/ TimerRuns(d) PROVE u = Main
    <2>1. CASE Goto(Main, "dispatch", None)
      BY <1>1, <1>2, <2>1
    <2> QED BY <1>5, <1>8, <2>1 DEF Accept, TimerRuns
  <1>9. ASSUME NEW d \in Conns, PeerSends(d) \/ PeerCloses(d) PROVE FALSE
    BY <1>3, <1>9 DEF PeerSends, PeerCloses, threadVars
  <1>10. CASE UNCHANGED vars
    BY <1>3, <1>10 DEF vars, threadVars
  <1> QED BY <1>6, <1>7, <1>8, <1>9, <1>10 DEF Next

\* TcpServer implements ConnectionLife: every connection goes through the
\* phases in order, its functions run on the main thread and on the thread of
\* its loop only, on the latter only while it is established, and it is
\* destroyed when no thread is in any of them.
THEOREM LifeImplemented == Spec => ImplementsLife
  <1>1. Init => Life!LifeInit
    <2> SUFFICES ASSUME Init PROVE Life!LifeInit
      OBVIOUS
    <2>1. \A c \in Conns : PhaseOf(c) = 0
      BY PhaseIs DEF Init, Accepted
    <2>2. \A c \in Conns : ThreadsIn(c) = {}
      BY TcpServerAssumption DEF Init, ThreadsIn
    <2> QED BY <2>1, <2>2 DEF Life!LifeInit, Life!New, Init
  <1>2. IInv' => NoUseAfterFree'
    BY Safe, PTL
  <1>3. ASSUME IInv, IInv', [Next]_vars PROVE Life!LifeNext
    <2> SUFFICES ASSUME NEW c \in Conns
                 PROVE  /\ Life!Begin(c) \/ Life!Advance(c) \/ Life!Stay(c)
                        /\ Life!Enter(c)
      BY DEF Life!LifeNext
    <2>1. Lives(c)
      BY <1>3, StepLives
    <2>2. PhaseOf(c)' = 6 => ThreadsIn(c)' = {}
      <3> SUFFICES ASSUME NEW t \in Threads, cur'[t] = c PROVE PhaseOf(c)' # 6
        BY DEF ThreadsIn
      <3>1. ~(destroyedBy'[c] # None)
        BY <1>2, <1>3, TcpServerAssumption DEF NoUseAfterFree, Destroyed
      <3> QED BY <3>1, NextPhaseIs
    <2>3. \A t \in Threads : cur'[t] = c /\ cur[t] # c
            => t = Main \/ (t = loopOf[c] /\ PhaseOf(c) = 3)
      BY <1>3, StepEnters
    <2> QED
      BY <2>1, <2>2, <2>3 DEF Life!Begin, Life!Advance, Life!Stay, Life!Enter, Lives, ThreadsIn,
           Life!New, Life!Constructed, Life!Removed, Life!Gone, Life!Established
  <1> QED BY <1>1, <1>3, Invariant, PTL DEF Spec, ImplementsLife, Life!LifeSpec
=============================================================================
