# Verification of CarfLib

TLA+ models of CarfLib, a C++ network library in the Reactor style (one event
loop per thread, epoll, callbacks) and of the small Web server built on it, with
TLC runs over small instances and TLAPS proofs for all instances. Paths are
relative to the root of the repository; line numbers are those of the modelled
commit.

## The system

`main()` owns one `EventLoop`. Its `TcpServer` accepts connections on that loop
and hands each to one of the loops of an `EventLoopThreadPool`. A connection
lives on its I/O loop: only that thread reads, writes and closes it. It is
entered in and removed from `conn_` on the main thread, which also runs the
`TimerQueue` that closes idle connections. The HTTP layer parses what the
connection has read, answers from files, and uses a `connection_pool` and a
map of users shared by the I/O threads. All threads log into one `LogFile`
through a bounded queue.

| Component | State | Operations | Interacts with | What is hard | What makes it correct |
|---|---|---|---|---|---|
| `net/EventLoop` | `tasks_`, `wakeup_fd`, `revents` | `loop`, `queueInLoop`, `wakeup`, `handleRead` | any thread that queues; its `Epoll` | tasks pushed while the loop polls, swaps or runs tasks | each task run once, in order, and without waiting for the poll timeout; ready channels are served |
| `net/Epoll`, `net/Channel` | `channels` by descriptor, `index_`, `events`, the kernel's interest list | `updateChannel`, `epollWait`, `handleEvent` | loop, connections, kernel | raw `Channel` pointers; descriptors that are reused; LT and ET | map and kernel agree; no event for a connection that is gone |
| `net/TcpServer`, life of `net/TcpConnection` | `conn_`, `idlefd`, `shared_ptr` counts | `newConnection`, `connectEstablished`, `handleClose`, `removeConnection(InLoop)`, `~TcpConnection` | main loop, I/O loops, timers | the last reference may be dropped by several threads; `accept()` fails | no use after free, one removal, no connection left deaf, descriptors come back and are closed by their owner only |
| `net/TcpConnection` data path, `net/Buffer` | two buffers, interest, sockets | `handleRead`, `send`, `handleWrite`, `shutdownWrite` | peer, `readCallback_`, main thread's timer | partial reads and writes, edges, resize, shutdown, resets | byte streams in order; unsent bytes are watched; the peer's end is noticed |
| `net/TimerQueue`, `Timer` | `timers_` by expiration, `visited`, timerfd | `addTimer`, `deleteTimer`, `handleRead`, `restart`, `handleTimer` | connections on I/O threads | keys that change, equal keys, `LONG_MAX`, checks that come late | one timer per connection; idle connections are shut |
| `net/EventLoopThreadPool`, `base/Thread` | `index_`, `loops_`, `cond_num` | `start`, `threadFunc`, `getNextLoop`, `join` | the threads it creates | signals before waits, loops that end | every thread its slot; `start` returns |
| `base/BlockQueue`, `Mutex`, `Condition` | deque, `used`, two conditions | `push_back`, `pop_front` | all threads that log | one signal per operation, spurious wakeups | bounded FIFO, no lost signal, no deadlock |
| `base/LogFile` | `over`, `file_`, `writenBytes`, `count_`, `currentDay` | `append_file`, `asyWrite`, `rollFile`, `join` | queue, clock | stop while lines are queued, a failing `fopen()` | files hold the log in order; `join` ends |
| `http/HttpContext` | `parseState_`, `request_` | `parseRequest`, `reset` | read buffer, `HttpServer` | requests in pieces, bodies, errors, pipelining, kept connections | requests recognised whole, in order, in time |
| `http/HttpServer` | `users`, user table | `onMessage`, `onRequest`, `defaultHttpCallback`, `sql_pool_init` | pool, database | unlocked map, end of the process between table and map | what was answered is stored |
| `http/sql_connection_pool` | `connList`, counters, `reserve` | `GetConnection`, `ReleaseConnection`, `DestroyPool` | I/O threads, `exit()` | test before the lock, signal after the unlock, destruction while in use | exclusive use, no missed signal |
| `base/Logger`, `Timestamp`, `net/socketops`, `main.cc` | none to speak of | formatting, system calls, wiring | | | not modelled on their own |
| `test_presure/webbench-1.5`, `root/` | | | | | third-party load generator and assets |

## Modules

| Module | Models | State and actions |
|---|---|---|
| `TaskExecutor` | what a loop promises: a queue of tasks, each started once, in order | abstract |
| `EventLoop` | `EventLoop.cc`, `Epoll::epollWait` | `PushTask` and `SwapTasks` are the critical sections of `mutex_`, `Wakeup`/`HandleWakeup` the eventfd, `EpollEvents` with its growing array, `EpollTimeout`, `EpollError` |
| `ConnectionLife` | what the life of a connection is: constructed, configured, established, closed, removed, gone, and who may serve it in each phase | abstract |
| `TcpServer` | `TcpServer.cc`, the life of `TcpConnection`, `Epoll::updateChannel`, `TimerQueue` as far as it holds references | reference counts are derived: `Held(c)` says which variables of the program own `c`, and the step that drops the last one (`DropReferences`) runs the destructor on its thread. Each loop takes its tasks in batches, as `EventLoop` proves. The arguments of the constructor are the variable `config` |
| `Acceptor` | `newConnection()` at the limit of descriptors | one owner per descriptor; one step per system call on `idlefd`; the pages that `defaultHttpCallback()` opens compete for it |
| `Buffer` | `Buffer.h`, `Buffer.cc` as operators on a record | `resize` copies exactly the range the code copies; where the range is negative, `ResizeUndefined` |
| `TcpConnection` | the data path: `TcpConnection.cc`, `Channel::handleEvent`, `HttpServer::onRequest` as a caller | one step per system call; `Ready` and `armed` are the level and the edge of epoll; LT and ET by `mode_`; the peer sends any bytes for ever if it likes; a reset by it is an error for one `read()` or `write()`, then an end of file or SIGPIPE |
| `TimerQueue` | `TimerQueue.*`, `handleTimer`, `Timestamp` arithmetic | `newConnection()` in two steps, `Accept` up to the queueing of `connectEstablished()` and `AddTimer`, with the I/O thread in between; time in ticks, timestamps wrap at `LongMax`; the main thread may fall `Lag` ticks behind |
| `ThreadPool` | `EventLoopThreadPool`, `Thread::start`, `Thread::join`, `ThreadData::run` | the starter and the threads, one step per critical section or unlocked access |
| `BoundedFifo` | what `BlockQueue` promises | abstract |
| `BlockQueue` | `BlockQueue.h` | one step per critical section, from lock or wakeup to unlock or wait |
| `LogFile` | `LogFile.cc`; extends `BlockQueue` | loggers in either mode, writer, the thread in `join()`; files by name; a failing `fopen()` makes the thread that rolls a logger |
| `HttpContext` | `HttpContext.cc`, `HttpRequest.h`, `HttpServer::onMessage`, `onRequest` | tokens are lines and bytes of a body, CR and LF among them; one turn of the parser's loop is a step |
| `ConnectionPool` | `sql_connection_pool.cc` | unlocked test, critical section, signal after the unlock; `DestroyPool` at any moment, `DestroyMembers` (the list and the mutex) after it, and `Misuse`, a thread that uses either after that, from which on nothing is claimed |
| `HttpServer` | registration and login; extends `ConnectionPool` | search, query and insert are separate steps; `Literal` maps a row to the row that the unescaped text of its INSERT stands for; the process may exit, or die, and start again |
| `MC*` | constants and symmetry for TLC | |
| `*Proofs` | theorems and proofs | |

`EventLoop` proves that a loop is a queue of tasks; `TcpServer` builds on that
and composes the main loop, the I/O loops, their `Epoll`s and the references
that timers hold. `TcpConnection` and `TimerQueue` are the two details that
`TcpServer` abstracts from (data and time), `Acceptor` the third (descriptors
that are not connections): in `TcpServer`, `Accept` waits for a free descriptor.
`LogFile` composes the queue with the threads around it, and `HttpServer` the
pool with its clients.

Operators marked `Mutant:` are plausible mistakes in the operation that follows
them. They are in no specification; they serve to show that a property notices.

## Runs

| Run | Instance | What it shows |
|---|---|---|
| `eventloop` | 2 submitters, 2 channels, `revents` of 1, 3 tasks | no lost wakeup with any interleaving, tasks run once and in order (`ImplementsExecutor`), every task is started and every ready channel served although only one event fits at first. 10-second timeouts are not needed for progress |
| `tcpserver` | 2 connections; 2 I/O threads in LT, 1 descriptor in turn in ET, a pool of size 0 with hold 0, no Timers | no use after free, one removal per connection, the map of `Epoll` agrees with the kernel across `close()` and reuse, no connection is left deaf, each lives as `ConnectionLife` says, and one closed by its peer is destroyed whatever its timer does |
| `acceptor` | 3 clients, 2 workers that open pages for ever, 3 descriptors | nobody's descriptor is closed by `newConnection()`; a client is answered as long as the reserve is there, and, if the opening of pages pauses, unless connections have every descriptor |
| `threadpool_start` | 5 threads, as in `main.cc` | own slots, no empty loop from `getNextLoop()`, the pool's signal is not lost |
| `threadpool_lost_signal` | 1 thread | violated, see below |
| `timerqueue_safety` | 2 connections, hold 2, check 1, lag 1, 6 ticks, `LongMax` 15 | the map stays keyed by expirations through restarts, one timer per connection, idle connections that were read once are shut in time |
| `timerqueue_never_read` | 1 connection | violated, see below |
| `tcpconnection` | LT and ET, buffers of 3 and 1 bytes, socket of 1, input of two kinds of bytes for ever, 3 bytes out, resets | indices in range, room at each read, byte streams in order, delivery in LT or notice of the peer's end unless input is ready at every event for ever |
| `tcpconnection_truncated` | LT, no timer | violated, see below |
| `logfile` | both modes; 3 loggers with 2 lines each, queue of 2, files of 3 lines, days of 2 seconds, 3 seconds | no lost signal, FIFO, files complete and in order, lines taken until `join()` or a failure, `join()` ends when its wakeup finds room |
| `httpserver` | 3 I/O threads, 2 database connections, 1 name, 2 passwords of which the text of one stands for the other, exits and restarts | exclusive use of open connections, no sleep beside a free connection (both until a thread uses the destroyed pool), what was answered is in the table |
| `httpcontext` | 3 requests, each any of 13: GETs of both versions, kept and closed, and one with a body; a CONNECT of an unknown version; POSTs of up to 2 bytes, with a CRLF too, the length declared right, wrong or not at all | requests recognised whole and in order in all fragmentations, nothing of one left for the next, answered without further input unless the parser misreads a POST |

`CHECK_DEADLOCK FALSE` stands where the system really may stop: the peers may
all be gone, the process may die, `epoll_wait` may fail, the loggers may be done.

### What the violated runs show

* `threadpool_lost_signal`: `ThreadData::run()` increments `cond_num` and signals
  without the mutex, so the signal can fall between the test and the wait of
  `Thread::start()`, which then never returns (`Thread.cc:37` says it waits for
  the thread to run).
* `timerqueue_never_read`: `visited` starts as `LONG_MAX`; a connection that
  never sends anything is restarted with an expiration that wraps, and is never
  shut (`Timer.md:2` says it is).
* `tcpconnection_truncated`: `shutdownWrite()` right after a `send()` that could
  not write everything cuts the response off, and the next write raises SIGPIPE,
  which nothing ignores.

### What the models show beyond the properties

These behaviours of the code are in the models, and the properties that are
checked are conditioned on their absence:

* `TcpConnection`: a read that fills `readBuffer` loses the bytes it read
  (`filled`); `resize()` with `readIndex_ # 0` loses bytes or copies a negative
  range (`regrown`, `ResizeCrashes`); in ET an event that is both readable and
  writable is only read, data that comes with the end of file never reaches the
  callback, and a reset adds the -1 of `read()` to the write index (`Spoilt`).
  `Channel::handleEvent()` writes in the `else` branch of the test for input
  (`Channel.cc:13-18`): in LT a client that reads its response but has more to say
  at every event is never sent the rest, with the I/O thread and the client
  running all the time. TLC refutes `OutputFlows` without its first disjunct
  (`InputNeverPauses`) by such a client.
* `TimerQueue`: two timers with one key leave one connection without a timer
  (`collided`); the Timer may shut a connection that has just been read.
* `Acceptor`: a failed `accept()` of any kind takes the `EMFILE` path, so that a
  client after one that was reset is refused although there is room, and the
  main loop stays in the second `accept()` until somebody connects. When
  a connection or a page takes the descriptor that `idlefd` gave up, the reserve is
  lost (`ReserveLost`) and the main loop spins on the listening socket. Two
  workers whose pages alternate may then have every descriptor each time it
  tries, for ever, since `defaultHttpCallback()` opens a page per request
  (`HttpServer.cc:137`): the second half of `ClientsAreAnswered` is for page
  openings that pause.
* `LogFile`: lines still queued at `setOver()` are dropped; a log thread that
  cannot open its next file logs that into its own queue, and waits for itself
  for ever when the queue is full; in synchronous mode the same message locks a
  mutex its thread holds, and nobody logs again.
* `ThreadPool`: the slot of a loop that has ended still points to it.
* `HttpContext`: a pipelined request waits for the next read, one behind a POST
  is taken for its body (`overlapped`), and a response after `shutdownWrite()`
  ends the process. A body that comes with a request other than a POST stays in
  the buffer and makes the next request line unreadable (`Unframed`). Three kinds
  of POST are not answered (`Misread`): one without a length ends the process;
  one whose length is declared wrong waits for bytes that are not its own, or
  never ends; and one that is declared right but holds a CRLF loses that and
  what comes before it, when the CRLF comes in one piece (`HttpContext.cc:107`),
  and waits for the missing bytes for ever.
* `ConnectionPool`: `exit()`, after a log file that cannot be opened
  (`LogFile.cc:95`), runs the destructor of the static pool while the I/O threads
  go on, and the next request searches a list or locks a mutex that is destroyed
  (`Misuse`).
* `HttpServer`: two registrations of one name may both be answered with success
  (the second password does not log in); with more threads than connections
  `GetConnection()` may give NULL and the query ends the process. The row that is
  entered in the map need not be the one that the unescaped text put in the table
  (`Literal`), so that after a restart the account may not be known.

## Bounds

The interesting cases are all reached at these sizes: TLC's coverage has every
action of every passing run fire. Two I/O threads and the main thread suffice
for the references of a connection, as only its own loop and the main loop hold
any; one descriptor forces reuse at every accept; the configurations of
`tcpserver` are initial states of one run, since the code reads them and never
changes them. `revents` of 1 against three descriptors forces both the growth
and the starvation it is there to prevent. Three descriptors are the reserve
and two that clients and workers dispute, so that a worker, a client and the
main thread each get the one that was given up.

A queue of 2 with three loggers has loggers asleep at once with a signal in
flight, and `Roller` behind them; the proofs cover every number of threads and
every capacity. Files of 3 lines and days of 2 seconds make rolls by size and by
day meet, twice within a second too. Hold 2, check 1 and lag 1 put deadlines on
and between checks and a late check after each; 6 ticks see a timer restarted
twice, and a `LongMax` of 15 wraps as that of 64 bits does while ordinary times do not. A
read buffer of 3 bytes with 2 of input pending reaches the fill, the resize and its undefined
case, with partial consumption; a write buffer of 1 with a socket of 1 reaches
partial writes, appends behind unsent bytes, and a resize after consumption.
The peer's bytes are of two kinds, enough to tell an order from another.
`MaxIn` bounds those that are sent and not retrieved, not those that are ever sent,
and `MaxRead` keeps the peer quiet only once a read has filled `readBuffer`, after
which nothing is claimed of the input.
Three I/O threads on two connections have one asleep while two release, and one
take the other's; the proof covers any number. Three requests let the second be
kept apart from both neighbours, and bodies of 2 bytes hold a CRLF whole or cut
in two. History variables grow no state of their own beyond what the bounds allow. `MaxTasks`, `MaxItems`, `MaxTime`, `Lag`,
`MaxSecond`, `MaxIn`, `MaxRead`, `MaxOut`, `MaxRequests` and `MaxBody` bound
what the program does not bound. Clients, pages and the peer's input have no end:
those who compete with a liveness property may do so for ever.

Symmetry is used where only invariants are checked (connections in
`timerqueue_safety`, threads in `httpserver`).

## Fairness

Only threads that the operating system schedules are fair: the loop thread and
a submitter inside `queueInLoop()` (`EventLoop`), the I/O threads and the main
thread while they have something to do (`TcpServer`, `TcpConnection`,
`HttpContext`), the main thread in `newConnection()` and a worker that has
opened a page (`Acceptor`), a woken thread that competes for a mutex
(`BlockQueue`), the writer and a `join()` in progress (`LogFile`), the starter
and the new threads (`ThreadPool`). Nothing makes a client send or close, a
connection end, a logger log, or a timer expire. `TcpConnection` adds that the
peer goes on reading, without which no server can deliver; that it pauses in
sending is not assumed but stated in `OutputFlows` (`InputNeverPauses`), as
`ClientsAreAnswered` states what it needs of pages. The poll timeout is
not made fair: progress has to come from wakeups. All these are weak; no strong
fairness is assumed, so nothing is claimed about which of several competing
threads gets the mutex.

## Proofs

TLAPS checks, for every value of the constants allowed by the `ASSUME`s, the
theorems below. The `ASSUME`s say that names are different (no connection is
the main thread), that sizes are positive, that the text of a row stands for a row, and that a last second or a last
byte is a number; the one that restricts the program is that of `TimerQueue`,
by which the clock stays a hold and a check away from `LONG_MAX`. Each
inductive invariant was an invariant of a TLC run before it was proved.

* `EventLoopProofs`: `Typing`, `WakeupIsNeverLost`, `Implementation`. The
  inductive invariant says, for each place the loop and each submitter can be,
  who still owes a wakeup: a non-empty `tasks_` has a write to the eventfd
  behind it, a submitter between its push and its write, or a loop that will
  swap before it polls. `NoLostWakeup` alone is not inductive, since it says
  nothing of submitters in between. The refinement maps the executor's queue to
  the rest of `t_task` followed by `tasks_`.
* `TcpServerProofs`: `Typing`, `NoUseAfterFreeHolds`, `EpollAgrees`, `NoOrphan`,
  `RemovalOnce`, `LifeImplemented`. A `shared_ptr` protects a connection only
  as long as some variable holds it, so the invariant gives each connection in
  `conn_` a place (`Placed`): the `newConnection()` that runs, its task to
  establish, the interest list of its loop, the `handleClose()` that runs, or its
  task to remove. Each place is exclusive, is on one thread, and fixes
  `index_`, so that `conn_` holds the reference wherever a raw pointer is used,
  and only the last task takes it away (`TasksTell`, `InPlace`, `ActiveTell`,
  `TasksOnce`). `DestroyedUnheld` says that the destructor has run for
  what nobody holds only; the lemmas on `DropReferences` say that the step that
  drops the last reference runs it. For `ConnectionLife` the phase of a connection is
  read off `conn_`, `configured` and `index_`, and every step leaves it or
  moves it on by one (`StepLives`), and lets a thread into a function of the
  connection only where `ConnectionLife` does (`StepEnters`).
* `AcceptorProofs`: `Typing`, `OwnDescriptorsOnly`. The number in `idlefd` is
  stale at two moments only, between a `close()` and the next assignment, and then
  the main thread owns no descriptor (`NothingOfMain`); everywhere else it is -1
  or its own. Which descriptor `open()` and `accept()` give is a `CHOOSE` of the
  least, which exists by well-foundedness.
* `TimerQueueProofs`: `Typing`, `KeysAreExpirations`, `OneTimer`,
  `IdleIsShutInTime`. A Timer is in
  `timers_` or on its way there (`InOrAdding`), `restart()` sets a new
  expiration only while the entry under the old one is the entry that is being
  run, and that one is erased before anything looks a Timer up. Timestamps are those
  of `Wrap`, so the theorems cover the Timers that wrap around. The bound in time
  is not inductive, as it says nothing of Timers between two checks.
  `IdleInv` adds how far the clock is ahead of the last check that was
  due, for each place of the main thread (`ClocksTell`); that the expiration of an
  open connection is within a hold of its last use (`ExpirationsTell`); that no
  Timer on its way to `timers_` was due already, and none in it is checked late
  (`Timely`); and that an open connection has a Timer at all (`Tracked`). The
  step that matters is `restart()`: `visited` is then a time that has passed,
  so the new expiration does not wrap (`WrapKeeps`) and is in the future.
* `TcpConnectionProofs`: `Typing`, `HasRoomToRead`, `InputArrivesInOrder`,
  `OutputArrivesInOrder`. First what each operation of `Buffer` does to the
  readable bytes and to the room: append appends, retrieve takes from the front,
  `resize()` keeps what is readable when `readIndex_` is 0. A read that takes all
  the room doubles the buffer before it moves the index, which is why the next
  one has room. The invariant has
  three parts (`Control`, `Input`, `Output`), and most steps touch one of the
  streams only. The -1 of an edge-triggered `read()` error in `writeIndex_`
  needs a case of its own.
* `ThreadPoolProofs`: `Typing`, `SlotsAreOwn`, `NextLoopExists`,
  `PoolSignalNeverMissed`, from an invariant that relates `index_`, the slots
  filled so far and the place of the starter. The pool may be empty, and loops
  may end while others are started.
* `LogFileProofs`, the queue: `Typing`, `SignalsAreEnough`, `DeadlockFreedom`,
  `Implementation`, for threads that do anything with it. `NoSignalLost` with
  the type invariant is inductive: it counts the woken threads against the free
  places and the items, and every signal or wait changes both sides together.
* `LogFileProofs`, the LogFile: `LogTyping`, `FilesInOrder`, `LogUsesQueue`. Every
  step of the LogFile is a step of the queue or leaves it alone, so all that
  holds of the queue holds in it. `FilesHoldTheLog` is about `FlattenSeq`, a fold over
  the files: `FlattenAfterAppend` says that a line appended to one file, when
  those after it are empty, is appended to the whole. It is proved by induction on
  the number of files, from the least member of a set of numbers, the form of
  induction that takes a set and no operator. `FilesHoldTheLog` is
  inductive with the facts that files of later seconds are empty
  (`NothingLater`) and that a writer about to write has taken a line (`HasLine`).
* `HttpServerProofs`, the pool: `PoolTyping`, `ExclusiveUse`, `NoMissedSignal`.
  `Exclusive` is inductive only beside `PoolTypeOK`: a non-zero `m_FreeConn` has
  to mean a non-empty list, or `front()` would give anything, and a thread has to
  lose what it appends; `DestroyPool` may come between any two steps. After it the
  list and the mutex are destroyed, and the invariant goes on until a thread uses
  them: `Exclusive` says nothing of a pool that is `Misused`.
  `NoSleepBesideFree` weighs the free connections against the threads that are
  woken or about to signal.
* `HttpServerProofs`, its clients: `ServerTyping`, `ServerUsesPool`,
  `StoredAnswers`. Every step of the server is a step of the pool or starts a new
  process with a new pool (`UsesPool`), `exit()` and the threads that outlive it
  included. `AnswersAreStored` needs `Stored`: what a thread is about to enter in
  the map is in the table already, as the row that its INSERT wrote. Nothing is
  assumed of `Literal` but that it gives a row.
* `HttpServerProofs`, the parser: `ContextTyping`, `RequestsServedAsSent`.
  `ServedAsSent` speaks of requests that are answered, the invariant
  (`ContextIInv`) of where the parser is in the one that is not. While nothing has
  come that the parser misreads (`Straight`) there is a number `d` of tokens taken
  so far and an offset `o[n]` for each request, such that what is left, in the
  buffer or on its way, is what was sent from `d` on (`Holds`), and such that
  `d - o[n]` is as far into the next request as `parseState_` and the headers
  and body in `request_` say (`Progress`). The lemmas before it are about
  sequences (`Concatenated`, `Dropped`, `Moved`, `DroppedFirst`) and about what is
  sent (`TokensTell`, `NextTokens`, `NextLine`); then each step takes its tokens
  off the front. That everything readable belongs to the body of
  a POST rests on the peer waiting for its answer: `Numbered` says that all that
  was sent ahead of the answer before it is in `overlapped`. `Settled` gives the part of
  `TypeOK` by which the buffer is empty between two requests.

Only model-checked are the liveness properties: `TaskEventuallyRuns`,
`ReadyChannelServed`, `ClosedConnectionIsFreed`, `ClientsAreAnswered`,
`OutputFlows`, `LinesAreWritten`, `JoinEnds` and `RequestIsAnswered`. They depend on fairness and on `ENABLED`, out
of the prover's reach. Every invariant and every refinement that a passing run
checks is a theorem.

## Not modelled

* Formatting of log lines and dates, contents of responses and pages, choice of
  pages, `socketops`: text and single system calls.
* What becomes of connections whose loop has left `loop()` after a failed
  `epoll_wait()`; `EventLoop` and `ThreadPool` have the end of a loop, and the
  liveness of `EventLoop` is conditional.
* Destructors of the server, the thread pool and the loops: they run when
  `loop()` of the main thread returns, on which `~TcpServer()` asserts that no
  connection is left. Of what follows, `HttpServer` has the destruction of the
  database pool in `exit()` up to the first use of what is destroyed, and nothing
  of the map `users`, the response in progress or the `LogFile` after that.
* Undefined outcomes of a data race other than the end of the process, and
  non-atomic access to single words.
* Steps of the wall clock, which `Timestamp::now()` follows and the timerfd does
  not.

## Plan

Built so far, in this order: `EventLoop`, `TcpServer`, `ThreadPool`,
`TimerQueue`, `BlockQueue` and `LogFile`, `Buffer` and `TcpConnection`,
`ConnectionPool` and `HttpServer`, `HttpContext`; then `ConnectionLife` and the
other configurations of `TcpServer`, `Acceptor`, both modes and the failures of
`LogFile`, `join()` and the end of a loop in `ThreadPool`, late checks in
`TimerQueue`, resets in `TcpConnection`, `exit()` in `HttpServer`, headers and
the reset of `HttpContext`.

After these the proofs: the pool, the queue and the loop first, then
`TcpServer` with its refinement, `TimerQueue`, `Acceptor`, `TcpConnection` over
lemmas on `Buffer`, `LogFile`, and `HttpServer`; last the bound in time of
`TimerQueue` and the parser.

What the models leave open is data or outside the library: the hazards that
have no property in `PROJECT.json` (unlocked reads of `visited` and
`writeBuffer` by the main thread, the page that is a directory, data that
comes with the end of file in edge-triggered mode), and the subjects under
"Not modelled". The next property worth stating would be about several
connections on one `Epoll` in edge-triggered mode, where `TcpConnection` has one
and `TcpServer` abstracts from the edge.
