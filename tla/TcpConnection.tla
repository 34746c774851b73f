--------------------------- MODULE TcpConnection ---------------------------
(***************************************************************************)
(* The data path of one connection: handleRead() and readCallback_,        *)
(* send(), handleWrite() and shutdownWrite() with their two Buffers, the   *)
(* interest of its Channel, level- and edge-triggered epoll, the socket    *)
(* buffers, the peer, and the Timer that shuts the write side down from    *)
(* the main thread (net/TcpConnection.cc, net/Channel, net/Buffer).        *)
(*                                                                         *)
(* The peer sends any bytes for as long as it likes; the bytes handed to   *)
(* send() are numbered from 1.  A system call is a step; readCallback_     *)
(* consumes and answers what it likes, as HttpServer::onMessage() depends  *)
(* on the text it gets.                                                    *)
(* A peer that resets the connection leaves an error for the next read()   *)
(* or write(); later ones meet an end of file and SIGPIPE.                 *)
(***************************************************************************)
EXTENDS Integers, Sequences

CONSTANTS
  Modes,     \* values of mode_: 1 is LT, 2 is ET
  ReadBufSize, WriteBufSize,  \* first sizes of the buffers, initBufSize in the code
  HasTimer,  \* timer_ is not null (conn_hold_seconds is not negative)
  SockSize,  \* bytes the kernel takes before write() blocks
  Byte,      \* what the peer's bytes may be
  MaxIn,     \* bound of the model: bytes sent and not retrieved
  MaxRead,   \* bound of the model: the peer is quiet once readBuffer is larger
  MaxOut     \* bound of the model: bytes handed to send()

ASSUME TcpConnectionAssumption ==
  /\ Modes \subseteq {1, 2} /\ HasTimer \in BOOLEAN
  /\ ReadBufSize \in Nat \ {0} /\ WriteBufSize \in Nat \ {0} /\ SockSize \in Nat \ {0}
  /\ MaxIn \in Nat /\ MaxRead \in Nat /\ MaxOut \in Nat

INSTANCE Buffer WITH NUL <- 0

VARIABLES
  mode_, readBuffer, writeBuffer,
  events,    \* Channel::events: subset of {"in", "out"}
  at,        \* where the I/O thread is
  sending,   \* the bytes send() still has to write or append
  timer,     \* handleTimer() has found writeBuffer empty
  armed,     \* edge-triggered: the descriptor is in epoll's ready list
  nospace,   \* a write() fell short: the kernel will report space
  inSock, outSock,   \* socket buffers
  eof,               \* the peer has ended its output
  received,          \* bytes the peer has got
  reset,     \* "no", or a reset by the peer: "error", then "read" or "written",
             \* as the error was given to read() or to write()
  shut,      \* the write side is shut down
  handed,    \* bytes handed to send()
  due,       \* history: bytes sent and not retrieved, recorded until filled
  filled,    \* history: a read() filled readBuffer
  regrown    \* history: writeBuffer was resized with readIndex_ # 0

readVars == <<readBuffer, inSock, due, filled>>
writeVars == <<writeBuffer, outSock, nospace, handed, sending, regrown>>
epollVars == <<mode_, events, armed>>
peerVars == <<eof, received>>
vars == <<readVars, writeVars, epollVars, peerVars, at, timer, reset, shut>>

Init ==
  /\ mode_ \in Modes
  /\ readBuffer = NewBuffer(ReadBufSize)
  /\ writeBuffer = NewBuffer(WriteBufSize)
  /\ events = {}
  /\ at = "new"
  /\ sending = <<>>
  /\ timer = FALSE
  /\ armed = FALSE /\ nospace = FALSE
  /\ inSock = <<>> /\ outSock = <<>>
  /\ eof = FALSE /\ received = <<>>
  /\ reset = "no" /\ shut = FALSE
  /\ due = <<>> /\ handed = 0
  /\ filled = FALSE /\ regrown = FALSE

Lesser(m, n) == IF m <= n THEN m ELSE n
First(s, n) == SubSeq(s, 1, n)
Rest(s, n) == SubSeq(s, n + 1, Len(s))
Space == SockSize - Len(outSock)
-----------------------------------------------------------------------------
(* epoll: what the kernel reports, and the ready list that edge-triggered  *)
(* mode depends on.                                                        *)

Ready ==
  {e \in {"in", "out"} :
     \/ reset # "no"
     \/ e = "in" /\ (inSock # <<>> \/ eof)
     \/ e = "out" /\ (Space > 0 \/ shut)}

\* The kernel puts the descriptor in the ready list; level-triggered mode
\* looks at Ready itself.
ArmIf(condition) == armed' = (mode_ = 2 /\ (armed \/ condition))

\* Channel::update(): EPOLL_CTL_ADD and MOD look at what is ready.
UpdateInterest(e) ==
  /\ events' = e
  /\ ArmIf(Ready \cap e # {})
  /\ UNCHANGED mode_

\* epoll_wait() and Channel::handleEvent(): reading goes before writing, and
\* an event that is both is only read.
HandleEvent ==
  /\ at = "poll"
  /\ Ready \cap events # {}
  /\ mode_ = 2 => armed
  /\ armed' = FALSE
  /\ at' = IF "in" \in Ready \cap events THEN "read" ELSE "write"
  /\ UNCHANGED <<readVars, writeVars, mode_, events, peerVars, timer, reset, shut>>

ConnectEstablished ==
  /\ at = "new"
  /\ at' = "poll"
  /\ UpdateInterest({"in"})
  /\ UNCHANGED <<readVars, writeVars, peerVars, timer, reset, shut>>
-----------------------------------------------------------------------------
(* handleRead(): one read() in LT, as many as there is data for in ET.     *)

ReadSize == Lesser(Len(inSock), writableBytes(readBuffer))
FillsBuffer == ReadSize = writableBytes(readBuffer)

\* Mutant: the buffer is never resized.
NotRegrown(b) == b

\* A read() that fills the buffer has it resized before the index is moved.
Regrown(b) == IF FillsBuffer THEN resize(b) ELSE b

ReadBytes ==
  /\ at = "read" /\ ReadSize > 0
  /\ readBuffer' = addWriteIndex(Regrown(CopyIn(readBuffer, First(inSock, ReadSize))), ReadSize)
  /\ inSock' = Rest(inSock, ReadSize)
  /\ filled' = (filled \/ FillsBuffer)
  /\ due' = IF filled' THEN <<>> ELSE due
  /\ at' = IF mode_ = 1 THEN "callback" ELSE "read"
  /\ UNCHANGED <<writeVars, epollVars, peerVars, timer, reset, shut>>

\* EAGAIN
ReadAgain ==
  /\ at = "read" /\ ReadSize = 0
  /\ writableBytes(readBuffer) > 0 /\ ~eof /\ reset = "no"
  /\ at' = "callback"
  /\ UNCHANGED <<readVars, writeVars, epollVars, peerVars, timer, reset, shut>>

\* Any other error: LT leaves the buffer alone, ET adds the -1 to the index
\* and reads on.
ReadError ==
  /\ at = "read" /\ ReadSize = 0
  /\ writableBytes(readBuffer) > 0 /\ ~eof /\ reset = "error"
  /\ reset' = "read"
  /\ IF mode_ = 1 THEN at' = "callback" /\ UNCHANGED readBuffer
     ELSE readBuffer' = addWriteIndex(readBuffer, -1) /\ UNCHANGED at
  /\ UNCHANGED <<inSock, due, filled, writeVars, epollVars, peerVars, timer, shut>>

\* read() gives 0 at the end of file, or when there is no room: handleClose().
HandleClose ==
  /\ at = "read" /\ ReadSize = 0
  /\ writableBytes(readBuffer) = 0 \/ eof \/ reset \in {"read", "written"}
  /\ at' = "closed"
  /\ UNCHANGED <<readVars, writeVars, epollVars, peerVars, timer, reset, shut>>

Answer(len) ==
  /\ len <= MaxOut - handed
  /\ sending' = [i \in 1..len |-> handed + i]
  /\ handed' = handed + len
  /\ at' = "send"

\* Mutant: the buffer is reset although bytes of the next request are in it.
ConsumeResetting(k) ==
  IF k = 0 THEN readBuffer ELSE retrieveLen(readBuffer, readableBytes(readBuffer))

Consume(k) == retrieveLen(readBuffer, k)

\* readCallback_ retrieves some of what is readable and may answer.
OnMessage ==
  /\ at = "callback"
  /\ \E k \in 0..readableBytes(readBuffer) :
       readBuffer' = Consume(k) /\ due' = Rest(due, k)
  /\ \/ at' = "poll" /\ UNCHANGED <<sending, handed>>
     \/ \E len \in 1..MaxOut : Answer(len)
  /\ UNCHANGED <<inSock, filled, writeBuffer, outSock, nospace, regrown, epollVars, peerVars,
                 timer, reset, shut>>
-----------------------------------------------------------------------------
(* send() and shutdownWrite(), as readCallback_ calls them.                *)

\* write() takes what there is space for.
Write(s) ==
  LET n == Lesser(Len(s), Space)
  IN  /\ outSock' = outSock \o First(s, n)
      /\ nospace' = (nospace \/ n < Len(s))

\* A write() is met by SIGPIPE.
Broken == reset # "error" /\ (shut \/ reset # "no")

\* Mutant: send() writes although bytes are waiting in writeBuffer.
WritesAlways == TRUE

WritesDirectly == readableBytes(writeBuffer) = 0

\* A write() that fails has written nothing.
Send ==
  /\ at = "send"
  /\ \/ ~WritesDirectly /\ UNCHANGED <<outSock, nospace, sending, reset>>
     \/ /\ WritesDirectly /\ reset = "error"
        /\ reset' = "written" /\ UNCHANGED <<outSock, nospace, sending>>
     \/ /\ WritesDirectly /\ reset = "no" /\ ~shut
        /\ Write(sending) /\ sending' = Rest(sending, Space) /\ UNCHANGED reset
  /\ at' = IF sending' = <<>> THEN "sent" ELSE "append"
  /\ UNCHANGED <<readVars, writeBuffer, handed, regrown, epollVars, peerVars, timer, shut>>

\* Mutant: the room is not tested.
HasRoomAlways == TRUE

HasRoom == Len(sending) <= writableBytes(writeBuffer)

\* Buffer::append(): resize until there is room, one turn of the loop a step.
AppendResizes ==
  /\ at = "append" /\ ~HasRoom
  /\ writeBuffer' = resize(writeBuffer)
  /\ regrown' = (regrown \/ writeBuffer.readIndex_ # 0)
  /\ UNCHANGED <<readVars, outSock, nospace, handed, sending, epollVars, peerVars, at, timer,
                 reset, shut>>

AppendCopies ==
  /\ at = "append" /\ HasRoom
  /\ writeBuffer' = addWriteIndex(CopyIn(writeBuffer, sending), Len(sending))
  /\ sending' = <<>>
  /\ UpdateInterest(events \cup {"out"})
  /\ at' = "sent"
  /\ UNCHANGED <<readVars, outSock, nospace, handed, regrown, peerVars, timer, reset, shut>>

SendReturns ==
  /\ at = "sent"
  /\ at' = "poll"
  /\ UNCHANGED <<readVars, writeVars, epollVars, peerVars, timer, reset, shut>>

\* state_ = kconnected is an assignment: the write side is shut down always.
ShutdownWrite ==
  /\ at = "sent"
  /\ shut' = TRUE
  /\ ArmIf(TRUE)
  /\ at' = "poll"
  /\ UNCHANGED <<readVars, writeVars, mode_, events, peerVars, timer, reset>>
-----------------------------------------------------------------------------
(* handleWrite(), of n bytes.                                              *)

Writable == Lesser(readableBytes(writeBuffer), Space)

\* Mutant: a short write disables writing too.
WroteSome == Writable > 0

WroteAll == Writable > 0 /\ Writable = readableBytes(writeBuffer)

HandleWriteLT ==
  /\ at = "write" /\ mode_ = 1 /\ reset = "no" /\ ~shut
  /\ Write(Readable(writeBuffer))
  /\ writeBuffer' = addReadIndex(writeBuffer, Writable)
  /\ IF WroteAll THEN UpdateInterest(events \ {"out"}) ELSE UNCHANGED epollVars
  /\ at' = "poll"
  /\ UNCHANGED <<readVars, handed, sending, regrown, peerVars, timer, reset, shut>>

\* ET writes until writeBuffer is empty or the socket is full.
HandleWriteET ==
  /\ at = "write" /\ mode_ = 2 /\ reset = "no" /\ ~shut
  /\ Write(Readable(writeBuffer))
  /\ LET full == Writable = 0 /\ readableBytes(writeBuffer) > 0
     IN  /\ writeBuffer' = addReadIndex(writeBuffer, Writable)
         /\ IF full THEN UpdateInterest(events \cup {"out"}) ELSE UNCHANGED epollVars
         /\ at' = IF full \/ Writable = readableBytes(writeBuffer) THEN "poll" ELSE "write"
  /\ UNCHANGED <<readVars, handed, sending, regrown, peerVars, timer, reset, shut>>

\* LT only logs the error.
WriteError ==
  /\ at = "write" /\ mode_ = 1 /\ reset = "error"
  /\ reset' = "written"
  /\ at' = "poll"
  /\ UNCHANGED <<readVars, writeVars, epollVars, peerVars, timer, shut>>
-----------------------------------------------------------------------------
(* The ways to end the process.                                            *)

Dies ==
  /\ at' = "dead"
  /\ UNCHANGED <<readVars, writeVars, epollVars, peerVars, timer, reset, shut>>

\* SIGPIPE, which the program leaves at its default; in ET handleWrite()
\* goes on writing after an error.
BrokenPipe ==
  /\ \/ at = "write" /\ (Broken \/ (mode_ = 2 /\ reset = "error"))
     \/ at = "send" /\ WritesDirectly /\ Broken
  /\ Dies

ResizeCrashes ==
  /\ \/ at = "read" /\ ReadSize > 0 /\ FillsBuffer /\ ResizeUndefined(readBuffer)
     \/ at = "append" /\ ~HasRoom /\ ResizeUndefined(writeBuffer)
  /\ Dies
-----------------------------------------------------------------------------
(* handleTimer() on the main thread reads writeBuffer, then shuts down.    *)

TimerTests ==
  /\ HasTimer
  /\ at \notin {"new", "dead"} /\ ~timer /\ ~shut
  /\ readableBytes(writeBuffer) = 0
  /\ timer' = TRUE
  /\ UNCHANGED <<readVars, writeVars, epollVars, peerVars, at, reset, shut>>

TimerShutsDown ==
  /\ timer /\ at # "dead"
  /\ timer' = FALSE
  /\ shut' = TRUE
  /\ ArmIf(TRUE)
  /\ UNCHANGED <<readVars, writeVars, mode_, events, peerVars, at, reset>>
-----------------------------------------------------------------------------
(* The peer, which may end its output but go on reading, or reset the      *)
(* connection: what it has not read is gone.                               *)

PeerSends ==
  /\ at \notin {"dead", "closed"} /\ ~eof /\ reset = "no"
  /\ Len(readBuffer.buffer_) <= MaxRead
  /\ \E n \in 1..(MaxIn - readableBytes(readBuffer) - Len(inSock)) : \E s \in [1..n -> Byte] :
       /\ inSock' = inSock \o s
       /\ due' = IF filled THEN due ELSE due \o s
  /\ ArmIf("in" \in events)
  /\ UNCHANGED <<readBuffer, filled, writeVars, mode_, events, peerVars, at, timer, reset, shut>>

PeerCloses ==
  /\ at \notin {"dead", "closed"} /\ ~eof /\ reset = "no"
  /\ eof' = TRUE
  /\ ArmIf("in" \in events)
  /\ UNCHANGED <<readVars, writeVars, mode_, events, received, at, timer, reset, shut>>

PeerReads ==
  /\ outSock # <<>>
  /\ outSock' = Tail(outSock)
  /\ received' = Append(received, Head(outSock))
  /\ ArmIf(nospace /\ "out" \in events)
  /\ nospace' = FALSE
  /\ UNCHANGED <<readVars, writeBuffer, handed, sending, regrown, mode_, events, eof, at,
                 timer, reset, shut>>

PeerResets ==
  /\ at \notin {"dead", "closed"} /\ reset = "no"
  /\ reset' = "error"
  /\ outSock' = <<>> /\ nospace' = FALSE
  /\ ArmIf(events # {})
  /\ UNCHANGED <<readVars, writeBuffer, handed, sending, regrown, mode_, events, peerVars, at,
                 timer, shut>>
-----------------------------------------------------------------------------
IOStep ==
  \/ ConnectEstablished \/ HandleEvent
  \/ ReadBytes \/ ReadAgain \/ ReadError \/ HandleClose \/ OnMessage
  \/ Send \/ AppendResizes \/ AppendCopies \/ SendReturns \/ ShutdownWrite
  \/ HandleWriteLT \/ HandleWriteET \/ WriteError
  \/ BrokenPipe \/ ResizeCrashes

Next ==
  \/ IOStep
  \/ TimerTests \/ TimerShutsDown
  \/ PeerSends \/ PeerCloses \/ PeerReads \/ PeerResets

Spec == Init /\ [][Next]_vars

\* The I/O thread runs, and the peer reads what reaches it.
FairSpec == Spec /\ WF_vars(IOStep) /\ WF_vars(PeerReads)
-----------------------------------------------------------------------------
Bytes(n) == [i \in 1..n |-> i]

\* Edge-triggered, the error of a reset has been added to the index: the only
\* thing that follows is handleClose().
Spoilt == mode_ = 2 /\ reset = "read"

BufferOK(b, byte) ==
  /\ b \in [buffer_ : Seq(byte), readIndex_ : Nat, writeIndex_ : Nat]
  /\ b.readIndex_ <= b.writeIndex_ /\ b.writeIndex_ <= Len(b.buffer_)

\* The types; the indices of both buffers are in order and inside the vector.
TypeOK ==
  /\ mode_ \in Modes
  /\ BufferOK(IF Spoilt THEN addWriteIndex(readBuffer, 1) ELSE readBuffer, Byte \cup {0})
  /\ Spoilt => at \in {"read", "closed"}
  /\ BufferOK(writeBuffer, 0..MaxOut)
  /\ events \subseteq {"in", "out"}
  /\ at \in {"new", "poll", "read", "callback", "send", "append", "sent", "write", "closed", "dead"}
  /\ sending \in Seq(1..MaxOut) /\ (sending # <<>> => at \in {"send", "append", "dead"})
  /\ timer \in BOOLEAN /\ armed \in BOOLEAN /\ nospace \in BOOLEAN
  /\ inSock \in Seq(Byte) /\ outSock \in Seq(0..MaxOut) /\ Len(outSock) <= SockSize
  /\ eof \in BOOLEAN /\ received \in Seq(0..MaxOut)
  /\ reset \in {"no", "error", "read", "written"} /\ shut \in BOOLEAN
  /\ due \in Seq(Byte) /\ handed \in 0..MaxOut
  /\ filled \in BOOLEAN /\ regrown \in BOOLEAN

\* read() is never given a length of 0, so that its 0 is an end of file and
\* a connection is closed only if its peer has closed or reset it.
RoomToRead ==
  /\ at = "read" => writableBytes(readBuffer) > 0
  /\ at = "closed" => eof \/ reset # "no"

\* The bytes in readBuffer and in the socket are those the peer has sent
\* and readCallback_ has not retrieved, in order, whatever it leaves for
\* later, as long as no read() has filled readBuffer.
InputIntact == ~filled /\ ~Spoilt => Readable(readBuffer) \o inSock = due

\* The bytes the peer has got, in the socket, in writeBuffer and in the hands
\* of send() are those handed to send(), in order, as long as writeBuffer was
\* only resized with its readIndex_ at 0 and the peer resets nothing.
OutputIntact ==
  ~regrown /\ reset = "no" =>
    received \o outSock \o Readable(writeBuffer) \o sending = Bytes(handed)

\* From some moment on there is unread input at every event, for ever.
InputNeverPauses ==
  []<><<HandleEvent>>_vars /\ <>[][HandleEvent => inSock # <<>>]_vars

Flows(n) ==
  (mode_ = 1 /\ handed >= n) ~> (Len(received) >= n \/ shut \/ at \in {"closed", "dead"})

\* Level-triggered, what was handed to send() gets to a peer that reads while
\* the write side is open; an end of file or a reset by the peer is noticed,
\* whatever is read, written and answered in between, and closes instead.
\* Channel::handleEvent() writes only if there is nothing to read: the peer
\* must not keep input ready at every event for ever.
OutputFlows == InputNeverPauses \/ \A n \in 1..MaxOut : Flows(n)

\* README.md:3 has the server send pictures and videos: a response gets to a
\* client that reads it, whatever its size.
ResponseReachesPeer ==
  \A n \in 1..MaxOut : (handed >= n) ~> (Len(received) >= n \/ eof \/ reset # "no")
=============================================================================
