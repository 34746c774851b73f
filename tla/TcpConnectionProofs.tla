------------------------ MODULE TcpConnectionProofs ------------------------
(***************************************************************************)
(* The data path of a connection for any sizes of the buffers and of the   *)
(* socket, and any lengths of requests and responses: the indices of both  *)
(* Buffers stay in order, read() always has room, and both streams arrive  *)
(* whole and in order.                                                     *)
(***************************************************************************)
EXTENDS TcpConnection, SequenceTheorems, TLAPS

Places ==
  {"new", "poll", "read", "callback", "send", "append", "sent", "write", "closed", "dead"}

\* Where everything is.
Control ==
  /\ mode_ \in Modes /\ events \subseteq {"in", "out"} /\ at \in Places
  /\ timer \in BOOLEAN /\ armed \in BOOLEAN /\ nospace \in BOOLEAN /\ eof \in BOOLEAN
  /\ reset \in {"no", "error", "read", "written"} /\ shut \in BOOLEAN

\* The -1 of an edge-triggered read() that failed is in writeIndex_ until
\* the next one, which finds the end of file: nothing is left to read.
InputBuffer == IF Spoilt THEN addWriteIndex(readBuffer, 1) ELSE readBuffer

Input ==
  /\ BufferOK(InputBuffer, Byte \cup {0}) /\ writableBytes(InputBuffer) > 0
  /\ Spoilt => at \in {"read", "closed"} /\ inSock = <<>>
  /\ Spoilt => writableBytes(readBuffer) \in Nat \ {0}
  /\ inSock \in Seq(Byte) /\ due \in Seq(Byte)
  /\ filled \in BOOLEAN
  /\ at = "closed" => eof \/ reset # "no"
  /\ InputIntact

Output ==
  /\ BufferOK(writeBuffer, 0..MaxOut)
  /\ sending \in Seq(1..MaxOut) /\ (sending # <<>> => at \in {"send", "append", "dead"})
  /\ outSock \in Seq(0..MaxOut) /\ Len(outSock) <= SockSize
  /\ received \in Seq(0..MaxOut) /\ handed \in 0..MaxOut
  /\ regrown \in BOOLEAN
  /\ OutputIntact

\* The inductive invariant.  That a read() which fills the buffer doubles it
\* before the index is moved keeps room in it at all times, not only when
\* read() is called: this is what makes RoomToRead inductive.
IInv == Control /\ Input /\ Output

USE TcpConnectionAssumption
-----------------------------------------------------------------------------
(* Sequences.                                                              *)

\* What is taken from the front of a sequence and what is left.
LEMMA Split ==
  ASSUME NEW S, NEW s \in Seq(S), NEW n \in 0..Len(s)
  PROVE  /\ First(s, n) \in Seq(S) /\ Len(First(s, n)) = n
         /\ Rest(s, n) \in Seq(S) /\ Len(Rest(s, n)) = Len(s) - n
         /\ First(s, n) \o Rest(s, n) = s
  <1>1. Len(s) \in Nat /\ \A i \in 1..Len(s) : s[i] \in S
    BY ElementOfSeq
  <1>2. First(s, n) \in Seq(S) /\ Len(First(s, n)) = n
    BY <1>1, SubSeqProperties DEF First
  <1>3. Rest(s, n) \in Seq(S) /\ Len(Rest(s, n)) = Len(s) - n
    BY <1>1, SubSeqProperties DEF Rest
  <1>4. First(s, n) \o Rest(s, n) = s
    <2>1. 1 \in 1..(Len(s) + 1) /\ n \in (1 - 1)..Len(s) /\ Len(s) \in n..Len(s)
      BY <1>1
    <2>2. SubSeq(s, 1, n) \o SubSeq(s, n + 1, Len(s)) = SubSeq(s, 1, Len(s))
      BY <2>1, ConcatAdjacentSubSeq
    <2> QED BY <2>2, SubSeqFull DEF First, Rest
  <1> QED BY <1>2, <1>3, <1>4

\* The elements of the rest of a sequence.
LEMMA RestTells ==
  ASSUME NEW S, NEW s \in Seq(S), NEW n \in 0..Len(s)
  PROVE  /\ Rest(s, n) \in Seq(S) /\ Len(Rest(s, n)) = Len(s) - n
         /\ \A i \in 1..(Len(s) - n) : Rest(s, n)[i] = s[n + i]
  <1> DEFINE t == SubSeq(s, n + 1, Len(s))
  <1>1. Len(s) \in Nat /\ n + 1 \in Int /\ \A i \in (n + 1)..Len(s) : s[i] \in S
    BY ElementOfSeq
  <1>2. \A i \in 1..(Len(s) - (n + 1) + 1) : t[i] = s[n + 1 + i - 1]
    BY <1>1, SubSeqProperties
  <1> HIDE DEF t
  <1>3. \A i \in 1..(Len(s) - n) : i \in 1..(Len(s) - (n + 1) + 1) /\ n + 1 + i - 1 = n + i
    BY <1>1
  <1>4. \A i \in 1..(Len(s) - n) : t[i] = s[n + i]
    BY <1>2, <1>3
  <1> QED BY <1>4, Split DEF t, Rest

\* Concatenation is associative.
LEMMA Regrouping == \A S : \A x, y, z \in Seq(S) : (x \o y) \o z = x \o (y \o z)
  BY ConcatAssociative

\* The elements of a concatenation.
LEMMA Concatenated ==
  \A S : \A t, s \in Seq(S) :
    /\ t \o s \in Seq(S) /\ Len(t \o s) = Len(t) + Len(s)
    /\ \A i \in 1..(Len(t) + Len(s)) :
         (t \o s)[i] = IF i <= Len(t) THEN t[i] ELSE s[i - Len(t)]
  BY ConcatProperties

\* The rest of a sequence is one, also of a sequence that is shorter.
LEMMA RestIsSeq ==
  ASSUME NEW S, NEW s \in Seq(S), NEW n \in Nat
  PROVE  Rest(s, n) \in Seq(S)
  <1>1. Len(s) \in Nat /\ \A i \in (n + 1)..Len(s) : s[i] \in S
    BY ElementOfSeq
  <1> QED BY <1>1, SubSeqProperties DEF Rest

\* What is taken from the front of a concatenation is taken from its first
\* part, if that has enough.
LEMMA RestOfConcatenation ==
  ASSUME NEW S, NEW s \in Seq(S), NEW t \in Seq(S), NEW n \in Nat, n <= Len(s)
  PROVE  Rest(s \o t, n) = Rest(s, n) \o t
  <1> DEFINE u == s \o t
             v == Rest(s, n)
             x == Rest(u, n)
             y == v \o t
  <1>1. /\ Len(s) \in Nat /\ Len(t) \in Nat /\ n \in 0..Len(s)
        /\ u \in Seq(S) /\ Len(u) = Len(s) + Len(t)
        /\ \A i \in 1..(Len(s) + Len(t)) :
             u[i] = IF i <= Len(s) THEN s[i] ELSE t[i - Len(s)]
    BY Concatenated
  <1>2. n \in 0..Len(u)
    BY <1>1
  <1>3. /\ v \in Seq(S) /\ Len(v) = Len(s) - n
        /\ \A i \in 1..(Len(s) - n) : v[i] = s[n + i]
    BY <1>1, RestTells
  <1> HIDE DEF u
  <1>4. /\ x \in Seq(S) /\ Len(x) = Len(u) - n
        /\ \A i \in 1..(Len(u) - n) : x[i] = u[n + i]
    <2>1. u \in Seq(S)
      BY <1>1
    <2> HIDE DEF v
    <2> QED BY <1>2, <2>1, RestTells
  <1> HIDE DEF v, x
  <1>5. /\ y \in Seq(S) /\ Len(y) = Len(v) + Len(t)
        /\ \A i \in 1..(Len(v) + Len(t)) :
             y[i] = IF i <= Len(v) THEN v[i] ELSE t[i - Len(v)]
    <2>1. v \in Seq(S) /\ t \in Seq(S)
      BY <1>3
    <2> QED BY <2>1, Concatenated
  <1> HIDE DEF y
  <1>6. Len(x) = Len(y) /\ Len(x) = Len(s) + Len(t) - n
    BY <1>1, <1>3, <1>4, <1>5
  <1>7. ASSUME NEW i \in 1..Len(x) PROVE x[i] = y[i]
    <2>1. /\ i \in 1..(Len(u) - n) /\ n + i \in 1..(Len(s) + Len(t))
          /\ i \in 1..(Len(v) + Len(t))
      BY <1>1, <1>3, <1>6
    <2>2. x[i] = u[n + i]
      BY <1>4, <2>1
    <2>3. CASE i <= Len(v)
      <3>1. n + i <= Len(s) /\ i \in 1..(Len(s) - n)
        BY <1>1, <1>3, <2>1, <2>3
      <3> QED BY <1>1, <1>3, <1>5, <2>1, <2>2, <2>3, <3>1
    <2>4. CASE ~(i <= Len(v))
      <3>1. ~(n + i <= Len(s)) /\ n + i - Len(s) = i - Len(v)
        BY <1>1, <1>3, <2>1, <2>4
      <3>2. u[n + i] = t[n + i - Len(s)] /\ y[i] = t[i - Len(v)]
        BY <1>1, <1>5, <2>1, <2>4, <3>1
      <3> QED BY <2>2, <3>1, <3>2
    <2> QED BY <2>3, <2>4
  <1>8. x = y
    BY <1>4, <1>5, <1>6, <1>7, SeqEqual
  <1> QED BY <1>8 DEF u, v, x, y

\* Numbered bytes follow numbered bytes.
LEMMA BytesFollow ==
  ASSUME NEW m \in Nat, NEW n \in Nat
  PROVE  /\ [i \in 1..n |-> m + i] \in Seq(1..(m + n))
         /\ Len([i \in 1..n |-> m + i]) = n
         /\ Bytes(m) \o [i \in 1..n |-> m + i] = Bytes(m + n)
  <1> DEFINE t == [i \in 1..n |-> m + i]
  <1>1. t \in Seq(1..(m + n)) /\ Len(t) = n
    OBVIOUS
  <1>2. Bytes(m) \in Seq(1..(m + n)) /\ Len(Bytes(m)) = m
    BY DEF Bytes
  <1>3. Bytes(m + n) \in Seq(1..(m + n)) /\ Len(Bytes(m + n)) = m + n
    BY DEF Bytes
  <1>4. Bytes(m) \o t \in Seq(1..(m + n)) /\ Len(Bytes(m) \o t) = m + n
    BY <1>1, <1>2, ConcatProperties
  <1>5. \A i \in 1..(m + n) : (Bytes(m) \o t)[i] = i
    <2>1. \A i \in 1..(m + n) :
            (Bytes(m) \o t)[i] = IF i <= m THEN Bytes(m)[i] ELSE t[i - m]
      BY <1>1, <1>2, ConcatProperties
    <2> QED BY <2>1 DEF Bytes
  <1>6. \A i \in 1..(m + n) : Bytes(m + n)[i] = i
    BY DEF Bytes
  <1>7. Bytes(m) \o t = Bytes(m + n)
    BY <1>3, <1>4, <1>5, <1>6, SeqEqual
  <1> QED BY <1>1, <1>7
-----------------------------------------------------------------------------
(* The operations of Buffer.                                               *)

\* A Buffer of given parts, and the operations as such.
Buf(v, r, w) == [buffer_ |-> v, readIndex_ |-> r, writeIndex_ |-> w]

\* The parts of a Buffer that is given by its parts.
LEMMA Parts ==
  \A v, r, w : Buf(v, r, w).buffer_ = v /\ Buf(v, r, w).readIndex_ = r
               /\ Buf(v, r, w).writeIndex_ = w
  BY DEF Buf

Records(S) == [buffer_ : S, readIndex_ : Int, writeIndex_ : Int]

\* A Buffer with one part changed, part by part.
LEMMA Updated ==
  ASSUME NEW S, NEW b \in Records(S), NEW x
  PROVE  /\ [b EXCEPT !.buffer_ = x] = Buf(x, b.readIndex_, b.writeIndex_)
         /\ [b EXCEPT !.readIndex_ = x] = Buf(b.buffer_, x, b.writeIndex_)
         /\ [b EXCEPT !.writeIndex_ = x] = Buf(b.buffer_, b.readIndex_, x)
  <1>1. [b EXCEPT !.buffer_ = x] = Buf(x, b.readIndex_, b.writeIndex_)
    BY DEF Buf, Records
  <1>2. [b EXCEPT !.readIndex_ = x] = Buf(b.buffer_, x, b.writeIndex_)
    BY DEF Buf, Records
  <1>3. [b EXCEPT !.writeIndex_ = x] = Buf(b.buffer_, b.readIndex_, x)
    BY DEF Buf, Records
  <1> QED BY <1>1, <1>2, <1>3

\* A Buffer is its parts, also when the indices are reset.
LEMMA Operations ==
  ASSUME NEW S, NEW b \in Records(S)
  PROVE  /\ b = Buf(b.buffer_, b.readIndex_, b.writeIndex_)
         /\ [b EXCEPT !.readIndex_ = 0, !.writeIndex_ = 0] = Buf(b.buffer_, 0, 0)
  <1>1. b = Buf(b.buffer_, b.readIndex_, b.writeIndex_)
    BY DEF Buf, Records
  <1>2. [b EXCEPT !.readIndex_ = 0, !.writeIndex_ = 0] = Buf(b.buffer_, 0, 0)
    <2> DEFINE d == [b EXCEPT !.readIndex_ = 0]
    <2>1. d = Buf(b.buffer_, 0, b.writeIndex_)
      BY Updated
    <2>2. d \in Records(S)
      BY <2>1 DEF Buf, Records
    <2> HIDE DEF d
    <2>3. [d EXCEPT !.writeIndex_ = 0] = Buf(d.buffer_, d.readIndex_, 0)
      BY <2>2, Updated
    <2> QED BY <2>1, <2>3, Parts DEF d
  <1> QED BY <1>1, <1>2

\* The indices moved by n.
LEMMA Moved ==
  ASSUME NEW S, NEW b \in Records(S), NEW n
  PROVE  /\ addWriteIndex(b, n) = Buf(b.buffer_, b.readIndex_, b.writeIndex_ + n)
         /\ addReadIndex(b, n) = Buf(b.buffer_, b.readIndex_ + n, b.writeIndex_)
  BY Updated DEF addWriteIndex, addReadIndex

\* A Buffer in order is a record of its parts.
LEMMA BufferIsRecord ==
  ASSUME NEW S, NEW b, BufferOK(b, S)
  PROVE  b \in Records(Seq(S))
  BY DEF BufferOK, Records

\* What the room and the readable bytes of a Buffer are.
LEMMA BufTells ==
  ASSUME NEW S, NEW v \in Seq(S), NEW r \in Nat, NEW w \in Nat, r <= w, w <= Len(v)
  PROVE  /\ BufferOK(Buf(v, r, w), S)
         /\ readableBytes(Buf(v, r, w)) = w - r /\ writableBytes(Buf(v, r, w)) = Len(v) - w
  BY DEF BufferOK, Buf, readableBytes, writableBytes

\* What is readable is as long as the indices say.
LEMMA ReadableTells ==
  ASSUME NEW S, NEW b, BufferOK(b, S)
  PROVE  /\ readableBytes(b) \in Nat /\ writableBytes(b) \in Nat
         /\ Readable(b) \in Seq(S) /\ Len(Readable(b)) = readableBytes(b)
         /\ \A i \in 1..readableBytes(b) : Readable(b)[i] = b.buffer_[b.readIndex_ + i]
         /\ readableBytes(b) = 0 => Readable(b) = <<>>
  <1>1. /\ b.buffer_ \in Seq(S) /\ b.readIndex_ \in Nat /\ b.writeIndex_ \in Nat
        /\ b.readIndex_ <= b.writeIndex_ /\ b.writeIndex_ <= Len(b.buffer_)
        /\ Len(b.buffer_) \in Nat /\ \A i \in 1..Len(b.buffer_) : b.buffer_[i] \in S
    BY ElementOfSeq DEF BufferOK
  <1>2. readableBytes(b) \in Nat /\ writableBytes(b) \in Nat
    BY <1>1 DEF readableBytes, writableBytes
  <1>3. /\ Readable(b) \in Seq(S)
        /\ Len(Readable(b)) = readableBytes(b)
        /\ \A i \in 1..readableBytes(b) : Readable(b)[i] = b.buffer_[b.readIndex_ + i]
    <2> DEFINE m == b.readIndex_ + 1  n == b.writeIndex_
    <2>1. m \in Int /\ n \in Int /\ \A i \in m..n : b.buffer_[i] \in S
      BY <1>1
    <2>2. /\ SubSeq(b.buffer_, m, n) \in Seq(S)
          /\ Len(SubSeq(b.buffer_, m, n)) = IF m <= n THEN n - m + 1 ELSE 0
          /\ \A i \in 1..(n - m + 1) : SubSeq(b.buffer_, m, n)[i] = b.buffer_[m + i - 1]
      BY <2>1, SubSeqProperties
    <2>3. /\ readableBytes(b) = n - m + 1 /\ readableBytes(b) = IF m <= n THEN n - m + 1 ELSE 0
          /\ \A i \in 1..readableBytes(b) : m + i - 1 = b.readIndex_ + i
      BY <1>1 DEF readableBytes
    <2>4. Readable(b) = SubSeq(b.buffer_, m, n)
      BY DEF Readable
    <2> HIDE DEF m, n
    <2> QED BY <2>2, <2>3, <2>4
  <1>4. readableBytes(b) = 0 => Readable(b) = <<>>
    BY <1>3, EmptySeq
  <1> QED BY <1>2, <1>3, <1>4

\* A new Buffer is empty and has room.
LEMMA NewBufferTells ==
  ASSUME NEW S, 0 \in S, NEW size \in Nat \ {0}
  PROVE  /\ BufferOK(NewBuffer(size), S)
         /\ Readable(NewBuffer(size)) = <<>> /\ writableBytes(NewBuffer(size)) > 0
  <1> DEFINE b == NewBuffer(size)
  <1>1. /\ b = [buffer_ |-> [i \in 1..size |-> 0], readIndex_ |-> 0, writeIndex_ |-> 0]
        /\ [i \in 1..size |-> 0] \in Seq(S) /\ Len([i \in 1..size |-> 0]) = size
    BY DEF NewBuffer
  <1>2. BufferOK(b, S) /\ readableBytes(b) = 0 /\ writableBytes(b) > 0
    BY <1>1 DEF BufferOK, readableBytes, writableBytes
  <1> QED BY <1>2, ReadableTells

\* Bytes copied into the room there is are readable after those that were.
LEMMA CopyInTells ==
  ASSUME NEW S, NEW b, BufferOK(b, S), NEW s \in Seq(S), Len(s) <= writableBytes(b)
  PROVE  LET c == addWriteIndex(CopyIn(b, s), Len(s))
         IN  /\ BufferOK(CopyIn(b, s), S) /\ writableBytes(CopyIn(b, s)) = writableBytes(b)
             /\ BufferOK(c, S) /\ writableBytes(c) = writableBytes(b) - Len(s)
             /\ Readable(c) = Readable(b) \o s
  <1> DEFINE r == b.readIndex_
             w == b.writeIndex_
             d == CopyIn(b, s)
             c == addWriteIndex(d, Len(s))
             v == [i \in 1..Len(b.buffer_) |->
                     IF i \in (w + 1)..(w + Len(s)) THEN s[i - w] ELSE b.buffer_[i]]
  <1>1. /\ b \in [buffer_ : Seq(S), readIndex_ : Nat, writeIndex_ : Nat]
        /\ b.buffer_ \in Seq(S) /\ r \in Nat /\ w \in Nat
        /\ r <= w /\ w <= Len(b.buffer_) /\ Len(b.buffer_) \in Nat /\ Len(s) \in Nat
        /\ w + Len(s) <= Len(b.buffer_)
        /\ readableBytes(b) = w - r /\ writableBytes(b) = Len(b.buffer_) - w
        /\ \A i \in 1..Len(b.buffer_) : b.buffer_[i] \in S
        /\ \A i \in 1..Len(s) : s[i] \in S
    BY ElementOfSeq DEF BufferOK, writableBytes, readableBytes
  <1>2. /\ v \in Seq(S) /\ Len(v) = Len(b.buffer_)
        /\ \A i \in 1..Len(b.buffer_) :
             v[i] = IF i \in (w + 1)..(w + Len(s)) THEN s[i - w] ELSE b.buffer_[i]
    <2>1. \A i \in 1..Len(b.buffer_) :
            (IF i \in (w + 1)..(w + Len(s)) THEN s[i - w] ELSE b.buffer_[i]) \in S
      BY <1>1
    <2> HIDE DEF w
    <2> QED BY <1>1, <2>1
  <1>3. d = [b EXCEPT !.buffer_ = v]
    BY DEF CopyIn
  <1> HIDE DEF v, c, d
  <1>4. d = Buf(v, r, w)
    BY <1>3, BufferIsRecord, Updated DEF r, w
  <1>5. c = Buf(v, r, w + Len(s))
    <2>1. d \in Records(Seq(S))
      BY <1>1, <1>2, <1>4 DEF Buf, Records
    <2>2. c = addWriteIndex(d, Len(s))
      BY DEF c
    <2>3. c = Buf(d.buffer_, d.readIndex_, d.writeIndex_ + Len(s))
      BY <2>1, <2>2, Moved
    <2>4. d.buffer_ = v /\ d.readIndex_ = r /\ d.writeIndex_ = w
      BY <1>4, Parts
    <2> QED BY <2>3, <2>4
  <1> HIDE DEF r, w
  <1>6. /\ BufferOK(d, S) /\ writableBytes(d) = writableBytes(b)
        /\ BufferOK(c, S) /\ writableBytes(c) = writableBytes(b) - Len(s)
        /\ readableBytes(c) = (w - r) + Len(s)
    <2> v \in Seq(S) /\ r \in Nat /\ w \in Nat /\ r <= w /\ w <= Len(v)
      BY <1>1, <1>2
    <2>1. BufferOK(d, S) /\ writableBytes(d) = Len(v) - w
      BY <1>4, BufTells
    <2>2. w + Len(s) \in Nat /\ r <= w + Len(s) /\ w + Len(s) <= Len(v)
      BY <1>1, <1>2
    <2>3. /\ BufferOK(c, S) /\ writableBytes(c) = Len(v) - (w + Len(s))
          /\ readableBytes(c) = w + Len(s) - r
      BY <1>5, <2>2, BufTells
    <2> QED BY <1>1, <1>2, <2>1, <2>3
  <1>7. Readable(c) = Readable(b) \o s
    <2> DEFINE t == Readable(b)
    <2>1. /\ t \in Seq(S) /\ Len(t) = readableBytes(b)
          /\ \A i \in 1..readableBytes(b) : t[i] = b.buffer_[r + i]
      BY ReadableTells DEF r
    <2>2. /\ Readable(c) \in Seq(S) /\ Len(Readable(c)) = readableBytes(c)
          /\ \A i \in 1..readableBytes(c) : Readable(c)[i] = v[r + i]
      <3>1. c.buffer_ = v /\ c.readIndex_ = r
        BY <1>5, Parts
      <3> QED BY <1>6, <3>1, ReadableTells
    <2> HIDE DEF t
    <2>3. /\ t \o s \in Seq(S) /\ Len(t \o s) = Len(t) + Len(s)
          /\ \A i \in 1..(Len(t) + Len(s)) :
               (t \o s)[i] = IF i <= Len(t) THEN t[i] ELSE s[i - Len(t)]
      <3>1. t \in Seq(S) /\ s \in Seq(S)
        BY <2>1
      <3> QED BY <3>1, Concatenated
    <2>4. readableBytes(c) = Len(t) + Len(s) /\ w = r + Len(t) /\ Len(t) \in Nat
      BY <1>1, <1>6, <2>1
    <2>5. ASSUME NEW i \in 1..(Len(t) + Len(s)) PROVE Readable(c)[i] = (t \o s)[i]
      <3>1. Readable(c)[i] = v[r + i] /\ r + i \in 1..Len(b.buffer_)
        BY <1>1, <2>2, <2>4
      <3>2. CASE i <= Len(t)
        <4>1. r + i \notin (w + 1)..(w + Len(s)) /\ i \in 1..readableBytes(b)
          BY <1>1, <2>1, <2>4, <3>2
        <4>2. v[r + i] = b.buffer_[r + i]
          BY <1>2, <3>1, <4>1
        <4> QED BY <2>1, <2>3, <3>1, <3>2, <4>1, <4>2
      <3>3. CASE ~(i <= Len(t))
        <4>1. PICK k \in 1..Len(b.buffer_) : k = r + i
          BY <3>1
        <4>2. k \in (w + 1)..(w + Len(s)) /\ k - w = i - Len(t)
          BY <1>1, <2>4, <3>3, <4>1
        <4>3. v[k] = s[k - w]
          BY <1>2, <4>2
        <4> QED BY <2>3, <3>1, <3>3, <4>1, <4>2, <4>3
      <3> QED BY <3>2, <3>3
    <2>6. Readable(c) = t \o s
      BY <2>2, <2>3, <2>4, <2>5, SeqEqual
    <2> QED BY <2>6 DEF t
  <1> QED BY <1>6, <1>7 DEF c, d

\* The write index moves into the room there is.
LEMMA AddWriteIndexTells ==
  ASSUME NEW S, NEW b, BufferOK(b, S), NEW n \in Nat, n <= writableBytes(b)
  PROVE  /\ BufferOK(addWriteIndex(b, n), S)
         /\ writableBytes(addWriteIndex(b, n)) = writableBytes(b) - n
  <1> DEFINE v == b.buffer_  r == b.readIndex_  w == b.writeIndex_
  <1>1. addWriteIndex(b, n) = Buf(v, r, w + n)
    BY BufferIsRecord, Moved
  <1>2. /\ v \in Seq(S) /\ r \in Nat /\ w + n \in Nat /\ r <= w + n /\ w + n <= Len(v)
        /\ writableBytes(b) = Len(v) - w /\ w \in Nat /\ Len(v) \in Nat
    BY DEF BufferOK, writableBytes
  <1> HIDE DEF v, r, w
  <1>3. BufferOK(Buf(v, r, w + n), S) /\ writableBytes(Buf(v, r, w + n)) = Len(v) - (w + n)
    BY <1>2, BufTells
  <1> QED BY <1>1, <1>2, <1>3

\* An index one short, and put right.
LEMMA SpoiltTells ==
  ASSUME NEW S, NEW b, BufferOK(b, S)
  PROVE  LET c == addWriteIndex(b, -1)
         IN  addWriteIndex(c, 1) = b /\ writableBytes(c) = writableBytes(b) + 1
  <1> DEFINE v == b.buffer_  r == b.readIndex_  w == b.writeIndex_
             c == addWriteIndex(b, -1)
  <1>1. c = Buf(v, r, w + (-1)) /\ b = Buf(v, r, w)
    <2>1. b \in Records(Seq(S))
      BY BufferIsRecord
    <2> DEFINE m == -1
    <2> HIDE DEF m
    <2>2. addWriteIndex(b, m) = Buf(v, r, w + m)
      BY <2>1, Moved
    <2> QED BY <2>1, <2>2, Operations DEF m
  <1>2. v \in Seq(S) /\ r \in Int /\ w \in Int /\ Len(v) \in Nat
    BY DEF BufferOK
  <1> HIDE DEF v, r, w, c
  <1>3. c \in Records(Seq(S)) /\ c.buffer_ = v /\ c.readIndex_ = r /\ c.writeIndex_ = w + (-1)
    BY <1>1, <1>2 DEF Buf, Records
  <1>4. addWriteIndex(c, 1) = Buf(c.buffer_, c.readIndex_, c.writeIndex_ + 1)
    BY <1>3, Moved
  <1>5. addWriteIndex(c, 1) = b
    <2>1. w + (-1) + 1 = w
      BY <1>2
    <2> QED BY <1>1, <1>3, <1>4, <2>1
  <1>6. writableBytes(c) = Len(v) - (w + (-1)) /\ writableBytes(b) = Len(v) - w
    BY <1>3 DEF writableBytes, v, w
  <1> QED BY <1>2, <1>5, <1>6 DEF c

\* resize() makes room, and copies what is readable if readIndex_ is 0.
LEMMA ResizeTells ==
  ASSUME NEW S, 0 \in S, NEW b, BufferOK(b, S)
  PROVE  /\ BufferOK(resize(b), S)
         /\ resize(b).readIndex_ = b.readIndex_ /\ resize(b).writeIndex_ = b.writeIndex_
         /\ Len(resize(b).buffer_) = 2 * Len(b.buffer_)
         /\ writableBytes(resize(b)) = writableBytes(b) + Len(b.buffer_)
         /\ b.readIndex_ = 0 => Readable(resize(b)) = Readable(b)
  <1> DEFINE r == b.readIndex_
             w == b.writeIndex_
             d == resize(b)
             v == [i \in 1..(2 * Len(b.buffer_)) |->
                     IF i <= readableBytes(b) - r THEN b.buffer_[r + i] ELSE 0]
  <1>1. /\ b \in [buffer_ : Seq(S), readIndex_ : Nat, writeIndex_ : Nat]
        /\ b.buffer_ \in Seq(S) /\ r \in Nat /\ w \in Nat
        /\ r <= w /\ w <= Len(b.buffer_) /\ Len(b.buffer_) \in Nat
        /\ readableBytes(b) = w - r /\ writableBytes(b) = Len(b.buffer_) - w
        /\ \A i : b.readIndex_ + i = r + i
        /\ \A i \in 1..Len(b.buffer_) : b.buffer_[i] \in S
    BY ElementOfSeq DEF BufferOK, readableBytes, writableBytes
  <1>2. /\ v \in Seq(S) /\ Len(v) = 2 * Len(b.buffer_)
        /\ \A i \in 1..(2 * Len(b.buffer_)) :
             v[i] = IF i <= readableBytes(b) - r THEN b.buffer_[r + i] ELSE 0
    <2>1. \A i \in 1..(2 * Len(b.buffer_)) :
            (IF i <= readableBytes(b) - r THEN b.buffer_[r + i] ELSE 0) \in S
      BY <1>1
    <2> HIDE DEF r
    <2> QED BY <1>1, <2>1
  <1>3. d = [b EXCEPT !.buffer_ = v]
    BY DEF resize
  <1> HIDE DEF v, d
  <1>4. d = Buf(v, r, w)
    BY <1>3, BufferIsRecord, Updated DEF r, w
  <1> HIDE DEF r, w
  <1>6. d.buffer_ = v /\ d.readIndex_ = r /\ d.writeIndex_ = w
    BY <1>4, Parts
  <1>7. /\ BufferOK(d, S) /\ writableBytes(d) = writableBytes(b) + Len(b.buffer_)
        /\ readableBytes(d) = w - r
    <2>1. v \in Seq(S) /\ r \in Nat /\ w \in Nat /\ r <= w /\ w <= Len(v)
      BY <1>1, <1>2
    <2>2. /\ BufferOK(d, S) /\ writableBytes(d) = Len(v) - w
          /\ readableBytes(d) = w - r
      BY <1>4, <2>1, BufTells
    <2> QED BY <1>1, <1>2, <2>2
  <1>8. ASSUME r = 0 PROVE Readable(d) = Readable(b)
    <2>1. /\ Readable(b) \in Seq(S) /\ Len(Readable(b)) = w
          /\ \A i \in 1..w : Readable(b)[i] = b.buffer_[i]
      BY <1>1, <1>8, ReadableTells
    <2>2. /\ Readable(d) \in Seq(S) /\ Len(Readable(d)) = w
          /\ \A i \in 1..w : Readable(d)[i] = v[i]
      <3>1. w - r = w /\ \A i \in 1..w : r + i = i
        BY <1>1, <1>8
      <3> QED BY <1>6, <1>7, <3>1, ReadableTells
    <2>3. \A i \in 1..w : v[i] = b.buffer_[i]
      <3>1. \A i \in 1..w : i \in 1..(2 * Len(b.buffer_)) /\ i <= w - r /\ r + i = i
        BY <1>1, <1>8
      <3> QED BY <1>1, <1>2, <3>1
    <2> QED BY <2>1, <2>2, <2>3, SeqEqual
  <1> QED BY <1>2, <1>6, <1>7, <1>8 DEF d, r, w

\* An index moved over n readable bytes leaves the others.
LEMMA AddReadIndexTells ==
  ASSUME NEW S, NEW b, BufferOK(b, S), NEW n \in 0..readableBytes(b)
  PROVE  LET c == addReadIndex(b, n)
         IN  /\ BufferOK(c, S) /\ writableBytes(c) = writableBytes(b)
             /\ c.buffer_ = b.buffer_ /\ readableBytes(c) = readableBytes(b) - n
             /\ Readable(c) = Rest(Readable(b), n)
  <1> DEFINE r == b.readIndex_
             w == b.writeIndex_
             c == addReadIndex(b, n)
  <1>1. /\ b \in [buffer_ : Seq(S), readIndex_ : Nat, writeIndex_ : Nat]
        /\ b.buffer_ \in Seq(S) /\ r \in Nat /\ w \in Nat
        /\ r <= w /\ w <= Len(b.buffer_) /\ Len(b.buffer_) \in Nat
        /\ readableBytes(b) = w - r /\ writableBytes(b) = Len(b.buffer_) - w
        /\ n \in 0..(w - r)
    BY DEF BufferOK, readableBytes, writableBytes
  <1>2. c = Buf(b.buffer_, r + n, w)
    BY BufferIsRecord, Moved
  <1> HIDE DEF c, r, w
  <1>5. c.buffer_ = b.buffer_ /\ c.readIndex_ = r + n
    BY <1>2, Parts
  <1>3. /\ BufferOK(c, S) /\ writableBytes(c) = writableBytes(b)
        /\ readableBytes(c) = (w - r) - n
    <2>1. /\ b.buffer_ \in Seq(S) /\ w \in Nat /\ w <= Len(b.buffer_)
          /\ r + n \in Nat /\ r + n <= w
      BY <1>1
    <2>2. /\ BufferOK(c, S) /\ writableBytes(c) = Len(b.buffer_) - w
          /\ readableBytes(c) = w - (r + n)
      BY <1>2, <2>1, BufTells
    <2> QED BY <1>1, <2>2
  <1>4. Readable(c) = Rest(Readable(b), n)
    <2> DEFINE t == Readable(b)
    <2>1. /\ t \in Seq(S) /\ Len(t) = readableBytes(b)
          /\ \A i \in 1..readableBytes(b) : t[i] = b.buffer_[r + i]
      BY ReadableTells DEF r
    <2>2. /\ Readable(c) \in Seq(S) /\ Len(Readable(c)) = readableBytes(c)
          /\ \A i \in 1..readableBytes(c) : Readable(c)[i] = b.buffer_[r + n + i]
      BY <1>3, <1>5, ReadableTells
    <2> HIDE DEF t
    <2>3. Len(t) = w - r /\ readableBytes(c) = Len(t) - n /\ n \in 0..Len(t)
      BY <1>1, <1>3, <2>1
    <2>4. /\ Rest(t, n) \in Seq(S) /\ Len(Rest(t, n)) = Len(t) - n
          /\ \A i \in 1..(Len(t) - n) : Rest(t, n)[i] = t[n + i]
      <3>1. t \in Seq(S)
        BY <2>1
      <3>2. n \in 0..Len(t)
        BY <2>3
      <3> QED BY <3>1, <3>2, RestTells
    <2>5. ASSUME NEW i \in 1..(Len(t) - n) PROVE Readable(c)[i] = Rest(t, n)[i]
      <3>1. n + i \in 1..readableBytes(b) /\ r + (n + i) = r + n + i
        BY <1>1, <2>1, <2>3
      <3> QED BY <2>1, <2>2, <2>3, <2>4, <3>1
    <2>6. Readable(c) = Rest(t, n)
      BY <2>2, <2>3, <2>4, <2>5, SeqEqual
    <2> QED BY <2>6 DEF t
  <1> QED BY <1>1, <1>3, <1>4, <1>5 DEF c

\* retrieveLen() of bytes that are there: the room does not shrink.
LEMMA RetrieveTells ==
  ASSUME NEW S, NEW b, BufferOK(b, S), NEW n \in 0..readableBytes(b)
  PROVE  LET c == retrieveLen(b, n)
         IN  /\ BufferOK(c, S) /\ writableBytes(c) >= writableBytes(b)
             /\ Readable(c) = Rest(Readable(b), n)
  <1> DEFINE d == addReadIndex(b, n)
             c == retrieveLen(b, n)
             z == [d EXCEPT !.readIndex_ = 0, !.writeIndex_ = 0]
  <1>1. /\ BufferOK(d, S) /\ writableBytes(d) = writableBytes(b)
        /\ Readable(d) = Rest(Readable(b), n)
    BY AddReadIndexTells
  <1>2. readableBytes(b) \in Nat /\ (IF n < readableBytes(b) THEN n ELSE readableBytes(b)) = n
    BY ReadableTells
  <1>3. c = IF d.readIndex_ = d.writeIndex_ THEN z ELSE d
    BY <1>2 DEF retrieveLen
  <1> HIDE DEF c, d
  <1>4. CASE d.readIndex_ = d.writeIndex_
    <2>1. /\ BufferOK(z, S) /\ readableBytes(z) = 0 /\ readableBytes(d) = 0
          /\ writableBytes(z) >= writableBytes(d)
      <3>1. /\ d \in Records(Seq(S))
            /\ d.buffer_ \in Seq(S) /\ d.writeIndex_ \in Nat /\ Len(d.buffer_) \in Nat
            /\ readableBytes(d) = 0 /\ writableBytes(d) = Len(d.buffer_) - d.writeIndex_
        <4>1. BufferOK(d, S)
          BY <1>1
        <4>2. d \in Records(Seq(S))
          BY <4>1, BufferIsRecord
        <4>3. d.buffer_ \in Seq(S) /\ d.writeIndex_ \in Nat /\ Len(d.buffer_) \in Nat
          BY <4>1 DEF BufferOK
        <4>4. readableBytes(d) = 0 /\ writableBytes(d) = Len(d.buffer_) - d.writeIndex_
          BY <1>4, <4>3 DEF readableBytes, writableBytes
        <4> QED BY <4>2, <4>3, <4>4
      <3>2. z = Buf(d.buffer_, 0, 0)
        BY <3>1, Operations
      <3>3. /\ BufferOK(z, S) /\ readableBytes(z) = 0 - 0
            /\ writableBytes(z) = Len(d.buffer_) - 0
        <4> DEFINE v == d.buffer_
        <4>1. v \in Seq(S) /\ 0 \in Nat /\ 0 <= 0 /\ 0 <= Len(v)
          BY <3>1
        <4>2. z = Buf(v, 0, 0)
          BY <3>2
        <4> HIDE DEF v, z
        <4>3. /\ BufferOK(Buf(v, 0, 0), S) /\ readableBytes(Buf(v, 0, 0)) = 0 - 0
              /\ writableBytes(Buf(v, 0, 0)) = Len(v) - 0
          BY <4>1, BufTells
        <4> QED BY <4>2, <4>3 DEF v
      <3> QED BY <3>1, <3>3
    <2>2. Readable(z) = <<>> /\ Readable(d) = <<>>
      BY <1>1, <2>1, ReadableTells
    <2> QED BY <1>1, <1>3, <1>4, <2>1, <2>2 DEF c
  <1>5. CASE d.readIndex_ # d.writeIndex_
    <2>1. writableBytes(b) \in Nat
      BY ReadableTells
    <2> QED BY <1>1, <1>3, <1>5, <2>1 DEF c
  <1> QED BY <1>4, <1>5
-----------------------------------------------------------------------------
(* Steps that leave one of the streams alone.                              *)

LEMMA InputKept ==
  ASSUME Input, UNCHANGED <<readBuffer, inSock, due, filled, mode_>>,
         \/ reset' = reset
         \/ reset \notin {"read"} /\ reset' \in {"error", "written"},
         eof => eof',
         \/ at' = at
         \/ at \notin {"read", "closed"} /\ at' # "closed"
         \/ ~Spoilt /\ at' # "closed"
  PROVE  Input'
  <1>1. Spoilt' <=> Spoilt
    BY DEF Spoilt
  <1>2. InputBuffer' = InputBuffer
    BY <1>1 DEF InputBuffer, addWriteIndex
  <1>3. /\ BufferOK(InputBuffer', Byte \cup {0}) /\ writableBytes(InputBuffer') > 0
        /\ (Spoilt' => writableBytes(readBuffer') \in Nat \ {0})
    BY <1>1, <1>2 DEF Input
  <1>4. Spoilt' => at' \in {"read", "closed"} /\ inSock' = <<>>
    BY <1>1 DEF Input
  <1>5. InputIntact'
    BY <1>1 DEF Input, InputIntact, Readable
  <1>6. at' = "closed" => eof' \/ reset' # "no"
    BY DEF Input
  <1> QED BY <1>3, <1>4, <1>5, <1>6 DEF Input

\* A step that touches no byte of the response keeps what is said of it.
LEMMA OutputKept ==
  ASSUME Output, UNCHANGED <<writeBuffer, outSock, received, sending, handed, regrown>>,
         reset' = reset \/ reset' # "no",
         at' = at \/ sending = <<>> \/ at' = "dead"
  PROVE  Output'
  BY DEF Output, OutputIntact, Readable, BufferOK

\* A read() takes what there is, and what there is room for.
LEMMA ReadSizeTells ==
  /\ Input /\ ~Spoilt =>
       /\ ReadSize \in 0..Len(inSock) /\ ReadSize <= writableBytes(readBuffer)
       /\ readBuffer = InputBuffer
  /\ Input => (ReadSize > 0 => inSock # <<>>)
  <1> SUFFICES ASSUME Input
               PROVE  /\ ~Spoilt =>
                           /\ ReadSize \in 0..Len(inSock)
                           /\ ReadSize <= writableBytes(readBuffer)
                           /\ readBuffer = InputBuffer
                      /\ ReadSize > 0 => inSock # <<>>
    OBVIOUS
  <1>1. Len(inSock) \in Nat /\ (inSock = <<>> <=> Len(inSock) = 0)
    BY EmptySeq DEF Input
  <1>2. ~Spoilt => readBuffer = InputBuffer /\ writableBytes(readBuffer) \in Nat
    BY ReadableTells DEF Input, InputBuffer
  <1>3. ~Spoilt => ReadSize \in 0..Len(inSock) /\ ReadSize <= writableBytes(readBuffer)
    BY <1>1, <1>2 DEF ReadSize, Lesser
  <1>4. Spoilt => inSock = <<>> /\ writableBytes(readBuffer) \in Nat \ {0}
    BY DEF Input
  <1>5. Spoilt => ReadSize = 0
    BY <1>1, <1>4 DEF ReadSize, Lesser
  <1> QED BY <1>1, <1>2, <1>3, <1>5

\* The invariant holds initially.
LEMMA InitHolds == Init => IInv
  <1> SUFFICES ASSUME Init PROVE IInv
    OBVIOUS
  <1>1. 0 \in Byte \cup {0} /\ 0 \in 0..MaxOut /\ ~Spoilt
    BY DEF Init, Spoilt
  <1>2. /\ BufferOK(readBuffer, Byte \cup {0}) /\ Readable(readBuffer) = <<>>
        /\ writableBytes(readBuffer) > 0
    BY <1>1, NewBufferTells DEF Init
  <1>3. BufferOK(writeBuffer, 0..MaxOut) /\ Readable(writeBuffer) = <<>>
    BY <1>1, NewBufferTells DEF Init
  <1>4. Bytes(0) = <<>> /\ <<>> \o <<>> = <<>>
    BY DEF Bytes
  <1>5. Control
    BY DEF Init, Control, Places
  <1>6. Input
    <2>1. InputBuffer = readBuffer
      BY <1>1 DEF InputBuffer
    <2>2. inSock = <<>> /\ due = <<>> /\ at = "new" /\ filled = FALSE
      BY DEF Init
    <2>3. Readable(readBuffer) \o inSock = due
      BY <1>2, <1>4, <2>2
    <2>4. inSock \in Seq(Byte) /\ due \in Seq(Byte)
      BY <2>2
    <2> QED BY <1>1, <1>2, <2>1, <2>2, <2>3, <2>4 DEF Input, InputIntact
  <1>7. Output
    <2>1. /\ outSock = <<>> /\ received = <<>> /\ sending = <<>> /\ handed = 0
          /\ regrown = FALSE
      BY DEF Init
    <2>2. received \o outSock \o Readable(writeBuffer) \o sending = Bytes(handed)
      BY <1>3, <1>4, <2>1
    <2>3. /\ outSock \in Seq(0..MaxOut) /\ received \in Seq(0..MaxOut)
          /\ sending \in Seq(1..MaxOut) /\ Len(outSock) = 0
      BY <2>1
    <2>4. OutputIntact
      BY <2>2 DEF OutputIntact
    <2>5. Len(outSock) <= SockSize
      BY <2>3
    <2>6. handed \in 0..MaxOut /\ regrown \in BOOLEAN
      BY <1>1, <2>1
    <2> QED BY <1>3, <2>1, <2>3, <2>4, <2>5, <2>6 DEF Output
  <1> QED BY <1>5, <1>6, <1>7 DEF IInv

\* The steps of the loop, the timer and the peer that move no byte.
LEMMA QuietHolds ==
  ASSUME IInv,
         \/ ConnectEstablished \/ HandleEvent \/ ReadAgain \/ SendReturns \/ ShutdownWrite
         \/ WriteError \/ TimerTests \/ TimerShutsDown \/ PeerCloses
         \/ BrokenPipe \/ ResizeCrashes
  PROVE  IInv'
  <1>1. /\ UNCHANGED <<readBuffer, inSock, due, filled, writeBuffer, outSock, handed, sending>>
        /\ UNCHANGED <<regrown, nospace, received>>
    BY DEF ConnectEstablished, HandleEvent, ReadAgain, SendReturns, ShutdownWrite, WriteError,
           TimerTests, TimerShutsDown, PeerCloses, BrokenPipe, ResizeCrashes, Dies,
           readVars, writeVars, peerVars
  <1>9. UNCHANGED mode_ /\ (eof => eof')
    BY DEF ConnectEstablished, HandleEvent, ReadAgain, SendReturns, ShutdownWrite, WriteError,
           TimerTests, TimerShutsDown, PeerCloses, BrokenPipe, ResizeCrashes, Dies,
           epollVars, peerVars, UpdateInterest, IInv, Control
  <1>2. Control'
    <2>1. events' \subseteq {"in", "out"} /\ armed' \in BOOLEAN
      BY DEF IInv, Control, ConnectEstablished, HandleEvent, ReadAgain, SendReturns,
             ShutdownWrite, WriteError, TimerTests, TimerShutsDown, PeerCloses, BrokenPipe,
             ResizeCrashes, Dies, epollVars, UpdateInterest, ArmIf
    <2>2. at' \in Places
      BY DEF IInv, Control, Places, ConnectEstablished, HandleEvent, ReadAgain, SendReturns,
             ShutdownWrite, WriteError, TimerTests, TimerShutsDown, PeerCloses, BrokenPipe,
             ResizeCrashes, Dies
    <2>3. /\ timer' \in BOOLEAN /\ eof' \in BOOLEAN /\ shut' \in BOOLEAN
          /\ reset' \in {"no", "error", "read", "written"}
      BY DEF IInv, Control, ConnectEstablished, HandleEvent, ReadAgain, SendReturns,
             ShutdownWrite, WriteError, TimerTests, TimerShutsDown, PeerCloses, BrokenPipe,
             ResizeCrashes, Dies, peerVars
    <2> QED BY <1>1, <1>9, <2>1, <2>2, <2>3 DEF IInv, Control
  <1>3. /\ reset' = reset \/ (reset = "error" /\ reset' = "written")
        /\ at' = at \/ at' # "closed"
    BY DEF ConnectEstablished, HandleEvent, ReadAgain, SendReturns, ShutdownWrite, WriteError,
           TimerTests, TimerShutsDown, PeerCloses, BrokenPipe, ResizeCrashes, Dies
  <1>4. at' # at /\ at = "read" => ~Spoilt
    <2>1. ReadSize > 0 => inSock # <<>>
      BY ReadSizeTells DEF IInv
    <2> QED BY <2>1
        DEF ConnectEstablished, HandleEvent, ReadAgain, SendReturns, ShutdownWrite,
            WriteError, TimerTests, TimerShutsDown, PeerCloses, BrokenPipe, ResizeCrashes,
            Dies, Spoilt, IInv, Input
  <1>5. at' # at => at # "closed"
    BY DEF ConnectEstablished, HandleEvent, ReadAgain, SendReturns, ShutdownWrite, WriteError,
           TimerTests, TimerShutsDown, PeerCloses, BrokenPipe, ResizeCrashes, Dies
  <1>6. Input'
    BY <1>1, <1>3, <1>4, <1>5, <1>9, InputKept DEF IInv
  <1>7. at' = at \/ at' = "dead" \/ sending = <<>>
    BY DEF IInv, Output, ConnectEstablished, HandleEvent, ReadAgain, SendReturns,
           ShutdownWrite, WriteError, TimerTests, TimerShutsDown, PeerCloses, BrokenPipe,
           ResizeCrashes, Dies
  <1>8. Output'
    BY <1>1, <1>3, <1>7, OutputKept DEF IInv
  <1> QED BY <1>2, <1>6, <1>8 DEF IInv
-----------------------------------------------------------------------------
(* Reading.                                                                *)

\* A read() that fills the buffer finds it doubled for the next.
LEMMA ReadBytesHolds == IInv /\ ReadBytes => IInv'
  <1> SUFFICES ASSUME IInv, ReadBytes PROVE IInv'
    OBVIOUS
  <1> DEFINE D == Byte \cup {0}
             n == ReadSize
             F == First(inSock, n)
             T == Rest(inSock, n)
             b == readBuffer
             R == Readable(readBuffer)
             c == CopyIn(b, F)
  <1>1. inSock # <<>> /\ ~Spoilt /\ n > 0
    BY ReadSizeTells DEF IInv, Input, ReadBytes
  <1>2. /\ n \in 0..Len(inSock) /\ n <= writableBytes(b) /\ BufferOK(b, D)
        /\ writableBytes(b) > 0
    BY <1>1, ReadSizeTells DEF IInv, Input, InputBuffer
  <1>3. inSock \in Seq(D) /\ 0 \in D
    <2>1. Byte \subseteq D /\ 0 \in D /\ inSock \in Seq(Byte)
      BY DEF IInv, Input
    <2> QED BY <2>1, SeqMonotonic
  <1>4. F \in Seq(D) /\ Len(F) = n /\ T \in Seq(D) /\ F \o T = inSock
    BY <1>2, <1>3, Split
  <1>5. T \in Seq(Byte)
    <2>1. inSock \in Seq(Byte)
      BY DEF IInv, Input
    <2> QED BY <1>2, <2>1, Split
  <1>6. R \in Seq(D) /\ writableBytes(b) \in Nat
    BY <1>2, ReadableTells
  <1>7. /\ readBuffer' = addWriteIndex(Regrown(c), n) /\ inSock' = T
        /\ filled' = (filled \/ FillsBuffer) /\ due' = IF filled' THEN <<>> ELSE due
        /\ at' = IF mode_ = 1 THEN "callback" ELSE "read"
        /\ UNCHANGED <<mode_, reset, eof, events, timer, armed, nospace, shut>>
        /\ UNCHANGED <<writeBuffer, outSock, received, sending, handed, regrown>>
        /\ at = "read"
    BY DEF ReadBytes, writeVars, epollVars, peerVars
  <1>8. /\ BufferOK(c, D) /\ writableBytes(c) = writableBytes(b)
        /\ BufferOK(addWriteIndex(c, n), D) /\ writableBytes(addWriteIndex(c, n)) = writableBytes(b) - n
        /\ Readable(addWriteIndex(c, n)) = R \o F
    <2>1. Len(F) <= writableBytes(b)
      BY <1>2, <1>4
    <2>2. BufferOK(b, D) /\ F \in Seq(D) /\ Len(F) = n
      BY <1>2, <1>4
    <2> HIDE DEF D, F, n, b, R
    <2> QED BY <2>1, <2>2, CopyInTells DEF R, b
  <1>9. ASSUME FillsBuffer PROVE BufferOK(readBuffer', D) /\ writableBytes(readBuffer') > 0 /\ InputIntact'
    <2>1. Regrown(c) = resize(c) /\ n = writableBytes(b)
      BY <1>9 DEF Regrown, FillsBuffer
    <2>2. /\ BufferOK(resize(c), D)
          /\ resize(c).readIndex_ = c.readIndex_ /\ resize(c).writeIndex_ = c.writeIndex_
          /\ writableBytes(resize(c)) = writableBytes(c) + Len(c.buffer_)
      BY <1>3, <1>8, ResizeTells
    <2>3. Len(c.buffer_) \in Nat /\ Len(c.buffer_) >= writableBytes(c) /\ writableBytes(c) \in Nat
      BY <1>8 DEF BufferOK, writableBytes
    <2>4. n <= writableBytes(resize(c)) /\ n \in Nat
      BY <1>6, <1>8, <2>1, <2>2, <2>3
    <2>5. /\ BufferOK(addWriteIndex(resize(c), n), D)
          /\ writableBytes(addWriteIndex(resize(c), n)) = writableBytes(resize(c)) - n
      BY <2>2, <2>4, AddWriteIndexTells
    <2>6. BufferOK(readBuffer', D) /\ writableBytes(readBuffer') > 0
      BY <1>2, <1>6, <1>7, <1>8, <2>1, <2>2, <2>3, <2>5
    <2>7. InputIntact'
      BY <1>7, <1>9 DEF InputIntact
    <2> QED BY <2>6, <2>7
  <1>10. ASSUME ~FillsBuffer PROVE BufferOK(readBuffer', D) /\ writableBytes(readBuffer') > 0 /\ InputIntact'
    <2>1. Regrown(c) = c /\ n # writableBytes(b)
      BY <1>10 DEF Regrown, FillsBuffer
    <2>2. BufferOK(readBuffer', D) /\ writableBytes(readBuffer') > 0
      BY <1>2, <1>6, <1>7, <1>8, <2>1
    <2>3. Readable(readBuffer') = R \o F
      BY <1>7, <1>8, <2>1
    <2>4. (R \o F) \o T = R \o (F \o T)
      <3>1. R \in Seq(D) /\ F \in Seq(D) /\ T \in Seq(D)
        BY <1>3, <1>4, <1>6
      <3> HIDE DEF D, R, F, T
      <3> QED BY <3>1, Regrouping
    <2>5. Readable(readBuffer)' = R \o F
      BY <2>3 DEF Readable
    <2>6. ~filled => R \o inSock = due
      BY <1>1 DEF IInv, Input, InputIntact
    <2>7. ~filled' => (Readable(readBuffer) \o inSock)' = due'
      BY <1>4, <1>7, <2>4, <2>5, <2>6
    <2>8. InputIntact'
      BY <1>7, <2>7 DEF InputIntact
    <2> QED BY <2>2, <2>8
  <1>11. BufferOK(readBuffer', D) /\ writableBytes(readBuffer') > 0 /\ InputIntact'
    BY <1>9, <1>10
  <1>12. ~Spoilt' /\ InputBuffer' = readBuffer'
    BY <1>1, <1>7 DEF Spoilt, InputBuffer
  <1>13. Input'
    <2>1. due' \in Seq(Byte) /\ filled' \in BOOLEAN
      BY <1>7 DEF IInv, Input
    <2> QED BY <1>5, <1>7, <1>11, <1>12, <2>1 DEF IInv, Input
  <1>14. Output'
    <2>1. sending = <<>>
      BY <1>7 DEF IInv, Output
    <2> QED BY <1>7, <2>1, OutputKept DEF IInv
  <1>15. Control'
    BY <1>7 DEF IInv, Control, Places
  <1> QED BY <1>13, <1>14, <1>15 DEF IInv

\* The -1 of a failed read(): the index is one short until the next read(),
\* for which nothing can have arrived.
LEMMA ReadErrorHolds == IInv /\ ReadError => IInv'
  <1> SUFFICES ASSUME IInv, ReadError PROVE IInv'
    OBVIOUS
  <1>1. /\ at = "read" /\ reset = "error" /\ reset' = "read" /\ ~Spoilt
        /\ ReadSize = 0 /\ writableBytes(readBuffer) > 0
        /\ UNCHANGED <<due, filled, mode_, inSock, eof, events, timer, armed, nospace, shut>>
        /\ UNCHANGED <<writeBuffer, outSock, received, sending, handed, regrown>>
    BY DEF ReadError, writeVars, epollVars, peerVars, Spoilt
  <1>2. InputBuffer = readBuffer /\ BufferOK(readBuffer, Byte \cup {0})
    BY <1>1 DEF IInv, Input, InputBuffer
  <1>3. inSock = <<>>
    <2>1. Len(inSock) \in Nat /\ (inSock = <<>> <=> Len(inSock) = 0)
      BY EmptySeq DEF IInv, Input
    <2>2. writableBytes(readBuffer) \in Nat
      BY <1>2, ReadableTells
    <2> QED BY <1>1, <2>1, <2>2 DEF ReadSize, Lesser
  <1>4. Output'
    <2>1. sending = <<>>
      BY <1>1 DEF IInv, Output
    <2> QED BY <1>1, <2>1, OutputKept DEF IInv
  <1>5. CASE mode_ = 1
    <2>1. at' = "callback" /\ readBuffer' = readBuffer /\ ~Spoilt'
      BY <1>1, <1>5 DEF ReadError, Spoilt
    <2>2. InputBuffer' = readBuffer' /\ Readable(readBuffer)' = Readable(readBuffer)
      BY <2>1 DEF InputBuffer, Readable
    <2>3. InputIntact'
      BY <1>1, <2>1, <2>2 DEF IInv, Input, InputIntact
    <2>4. Input'
      BY <1>1, <1>2, <2>1, <2>2, <2>3 DEF IInv, Input
    <2>5. Control'
      BY <1>1, <2>1 DEF IInv, Control, Places
    <2> QED BY <1>4, <2>4, <2>5 DEF IInv
  <1>6. CASE mode_ # 1
    <2>1. /\ readBuffer' = addWriteIndex(readBuffer, -1) /\ at' = at
      BY <1>6 DEF ReadError
    <2>2. mode_ = 2 /\ Spoilt'
      BY <1>1, <1>6 DEF IInv, Control, Spoilt
    <2>3. /\ addWriteIndex(readBuffer', 1) = readBuffer
          /\ writableBytes(readBuffer') = writableBytes(readBuffer) + 1
      BY <1>2, <2>1, SpoiltTells
    <2>4. InputBuffer' = readBuffer
      BY <2>2, <2>3 DEF InputBuffer, addWriteIndex
    <2>5. writableBytes(readBuffer') \in Nat \ {0}
      BY <1>2, <2>3, ReadableTells
    <2>6. InputIntact'
      BY <2>2 DEF InputIntact
    <2>7. Input'
      BY <1>1, <1>2, <1>3, <2>1, <2>4, <2>5, <2>6 DEF IInv, Input
    <2>8. Control'
      BY <1>1, <2>1 DEF IInv, Control
    <2> QED BY <1>4, <2>7, <2>8 DEF IInv
  <1> QED BY <1>5, <1>6

\* A read() that returns 0 had room: its 0 is the end of file.
LEMMA HandleCloseHolds == IInv /\ HandleClose => IInv'
  <1> SUFFICES ASSUME IInv, HandleClose PROVE IInv'
    OBVIOUS
  <1>1. /\ at = "read" /\ at' = "closed" /\ sending = <<>>
        /\ UNCHANGED <<readBuffer, due, filled, mode_, inSock, eof, reset>>
        /\ UNCHANGED <<events, timer, armed, nospace, shut>>
        /\ UNCHANGED <<writeBuffer, outSock, received, sending, handed, regrown>>
    BY DEF HandleClose, readVars, writeVars, epollVars, peerVars, IInv, Output
  <1>2. ~Spoilt => writableBytes(readBuffer) > 0
    BY DEF IInv, Input, InputBuffer
  <1>3. writableBytes(readBuffer) # 0
    BY <1>2 DEF IInv, Input
  <1>4. eof \/ reset # "no"
    BY <1>3 DEF HandleClose
  <1>5. /\ Spoilt' = Spoilt /\ InputBuffer' = InputBuffer /\ InputIntact'
    BY <1>1 DEF Spoilt, InputBuffer, addWriteIndex, IInv, Input, InputIntact, Readable
  <1>6. Input'
    BY <1>1, <1>4, <1>5 DEF IInv, Input
  <1>7. Output'
    BY <1>1, OutputKept DEF IInv
  <1>8. Control'
    BY <1>1 DEF IInv, Control, Places
  <1> QED BY <1>6, <1>7, <1>8 DEF IInv

\* What the peer sends joins the stream at its end.
LEMMA PeerSendsHolds == IInv /\ PeerSends => IInv'
  <1> SUFFICES ASSUME IInv, PeerSends PROVE IInv'
    OBVIOUS
  <1> DEFINE D == Byte \cup {0}
             R == Readable(readBuffer)
  <1>1. /\ UNCHANGED <<readBuffer, filled, mode_, eof, reset, at, events, timer, nospace>>
        /\ UNCHANGED <<writeBuffer, outSock, received, sending, handed, regrown, shut>>
        /\ armed' \in BOOLEAN /\ reset = "no" /\ at # "closed" /\ ~Spoilt /\ ~Spoilt'
    BY DEF PeerSends, writeVars, peerVars, ArmIf, Spoilt
  <1>2. PICK n \in Int : \E t \in [1..n -> Byte] :
          n >= 1 /\ inSock' = inSock \o t /\ due' = IF filled THEN due ELSE due \o t
    <2>1. PICK n \in 1..(MaxIn - readableBytes(readBuffer) - Len(inSock)) :
            \E t \in [1..n -> Byte] :
              inSock' = inSock \o t /\ due' = IF filled THEN due ELSE due \o t
      BY DEF PeerSends
    <2> QED BY <2>1
  <1>3. PICK t \in [1..n -> Byte] :
          inSock' = inSock \o t /\ due' = IF filled THEN due ELSE due \o t
    BY <1>2
  <1>4. t \in Seq(Byte) /\ inSock \in Seq(Byte) /\ due \in Seq(Byte)
    BY <1>2 DEF IInv, Input
  <1>5. t \in Seq(D) /\ inSock \in Seq(D)
    <2>1. Byte \subseteq D
      OBVIOUS
    <2> HIDE DEF D
    <2> QED BY <1>4, <2>1, SeqMonotonic
  <1>6. InputBuffer = readBuffer /\ InputBuffer' = readBuffer /\ BufferOK(readBuffer, D)
    BY <1>1 DEF IInv, Input, InputBuffer
  <1>7. R \in Seq(D) /\ Readable(readBuffer)' = R
    BY <1>1, <1>6, ReadableTells DEF Readable
  <1> HIDE DEF R
  <1>8. (R \o inSock) \o t = R \o (inSock \o t)
    <2> HIDE DEF D
    <2> QED BY <1>5, <1>7, Regrouping
  <1>9. ~filled => R \o inSock = due
    BY <1>1 DEF IInv, Input, InputIntact, R
  <1>10. InputIntact'
    BY <1>1, <1>3, <1>7, <1>8, <1>9 DEF InputIntact
  <1>11. inSock' \in Seq(Byte) /\ due' \in Seq(Byte)
    BY <1>3, <1>4, ConcatProperties
  <1>12. Input'
    BY <1>1, <1>6, <1>10, <1>11 DEF IInv, Input
  <1>13. Output' /\ Control'
    BY <1>1, OutputKept DEF IInv, Control
  <1> QED BY <1>12, <1>13 DEF IInv

\* What the callback retrieves was due next; its answer is
\* numbered on from what was handed to send() before.
LEMMA OnMessageHolds == IInv /\ OnMessage => IInv'
  <1> SUFFICES ASSUME IInv, OnMessage PROVE IInv'
    OBVIOUS
  <1> DEFINE D == Byte \cup {0}
             R == Readable(readBuffer)
  <1>1. /\ at = "callback" /\ ~Spoilt /\ ~Spoilt' /\ sending = <<>>
        /\ UNCHANGED <<filled, mode_, inSock, eof, events, timer, armed, nospace, shut>>
        /\ UNCHANGED <<writeBuffer, outSock, received, regrown, reset>>
        /\ at' \in {"poll", "send"}
    BY DEF OnMessage, Answer, epollVars, peerVars, Spoilt, IInv, Input, Output
  <1>2. PICK k \in 0..readableBytes(readBuffer) :
          due' = Rest(due, k) /\ readBuffer' = retrieveLen(readBuffer, k)
    BY DEF OnMessage, Consume
  <1>3. /\ InputBuffer = readBuffer /\ InputBuffer' = readBuffer'
        /\ BufferOK(readBuffer, D) /\ writableBytes(readBuffer) > 0
    BY <1>1 DEF IInv, Input, InputBuffer
  <1>4. Control'
    BY <1>1 DEF IInv, Control, Places
  <1>5. Input'
    <2>1. R \in Seq(D) /\ Len(R) = readableBytes(readBuffer) /\ writableBytes(readBuffer) \in Nat
      BY <1>3, ReadableTells
    <2>2. /\ BufferOK(readBuffer', D) /\ writableBytes(readBuffer') >= writableBytes(readBuffer)
          /\ Readable(readBuffer') = Rest(R, k)
      BY <1>2, <1>3, RetrieveTells
    <2>3. writableBytes(readBuffer') \in Nat
      BY <2>2, ReadableTells
    <2> DEFINE F == First(R, k)
               T == Rest(R, k)
    <2>4. F \in Seq(D) /\ T \in Seq(D) /\ F \o T = R
      <3>1. k \in 0..Len(R)
        BY <2>1
      <3> HIDE DEF D, R
      <3> QED BY <2>1, <3>1, Split
    <2>5. Readable(readBuffer)' = T
      BY <2>2 DEF Readable
    <2>6. ~filled => R \o inSock = due
      BY <1>1 DEF IInv, Input, InputIntact
    <2>7. inSock \in Seq(D) /\ inSock \in Seq(Byte) /\ due \in Seq(Byte)
      <3>1. Byte \subseteq D /\ inSock \in Seq(Byte) /\ due \in Seq(Byte)
        BY DEF IInv, Input
      <3> QED BY <3>1, SeqMonotonic
    <2>8. Rest(due, k) \in Seq(Byte) /\ (R \o inSock = due => T \o inSock = Rest(due, k))
      <3>1. k \in Nat /\ k <= Len(R)
        BY <2>1
      <3> HIDE DEF D, T, R
      <3>2. Rest(due, k) \in Seq(Byte)
        BY <2>7, <3>1, RestIsSeq
      <3>3. Rest(R \o inSock, k) = Rest(R, k) \o inSock
        BY <2>1, <2>7, <3>1, RestOfConcatenation
      <3> QED BY <3>2, <3>3 DEF T
    <2> HIDE DEF F, T, R
    <2>9. InputIntact'
      BY <1>1, <1>2, <2>5, <2>6, <2>8 DEF InputIntact
    <2>10. writableBytes(readBuffer') > 0
      BY <1>3, <2>1, <2>2, <2>3
    <2>11. due' \in Seq(Byte)
      BY <1>2, <2>8
    <2> QED BY <1>1, <1>3, <2>2, <2>9, <2>10, <2>11 DEF IInv, Input
  <1>6. CASE UNCHANGED <<sending, handed>>
    <2>1. Output'
      BY <1>1, <1>6, OutputKept DEF IInv
    <2> QED BY <1>4, <1>5, <2>1 DEF IInv
  <1>7. CASE \E len \in 1..MaxOut : Answer(len)
    <2>1. PICK len \in 1..MaxOut : Answer(len)
      BY <1>7
    <2> DEFINE A == [i \in 1..len |-> handed + i]
               W == received \o outSock \o Readable(writeBuffer)
    <2>2. sending' = A /\ handed' = handed + len /\ handed + len <= MaxOut /\ at' = "send"
      BY <2>1 DEF Answer, IInv, Output
    <2>3. handed \in Nat /\ len \in Nat /\ handed + len \in 0..MaxOut
      BY <2>2 DEF IInv, Output
    <2>4. A \in Seq(1..(handed + len)) /\ Bytes(handed) \o A = Bytes(handed + len)
      BY <2>3, BytesFollow
    <2> HIDE DEF A
    <2>5. A \in Seq(1..MaxOut)
      <3>1. 1..(handed + len) \subseteq 1..MaxOut
        BY <2>3
      <3> QED BY <2>4, <3>1, SeqMonotonic
    <2>6. W \in Seq(0..MaxOut) /\ (W \o <<>> = W)
      <3> DEFINE E == 0..MaxOut
      <3>1. received \in Seq(E) /\ outSock \in Seq(E) /\ BufferOK(writeBuffer, E)
        BY DEF IInv, Output
      <3>2. Readable(writeBuffer) \in Seq(E)
        BY <3>1, ReadableTells
      <3> HIDE DEF E
      <3>3. received \o outSock \in Seq(E)
        BY <3>1, ConcatProperties
      <3>4. W \in Seq(E)
        BY <3>2, <3>3, ConcatProperties
      <3> HIDE DEF W
      <3>5. W \o <<>> = W
        BY <3>4
      <3> QED BY <3>4, <3>5 DEF E
    <2>7. ~regrown /\ reset = "no" => W = Bytes(handed)
      BY <1>1, <2>6 DEF IInv, Output, OutputIntact
    <2>8. W' = W
      BY <1>1 DEF Readable
    <2> HIDE DEF W
    <2>9. ~regrown /\ reset = "no" => W \o sending' = Bytes(handed')
      BY <2>2, <2>4, <2>7
    <2>10. OutputIntact'
      BY <1>1, <2>8, <2>9 DEF OutputIntact, W
    <2>11. Output'
      <3>1. BufferOK(writeBuffer, 0..MaxOut)'
        BY <1>1 DEF IInv, Output, BufferOK
      <3>2. sending' \in Seq(1..MaxOut) /\ handed' \in 0..MaxOut
        BY <2>2, <2>3, <2>5
      <3> QED BY <1>1, <2>2, <2>10, <3>1, <3>2 DEF IInv, Output
    <2> QED BY <1>4, <1>5, <2>11 DEF IInv
  <1> QED BY <1>6, <1>7 DEF OnMessage
-----------------------------------------------------------------------------
(* Writing.                                                                *)

\* write() takes the front of s, as much as there is space for.
LEMMA WriteTells ==
  ASSUME Output, NEW s \in Seq(0..MaxOut), Write(s),
         NEW n, n = Lesser(Len(s), Space)
  PROVE  /\ n \in 0..Len(s) /\ (n = Space \/ (n = Len(s) /\ n <= Space))
         /\ outSock' = outSock \o First(s, n)
         /\ outSock' \in Seq(0..MaxOut) /\ Len(outSock') <= SockSize
         /\ nospace \in BOOLEAN => nospace' \in BOOLEAN
  <1> DEFINE E == 0..MaxOut
  <1>1. Len(s) \in Nat /\ Len(outSock) \in Nat /\ Len(outSock) <= SockSize /\ SockSize \in Nat
    BY DEF Output
  <1>2. n \in 0..Len(s) /\ n <= Space /\ Space \in Nat /\ (n = Space \/ n = Len(s))
    BY <1>1 DEF Lesser, Space
  <1>3. outSock' = outSock \o First(s, n) /\ nospace' = (nospace \/ n < Len(s))
    BY DEF Write
  <1>4. outSock \in Seq(E)
    BY DEF Output
  <1> HIDE DEF E
  <1>5. First(s, n) \in Seq(E) /\ Len(First(s, n)) = n
    BY <1>2, Split DEF E
  <1> DEFINE F == First(s, n)
  <1> HIDE DEF F
  <1>6. outSock \o F \in Seq(E) /\ Len(outSock \o F) = Len(outSock) + Len(F)
    BY <1>4, <1>5, ConcatProperties DEF F
  <1>7. Len(outSock') <= SockSize
    <2>1. Len(outSock') = Len(outSock) + n
      BY <1>3, <1>5, <1>6 DEF F
    <2> QED BY <1>1, <1>2, <2>1 DEF Space
  <1>8. nospace \in BOOLEAN => nospace' \in BOOLEAN
    BY <1>3
  <1> QED BY <1>2, <1>3, <1>6, <1>7, <1>8 DEF E, F

\* Nothing is left when all is taken, or more than all.
LEMMA RestOfMore ==
  ASSUME NEW S, NEW s \in Seq(S), NEW n \in Nat, n >= Len(s)
  PROVE  Rest(s, n) = <<>> /\ Rest(s, Len(s)) = <<>>
  <1>1. Len(s) \in Nat
    OBVIOUS
  <1>2. \A i \in (n + 1)..Len(s) : s[i] \in S
    BY <1>1
  <1>3. \A i \in (Len(s) + 1)..Len(s) : s[i] \in S
    BY <1>1
  <1>4. Rest(s, n) \in Seq(S) /\ Len(Rest(s, n)) = 0
    BY <1>1, <1>2, SubSeqProperties DEF Rest
  <1>5. Rest(s, Len(s)) \in Seq(S) /\ Len(Rest(s, Len(s))) = 0
    BY <1>1, <1>3, SubSeqProperties DEF Rest
  <1> QED BY <1>4, <1>5, EmptySeq

\* send() writes at once only if nothing waits in writeBuffer.
LEMMA SendHolds == IInv /\ Send => IInv'
  <1> SUFFICES ASSUME IInv, Send PROVE IInv'
    OBVIOUS
  <1> DEFINE E == 0..MaxOut
             R == Readable(writeBuffer)
  <1>1. /\ at = "send" /\ at' = IF sending' = <<>> THEN "sent" ELSE "append"
        /\ UNCHANGED <<readBuffer, inSock, due, filled, mode_, eof>>
        /\ UNCHANGED <<events, timer, armed, shut, writeBuffer, handed, regrown, received>>
    BY DEF Send, readVars, epollVars, peerVars
  <1>2. reset' = reset \/ (reset = "error" /\ reset' = "written")
    BY DEF Send
  <1>3. Input'
    BY <1>1, <1>2, InputKept DEF IInv
  <1>4. nospace' \in BOOLEAN => Control'
    BY <1>1, <1>2 DEF IInv, Control, Places
  <1>5. ASSUME UNCHANGED <<outSock, nospace, sending>> PROVE Output' /\ nospace' \in BOOLEAN
    <2>1. R' = R /\ at' \in {"sent", "append"} /\ (sending' # <<>> => at' = "append")
      BY <1>1 DEF Readable
    <2>2. BufferOK(writeBuffer, E)'
      BY <1>1 DEF IInv, Output, BufferOK
    <2>3. OutputIntact'
      BY <1>1, <1>2, <1>5, <2>1 DEF IInv, Output, OutputIntact
    <2> QED BY <1>1, <1>5, <2>1, <2>2, <2>3 DEF IInv, Output, Control
  <1>6. ASSUME WritesDirectly, Write(sending), sending' = Rest(sending, Space), UNCHANGED reset
        PROVE  Output' /\ nospace' \in BOOLEAN
    <2>1. /\ sending \in Seq(1..MaxOut) /\ outSock \in Seq(E) /\ received \in Seq(E)
          /\ BufferOK(writeBuffer, E) /\ nospace \in BOOLEAN
      BY DEF IInv, Output, Control
    <2>2. sending \in Seq(E)
      <3>1. 1..MaxOut \subseteq E
        OBVIOUS
      <3> QED BY <2>1, <3>1, SeqMonotonic
    <2>3. R = <<>>
      BY <1>6, <2>1, ReadableTells DEF WritesDirectly
    <2> DEFINE n == Lesser(Len(sending), Space)
    <2>4. /\ n \in 0..Len(sending) /\ (n = Space \/ (n = Len(sending) /\ n <= Space))
          /\ outSock' = outSock \o First(sending, n)
          /\ outSock' \in Seq(E) /\ Len(outSock') <= SockSize /\ nospace' \in BOOLEAN
      <3>1. Output /\ Write(sending)
        BY <1>6 DEF IInv
      <3> HIDE DEF E
      <3> QED BY <2>1, <2>2, <3>1, WriteTells DEF E
    <2>5. sending' = Rest(sending, n)
      <3>1. CASE n = Space
        BY <1>6, <3>1
      <3>2. CASE n = Len(sending) /\ n <= Space
        <4>1. Space \in Nat
          <5>1. Len(outSock) \in Nat /\ Len(outSock) <= SockSize
            BY DEF IInv, Output
          <5> QED BY <5>1 DEF Space
        <4>2. Space >= Len(sending)
          BY <2>4, <3>2, <4>1
        <4> HIDE DEF E
        <4>3. Rest(sending, Space) = <<>> /\ Rest(sending, Len(sending)) = <<>>
          BY <2>2, <4>1, <4>2, RestOfMore
        <4> QED BY <1>6, <3>2, <4>3
      <3> QED BY <2>4, <3>1, <3>2
    <2> DEFINE F == First(sending, n)
               T == Rest(sending, n)
    <2> HIDE DEF n
    <2>6. F \in Seq(E) /\ T \in Seq(E) /\ F \o T = sending /\ T \in Seq(1..MaxOut)
      <3> HIDE DEF E
      <3>1. F \in Seq(E) /\ T \in Seq(E) /\ F \o T = sending
        BY <2>2, <2>4, Split
      <3>2. T \in Seq(1..MaxOut)
        BY <2>1, <2>4, Split
      <3> QED BY <3>1, <3>2
    <2> HIDE DEF F, T
    <2>7. received \o outSock' \o <<>> \o T = received \o outSock \o <<>> \o sending
      <3> HIDE DEF E
      <3>1. received \o outSock \in Seq(E) /\ received \o outSock' \in Seq(E)
        BY <2>1, <2>4, ConcatProperties
      <3>2. received \o outSock \o <<>> = received \o outSock
        BY <3>1
      <3>3. received \o outSock' \o <<>> = received \o outSock'
        BY <3>1
      <3>4. received \o outSock \o (F \o T) = received \o (outSock \o F) \o T
        <4>1. received \in Seq(E) /\ outSock \in Seq(E) /\ F \in Seq(E) /\ T \in Seq(E)
          BY <2>1, <2>6
        <4>2. (received \o outSock) \o F = received \o (outSock \o F)
          BY <4>1, Regrouping
        <4> DEFINE P == received \o outSock
        <4> HIDE DEF P
        <4>3. P \in Seq(E) /\ F \in Seq(E) /\ T \in Seq(E)
          BY <3>1, <4>1 DEF P
        <4>4. (P \o F) \o T = P \o (F \o T)
          BY <4>3, Regrouping
        <4> QED BY <4>2, <4>4 DEF P
      <3>5. outSock' = outSock \o F
        BY <2>4 DEF F
      <3> QED BY <2>6, <3>2, <3>3, <3>4, <3>5
    <2>8. ~regrown /\ reset = "no" => received \o outSock \o <<>> \o sending = Bytes(handed)
      BY <2>3 DEF IInv, Output, OutputIntact
    <2>9. R' = <<>> /\ sending' = T
      BY <1>1, <2>3, <2>5 DEF Readable, T
    <2>10. OutputIntact'
      BY <1>1, <1>6, <2>7, <2>8, <2>9 DEF OutputIntact
    <2>11. BufferOK(writeBuffer, E)'
      BY <1>1 DEF IInv, Output, BufferOK
    <2> QED BY <1>1, <2>4, <2>6, <2>9, <2>10, <2>11 DEF IInv, Output
  <1>7. \/ UNCHANGED <<outSock, nospace, sending>>
        \/ WritesDirectly /\ Write(sending) /\ sending' = Rest(sending, Space) /\ UNCHANGED reset
    BY DEF Send
  <1>8. Output' /\ nospace' \in BOOLEAN
    BY <1>5, <1>6, <1>7
  <1> QED BY <1>3, <1>4, <1>8 DEF IInv

\* append() doubles writeBuffer with nothing written from it yet, or its
\* bytes are lost, which is what regrown remembers.
LEMMA AppendResizesHolds == IInv /\ AppendResizes => IInv'
  <1> SUFFICES ASSUME IInv, AppendResizes PROVE IInv'
    OBVIOUS
  <1>1. /\ UNCHANGED <<readBuffer, inSock, due, filled, mode_, eof, events, timer, armed>>
        /\ UNCHANGED <<shut, nospace, outSock, handed, received, reset, at, sending>>
        /\ writeBuffer' = resize(writeBuffer)
        /\ regrown' = (regrown \/ writeBuffer.readIndex_ # 0)
    BY DEF AppendResizes, readVars, epollVars, peerVars
  <1>2. Input'
    BY <1>1, InputKept DEF IInv
  <1>3. Control'
    BY <1>1 DEF IInv, Control
  <1>4. /\ BufferOK(resize(writeBuffer), 0..MaxOut)
        /\ writeBuffer.readIndex_ = 0 => Readable(resize(writeBuffer)) = Readable(writeBuffer)
    <2> DEFINE E == 0..MaxOut
    <2>1. BufferOK(writeBuffer, E) /\ 0 \in E
      BY DEF IInv, Output
    <2> HIDE DEF E
    <2> QED BY <2>1, ResizeTells DEF E
  <1>5. ~regrown' => Readable(writeBuffer)' = Readable(writeBuffer)
    BY <1>1, <1>4 DEF Readable
  <1>6. OutputIntact'
    BY <1>1, <1>5 DEF IInv, Output, OutputIntact
  <1>7. BufferOK(writeBuffer, 0..MaxOut)'
    BY <1>1, <1>4 DEF BufferOK
  <1>8. Output'
    BY <1>1, <1>6, <1>7 DEF IInv, Output
  <1> QED BY <1>2, <1>3, <1>8 DEF IInv

\* What send() could not write waits behind what waited before.
LEMMA AppendCopiesHolds == IInv /\ AppendCopies => IInv'
  <1> SUFFICES ASSUME IInv, AppendCopies PROVE IInv'
    OBVIOUS
  <1> DEFINE E == 0..MaxOut
             R == Readable(writeBuffer)
             P == received \o outSock
  <1>1. /\ UNCHANGED <<readBuffer, inSock, due, filled, mode_, eof, timer, shut, nospace>>
        /\ UNCHANGED <<outSock, handed, received, reset, regrown>>
        /\ writeBuffer' = addWriteIndex(CopyIn(writeBuffer, sending), Len(sending))
        /\ sending' = <<>> /\ at = "append" /\ at' = "sent"
        /\ events' = events \cup {"out"} /\ armed' \in BOOLEAN
    BY DEF AppendCopies, readVars, peerVars, UpdateInterest, ArmIf
  <1>2. Input'
    BY <1>1, InputKept DEF IInv
  <1>3. Control'
    BY <1>1 DEF IInv, Control, Places
  <1>4. /\ BufferOK(writeBuffer, E) /\ received \in Seq(E) /\ outSock \in Seq(E)
        /\ sending \in Seq(1..MaxOut)
    BY DEF IInv, Output
  <1>5. sending \in Seq(E)
    <2>1. 1..MaxOut \subseteq E
      OBVIOUS
    <2> QED BY <1>4, <2>1, SeqMonotonic
  <1>6. Len(sending) <= writableBytes(writeBuffer)
    BY DEF AppendCopies, HasRoom
  <1> HIDE DEF E
  <1>7. BufferOK(writeBuffer', E) /\ Readable(writeBuffer') = R \o sending
    BY <1>1, <1>4, <1>5, <1>6, CopyInTells
  <1>8. R \in Seq(E)
    BY <1>4, ReadableTells
  <1>9. P \in Seq(E)
    BY <1>4, ConcatProperties
  <1> HIDE DEF P, R
  <1>10. (P \o R) \o sending = P \o (R \o sending)
    BY <1>5, <1>8, <1>9, ConcatAssociative
  <1>11. P \o (R \o sending) \o <<>> = P \o (R \o sending)
    <2>1. R \o sending \in Seq(E)
      BY <1>5, <1>8, ConcatProperties
    <2>2. P \o (R \o sending) \in Seq(E)
      BY <1>9, <2>1, ConcatProperties
    <2> QED BY <2>2
  <1>12. ~regrown /\ reset = "no" => (P \o R) \o sending = Bytes(handed)
    BY DEF IInv, Output, OutputIntact, P, R
  <1>13. Readable(writeBuffer)' = R \o sending /\ (received \o outSock)' = P
    BY <1>1, <1>7 DEF Readable, P
  <1>14. OutputIntact'
    BY <1>1, <1>10, <1>11, <1>12, <1>13 DEF OutputIntact
  <1>15. Output'
    <2>1. BufferOK(writeBuffer, 0..MaxOut)'
      BY <1>7 DEF BufferOK, E
    <2>2. sending' \in Seq(1..MaxOut) /\ sending' = <<>>
      BY <1>1
    <2> QED BY <1>1, <1>14, <2>1, <2>2 DEF IInv, Output
  <1> QED BY <1>2, <1>3, <1>15 DEF IInv

\* handleWrite() in either mode: what is written is retrieved.
LEMMA WrittenIsRetrieved ==
  ASSUME IInv, at = "write", reset = "no", Write(Readable(writeBuffer)),
         writeBuffer' = addReadIndex(writeBuffer, Writable),
         UNCHANGED <<handed, sending, regrown, received, reset>>
  PROVE  Output' /\ nospace' \in BOOLEAN
  <1> DEFINE E == 0..MaxOut
             R == Readable(writeBuffer)
             n == Writable
             F == First(R, n)
             T == Rest(R, n)
  <1>1. /\ BufferOK(writeBuffer, E) /\ received \in Seq(E) /\ outSock \in Seq(E)
        /\ nospace \in BOOLEAN /\ sending = <<>>
    BY DEF IInv, Output, Control
  <1>2. R \in Seq(E) /\ Len(R) = readableBytes(writeBuffer)
    BY <1>1, ReadableTells
  <1>3. n = Lesser(Len(R), Space)
    BY <1>2 DEF Writable
  <1> HIDE DEF n
  <1>4. /\ n \in 0..Len(R) /\ outSock' = outSock \o F
        /\ outSock' \in Seq(E) /\ Len(outSock') <= SockSize /\ nospace' \in BOOLEAN
    <2>1. Output /\ Write(R)
      BY DEF IInv
    <2> HIDE DEF R, E
    <2> QED BY <1>1, <1>2, <1>3, <2>1, WriteTells DEF E
  <1>5. BufferOK(writeBuffer', E) /\ Readable(writeBuffer') = T
    <2>1. n \in 0..readableBytes(writeBuffer)
      BY <1>2, <1>4
    <2>2. writeBuffer' = addReadIndex(writeBuffer, n)
      BY DEF n
    <2> HIDE DEF E
    <2> QED BY <1>1, <2>1, <2>2, AddReadIndexTells
  <1>6. F \in Seq(E) /\ T \in Seq(E) /\ F \o T = R
    <2> HIDE DEF E, R
    <2> QED BY <1>2, <1>4, Split
  <1> HIDE DEF E, F, T, R
  <1>7. received \o outSock \in Seq(E) /\ received \o outSock' \in Seq(E)
    <2>1. received \in Seq(E) /\ outSock \in Seq(E) /\ outSock' \in Seq(E)
      BY <1>1, <1>4
    <2> QED BY <2>1, ConcatProperties
  <1>8. (received \o outSock') \o T = (received \o outSock) \o R
    <2>1. received \in Seq(E) /\ outSock \in Seq(E) /\ F \in Seq(E) /\ T \in Seq(E)
      BY <1>1, <1>6
    <2>2. (received \o outSock) \o F = received \o (outSock \o F)
      BY <2>1, Regrouping
    <2> DEFINE P == received \o outSock
    <2> HIDE DEF P
    <2>3. P \in Seq(E) /\ F \in Seq(E) /\ T \in Seq(E)
      BY <1>7, <2>1 DEF P
    <2>4. (P \o F) \o T = P \o (F \o T)
      BY <2>3, Regrouping
    <2> QED BY <1>4, <1>6, <2>2, <2>4 DEF P
  <1>9. ~regrown => received \o outSock \o R \o <<>> = Bytes(handed)
    BY <1>1 DEF IInv, Output, OutputIntact, R
  <1>10. Readable(writeBuffer)' = T /\ sending' = <<>> /\ received' = received
    BY <1>1, <1>5 DEF Readable
  <1>11. OutputIntact'
    BY <1>8, <1>9, <1>10 DEF OutputIntact
  <1>12. BufferOK(writeBuffer, 0..MaxOut)'
    BY <1>5 DEF BufferOK, E
  <1> QED BY <1>4, <1>10, <1>11, <1>12 DEF IInv, Output, E

\* handleWrite() in either mode.
LEMMA HandleWriteHolds == IInv /\ (HandleWriteLT \/ HandleWriteET) => IInv'
  <1> SUFFICES ASSUME IInv, HandleWriteLT \/ HandleWriteET PROVE IInv'
    OBVIOUS
  <1>1. /\ UNCHANGED <<readBuffer, inSock, due, filled, eof, timer, shut>>
        /\ UNCHANGED <<handed, sending, regrown, received, reset>>
        /\ at = "write" /\ at' \in {"poll", "write"} /\ reset = "no"
        /\ Write(Readable(writeBuffer)) /\ writeBuffer' = addReadIndex(writeBuffer, Writable)
    BY DEF HandleWriteLT, HandleWriteET, readVars, peerVars
  <1>2. Output' /\ nospace' \in BOOLEAN
    BY <1>1, WrittenIsRetrieved
  <1>3. mode_' = mode_ /\ events' \subseteq {"in", "out"} /\ armed' \in BOOLEAN
    BY DEF HandleWriteLT, HandleWriteET, epollVars, UpdateInterest, ArmIf, IInv, Control
  <1>4. Input'
    BY <1>1, <1>3, InputKept DEF IInv
  <1>5. Control'
    BY <1>1, <1>2, <1>3 DEF IInv, Control, Places
  <1> QED BY <1>2, <1>4, <1>5 DEF IInv

\* A byte goes from the socket to the peer.
LEMMA PeerReadsHolds == IInv /\ PeerReads => IInv'
  <1> SUFFICES ASSUME IInv, PeerReads PROVE IInv'
    OBVIOUS
  <1> DEFINE E == 0..MaxOut
             h == Head(outSock)
             t == Tail(outSock)
  <1>1. /\ UNCHANGED <<readBuffer, inSock, due, filled, mode_, eof, timer, shut, events>>
        /\ UNCHANGED <<writeBuffer, handed, sending, regrown, reset, at>>
        /\ outSock' = t /\ received' = Append(received, h) /\ outSock # <<>>
        /\ nospace' = FALSE /\ armed' \in BOOLEAN
    BY DEF PeerReads, readVars, ArmIf
  <1>2. Input'
    BY <1>1, InputKept DEF IInv
  <1>3. Control'
    BY <1>1 DEF IInv, Control
  <1>4. outSock \in Seq(E) /\ received \in Seq(E) /\ Len(outSock) <= SockSize
    BY DEF IInv, Output
  <1> HIDE DEF E
  <1>5. h \in E /\ t \in Seq(E) /\ Len(t) = Len(outSock) - 1
    BY <1>1, <1>4, HeadTailProperties
  <1>6. outSock = <<h>> \o t
    <2>1. Len(outSock) \in Nat /\ Len(outSock) # 0 /\ h = outSock[1]
      BY <1>1, <1>4, EmptySeq
    <2>2. 1 \in 1..Len(outSock) /\ Len(outSock) \in 1..Len(outSock)
      BY <2>1
    <2>3. SubSeq(outSock, 1, Len(outSock)) = <<outSock[1]>> \o SubSeq(outSock, 2, Len(outSock))
      <3>1. SubSeq(outSock, 1, Len(outSock)) = <<outSock[1]>> \o SubSeq(outSock, 1 + 1, Len(outSock))
        BY <1>4, <2>2, SubSeqRecursiveFirst
      <3> QED BY <3>1
    <2>4. t = SubSeq(outSock, 2, Len(outSock))
      BY <1>1, <1>4, TailIsSubSeq
    <2>5. SubSeq(outSock, 1, Len(outSock)) = outSock
      BY <1>4, SubSeqFull
    <2> QED BY <2>1, <2>3, <2>4, <2>5
  <1> HIDE DEF h, t
  <1>7. received' = received \o <<h>> /\ received' \in Seq(E)
    <2>1. Append(received, h) = received \o <<h>>
      BY <1>4, <1>5, AppendIsConcat
    <2>2. Append(received, h) \in Seq(E)
      BY <1>4, <1>5, AppendProperties
    <2> QED BY <1>1, <2>1, <2>2
  <1>8. (received \o outSock)' = received \o outSock
    <2>1. received \in Seq(E) /\ <<h>> \in Seq(E) /\ t \in Seq(E)
      BY <1>4, <1>5
    <2>2. (received \o <<h>>) \o t = received \o (<<h>> \o t)
      BY <2>1, ConcatAssociative
    <2> QED BY <1>1, <1>6, <1>7, <2>2
  <1>9. OutputIntact'
    BY <1>1, <1>8 DEF IInv, Output, OutputIntact, Readable
  <1>10. Len(outSock') <= SockSize
    <2>1. Len(outSock) \in Nat
      BY <1>4
    <2> QED BY <1>1, <1>4, <1>5, <2>1
  <1>11. Output'
    BY <1>1, <1>5, <1>7, <1>9, <1>10 DEF IInv, Output, BufferOK, E
  <1> QED BY <1>2, <1>3, <1>11 DEF IInv

\* A reset drops what the socket holds; what was received stays in order.
LEMMA PeerResetsHolds == IInv /\ PeerResets => IInv'
  <1> SUFFICES ASSUME IInv, PeerResets PROVE IInv'
    OBVIOUS
  <1>1. /\ UNCHANGED <<readBuffer, inSock, due, filled, mode_, eof, timer, shut, events>>
        /\ UNCHANGED <<writeBuffer, handed, sending, regrown, received, at>>
        /\ reset = "no" /\ reset' = "error" /\ at # "closed"
        /\ outSock' = <<>> /\ nospace' = FALSE /\ armed' \in BOOLEAN
    BY DEF PeerResets, readVars, peerVars, ArmIf
  <1>2. Input'
    BY <1>1, InputKept DEF IInv
  <1>3. Control'
    BY <1>1 DEF IInv, Control
  <1>4. outSock' \in Seq(0..MaxOut) /\ Len(outSock') <= SockSize
    BY <1>1
  <1>5. OutputIntact'
    BY <1>1 DEF OutputIntact
  <1>6. Output'
    BY <1>1, <1>4, <1>5 DEF IInv, Output, BufferOK
  <1> QED BY <1>2, <1>3, <1>6 DEF IInv
-----------------------------------------------------------------------------
(* The invariant and what it gives.                                        *)

LEMMA StutterHolds == IInv /\ UNCHANGED vars => IInv'
  <1> SUFFICES ASSUME IInv, UNCHANGED vars PROVE IInv'
    OBVIOUS
  <1>1. /\ UNCHANGED <<readBuffer, inSock, due, filled, mode_, eof, events, armed, timer>>
        /\ UNCHANGED <<writeBuffer, outSock, handed, sending, regrown, received, reset, shut>>
        /\ UNCHANGED <<at, nospace>>
    BY DEF vars, readVars, writeVars, epollVars, peerVars
  <1>2. Input'
    BY <1>1, InputKept DEF IInv
  <1>3. Output'
    BY <1>1, OutputKept DEF IInv
  <1>4. Control'
    BY <1>1 DEF IInv, Control
  <1> QED BY <1>2, <1>3, <1>4 DEF IInv

\* Every step keeps the invariant.
LEMMA StepHolds == IInv /\ [Next]_vars => IInv'
  <1> SUFFICES ASSUME IInv, [Next]_vars PROVE IInv'
    OBVIOUS
  <1>1. CASE \/ ConnectEstablished \/ HandleEvent \/ ReadAgain \/ SendReturns \/ ShutdownWrite
             \/ WriteError \/ TimerTests \/ TimerShutsDown \/ PeerCloses
             \/ BrokenPipe \/ ResizeCrashes
    BY <1>1, QuietHolds
  <1>2. CASE ReadBytes \/ ReadError \/ HandleClose \/ OnMessage
    BY <1>2, ReadBytesHolds, ReadErrorHolds, HandleCloseHolds, OnMessageHolds
  <1>3. CASE Send \/ AppendResizes \/ AppendCopies \/ HandleWriteLT \/ HandleWriteET
    BY <1>3, SendHolds, AppendResizesHolds, AppendCopiesHolds, HandleWriteHolds
  <1>4. CASE PeerSends \/ PeerReads \/ PeerResets
    BY <1>4, PeerSendsHolds, PeerReadsHolds, PeerResetsHolds
  <1>5. CASE UNCHANGED vars
    BY <1>5, StutterHolds
  <1> QED BY <1>1, <1>2, <1>3, <1>4, <1>5 DEF Next, IOStep

\* The inductive invariant holds in every behaviour.
LEMMA Invariant == Spec => []IInv
  BY InitHolds, StepHolds, PTL DEF Spec

\* The types: the indices of both Buffers are in order and inside their
\* vectors in every state, but for the -1 of an edge-triggered read() error.
THEOREM Typing == Spec => []TypeOK
  <1>1. IInv => TypeOK
    BY DEF IInv, Control, Places, Input, InputBuffer, Output, TypeOK
  <1> QED BY <1>1, Invariant, PTL

\* handleRead() never passes read() a length of 0, in neither mode and with
\* buffers of any size: a connection is closed only for its peer's sake.
THEOREM HasRoomToRead == Spec => []RoomToRead
  <1>1. IInv => RoomToRead
    BY DEF IInv, Input, InputBuffer, RoomToRead
  <1> QED BY <1>1, Invariant, PTL

\* Nothing the peer sends is lost, doubled or reordered on its way through
\* the socket and readBuffer to readCallback_, unless a read() filled the
\* buffer and resize() copied it short.
THEOREM InputArrivesInOrder == Spec => []InputIntact
  <1>1. IInv => InputIntact
    BY DEF IInv, Input
  <1> QED BY <1>1, Invariant, PTL

\* Nothing handed to send() is lost, doubled or reordered on its way through
\* writeBuffer and the socket to the peer, unless resize() copied short.
THEOREM OutputArrivesInOrder == Spec => []OutputIntact
  <1>1. IInv => OutputIntact
    BY DEF IInv, Output
  <1> QED BY <1>1, Invariant, PTL
=============================================================================
