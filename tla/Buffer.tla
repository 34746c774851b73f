------------------------------- MODULE Buffer -------------------------------
(***************************************************************************)
(* net/Buffer: a vector of bytes with readIndex_ and writeIndex_, as an    *)
(* algebra of its operations.  The bytes between the indices are readable. *)
(***************************************************************************)
EXTENDS Integers, Sequences

CONSTANT NUL  \* what a new vector is filled with

NewBuffer(size) ==
  [buffer_ |-> [i \in 1..size |-> NUL], readIndex_ |-> 0, writeIndex_ |-> 0]

readableBytes(b) == b.writeIndex_ - b.readIndex_
writableBytes(b) == Len(b.buffer_) - b.writeIndex_
Readable(b) == SubSeq(b.buffer_, b.readIndex_ + 1, b.writeIndex_)

addWriteIndex(b, n) == [b EXCEPT !.writeIndex_ = @ + n]
addReadIndex(b, n) == [b EXCEPT !.readIndex_ = @ + n]

\* The bytes s are copied to beginWrite(), as read() and append() do.
CopyIn(b, s) ==
  [b EXCEPT !.buffer_ =
     [i \in 1..Len(@) |->
        IF i \in (b.writeIndex_ + 1)..(b.writeIndex_ + Len(s)) THEN s[i - b.writeIndex_]
        ELSE @[i]]]

\* resize() copies from beginRead() up to begin() + readableBytes(), to the
\* front of a vector of twice the size, and leaves the indices alone.
resize(b) ==
  [b EXCEPT !.buffer_ =
     [i \in 1..(2 * Len(@)) |->
        IF i <= readableBytes(b) - b.readIndex_ THEN @[b.readIndex_ + i] ELSE NUL]]

\* The end of that range is before its beginning: undefined behaviour, a
\* memmove() of a negative length or no copy at all.
ResizeUndefined(b) == readableBytes(b) < b.readIndex_

retrieveLen(b, len) ==
  LET n == IF len < readableBytes(b) THEN len ELSE readableBytes(b)
      r == addReadIndex(b, n)
  IN  IF r.readIndex_ = r.writeIndex_ THEN [r EXCEPT !.readIndex_ = 0, !.writeIndex_ = 0] ELSE r
=============================================================================
