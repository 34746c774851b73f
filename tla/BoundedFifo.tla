----------------------------- MODULE BoundedFifo -----------------------------
(***************************************************************************)
(* What BlockQueue promises: a first-in first-out queue that holds at most *)
(* Capacity items, none lost and none delivered twice, with no mutex and   *)
(* no condition.  The n-th item of producer p is <<p, n>>.                 *)
(***************************************************************************)
EXTENDS Naturals, Sequences

CONSTANTS Producers, Capacity

VARIABLES
  fifo,    \* the items in the queue, oldest first
  pushed,  \* number of items each producer has put in
  popped   \* items delivered, in order

vars == <<fifo, pushed, popped>>

Init ==
  /\ fifo = <<>>
  /\ pushed = [p \in Producers |-> 0]
  /\ popped = <<>>

Put(p) ==
  /\ Len(fifo) < Capacity
  /\ pushed' = [pushed EXCEPT ![p] = @ + 1]
  /\ fifo' = Append(fifo, <<p, pushed[p] + 1>>)
  /\ UNCHANGED popped

Get ==
  /\ fifo # <<>>
  /\ popped' = Append(popped, Head(fifo))
  /\ fifo' = Tail(fifo)
  /\ UNCHANGED pushed

Next == Get \/ \E p \in Producers : Put(p)

Spec == Init /\ [][Next]_vars
=============================================================================
