---------------------------- MODULE TaskExecutor ----------------------------
(***************************************************************************)
(* What EventLoop::queueInLoop promises its callers, without the mutex,    *)
(* the two vectors or the eventfd: a task handed to a loop is run once, in *)
(* the order in which the tasks were handed over.  Tasks are numbered by   *)
(* that order.                                                             *)
(***************************************************************************)
EXTENDS Naturals, Sequences

VARIABLES
  pending,    \* tasks handed over and not started, oldest first
  executed    \* tasks started, in the order in which they were started

vars == <<pending, executed>>

Init == pending = <<>> /\ executed = <<>>

Submit ==
  /\ pending' = Append(pending, Len(executed) + Len(pending) + 1)
  /\ UNCHANGED executed

Run ==
  /\ pending # <<>>
  /\ executed' = Append(executed, Head(pending))
  /\ pending' = Tail(pending)

Next == Submit \/ Run

Spec == Init /\ [][Next]_vars
=============================================================================
