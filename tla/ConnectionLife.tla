--------------------------- MODULE ConnectionLife ---------------------------
(***************************************************************************)
(* What a TcpServer promises about each of its connections, whatever the   *)
(* threads do: its life goes through the phases in order, none skipped or  *)
(* repeated, its functions run only on the main thread and on the thread   *)
(* of its own loop, on the latter only once it is configured and enabled,  *)
(* and it is destroyed when no thread is in any of them.                   *)
(***************************************************************************)
EXTENDS Integers

CONSTANTS Conns, Threads, Main, None

VARIABLES
  phase,    \* phase of each connection
  servedBy, \* threads that are in a function of the connection
  loop      \* the thread of the loop it was given to, None before

lifeVars == <<phase, servedBy, loop>>

New == 0            \* not accepted yet
Constructed == 1    \* in conn_, without callbacks
Configured == 2     \* its callbacks and context are set
Established == 3    \* registered with its loop's Epoll
Closed == 4         \* disabled by handleClose()
Removed == 5        \* no longer in conn_
Gone == 6           \* ~TcpConnection has run

LifeInit ==
  /\ phase = [c \in Conns |-> New]
  /\ servedBy = [c \in Conns |-> {}]
  /\ loop = [c \in Conns |-> None]

Begin(c) == phase[c] = New /\ phase'[c] = Constructed /\ loop'[c] \in Threads

Advance(c) ==
  /\ phase[c] \in Constructed..Removed
  /\ phase'[c] = phase[c] + 1
  /\ loop'[c] = loop[c]
  /\ phase'[c] = Gone => servedBy'[c] = {}

Stay(c) == phase'[c] = phase[c] /\ loop'[c] = loop[c]

\* Threads that begin a function of c.
Enter(c) ==
  \A t \in servedBy'[c] \ servedBy[c] :
    \/ t = Main /\ phase'[c] # Gone
    \/ t = loop[c] /\ phase[c] = Established

\* A step of the system may concern several connections: when tasks are
\* destroyed, several may lose their last reference.
LifeNext ==
  \A c \in Conns : (Begin(c) \/ Advance(c) \/ Stay(c)) /\ Enter(c)

LifeSpec == LifeInit /\ [][LifeNext]_lifeVars
=============================================================================
