------------------------------ MODULE Acceptor ------------------------------
(***************************************************************************)
(* TcpServer::newConnection() at the limit of descriptors (net/            *)
(* TcpServer.cc): accept() fails with EMFILE, and the main thread closes   *)
(* idlefd, the descriptor it keeps in reserve, to accept the client, close *)
(* it at once and reopen the reserve.  The I/O threads open and close the  *)
(* files of pages and connections end meanwhile, so that the descriptor    *)
(* given up may be taken by anybody before the second accept().            *)
(*                                                                         *)
(* The condition errno=EMFILE is an assignment: every failure of accept()  *)
(* takes this path, that of a client that has reset its connection while   *)
(* it waited too.  The listening socket blocks, hence so does the main     *)
(* thread when the second accept() finds no client.                        *)
(***************************************************************************)
EXTENDS Integers, Sequences, FiniteSets

CONSTANTS
  Clients,   \* they come back for as long as they like
  Workers,   \* I/O threads, which open the files of pages
  Main,      \* the main thread
  NumFds,    \* descriptors left to the process
  None       \* nobody

ASSUME AcceptorAssumption ==
  /\ NumFds \in Nat \ {0}
  /\ Main \notin Workers \cup Clients /\ Workers \cap Clients = {}
  /\ None \notin Workers \cup Clients \cup {Main}

VARIABLES
  waiting,  \* the backlog of the listening socket
  state,    \* of each client
  owner,    \* the client, worker or main thread each descriptor is for
  idlefd,   \* 0 stands for -1
  file_fd,  \* descriptor of the page each worker reads, 0 when it has none
  at        \* where the main thread is in newConnection()

acceptorVars == <<waiting, state, owner, idlefd, file_fd, at>>

Fds == 1..NumFds
Free == {f \in Fds : owner[f] = None}
Lowest == CHOOSE f \in Free : \A g \in Free : f <= g
Give(f, o) == owner' = [owner EXCEPT ![f] = o]

\* close(fd), which does nothing to -1.
Close(fd) == owner' = [f \in Fds |-> IF f = fd THEN None ELSE owner[f]]

\* The constructor has opened idlefd.
Init ==
  /\ waiting = <<>>
  /\ state = [c \in Clients |-> "new"]
  /\ owner = [f \in Fds |-> IF f = 1 THEN Main ELSE None]
  /\ idlefd = 1
  /\ file_fd = [w \in Workers |-> 0]
  /\ at = "loop"
-----------------------------------------------------------------------------
(* The clients and the I/O threads.                                        *)

\* A client that has left, or was turned away, may connect again.
Connects(c) ==
  /\ state[c] \in {"new", "ended", "refused", "reset"}
  /\ \A i \in DOMAIN waiting : waiting[i] # c
  /\ state' = [state EXCEPT ![c] = "waiting"]
  /\ waiting' = Append(waiting, c)
  /\ UNCHANGED <<owner, idlefd, file_fd, at>>

\* A reset connection stays in the backlog until accept() comes to it.
Resets(c) ==
  /\ state[c] = "waiting"
  /\ state' = [state EXCEPT ![c] = "reset"]
  /\ UNCHANGED <<waiting, owner, idlefd, file_fd, at>>

\* ~TcpConnection, on whatever thread.
Ends(c) ==
  /\ state[c] = "accepted"
  /\ state' = [state EXCEPT ![c] = "ended"]
  /\ owner' = [f \in Fds |-> IF owner[f] = c THEN None ELSE owner[f]]
  /\ UNCHANGED <<waiting, idlefd, file_fd, at>>

\* A failed open() leaves nothing behind: the response has no body.
OpenPage(w) ==
  /\ file_fd[w] = 0 /\ Free # {}
  /\ Give(Lowest, w)
  /\ file_fd' = [file_fd EXCEPT ![w] = Lowest]
  /\ UNCHANGED <<waiting, state, idlefd, at>>

\* Mutant: close(file_fd) is forgotten.
ClosePageLeaking(w) ==
  /\ file_fd[w] # 0
  /\ file_fd' = [file_fd EXCEPT ![w] = 0]
  /\ UNCHANGED <<waiting, state, owner, idlefd, at>>

ClosePage(w) ==
  /\ file_fd[w] # 0
  /\ Close(file_fd[w])
  /\ file_fd' = [file_fd EXCEPT ![w] = 0]
  /\ UNCHANGED <<waiting, state, idlefd, at>>
-----------------------------------------------------------------------------
(* newConnection() on the main thread.  The kernel takes a descriptor      *)
(* first: without one it fails and leaves the client in the backlog.       *)

Fails == Free = {} \/ (waiting # <<>> /\ state[Head(waiting)] = "reset")

\* The backlog after accept().
Dequeued == IF Free = {} \/ waiting = <<>> THEN waiting ELSE Tail(waiting)

Accept ==
  /\ at = "loop"
  /\ waiting # <<>> /\ ~Fails
  /\ Give(Lowest, Head(waiting))
  /\ state' = [state EXCEPT ![Head(waiting)] = "accepted"]
  /\ waiting' = Dequeued
  /\ UNCHANGED <<idlefd, file_fd, at>>

\* Mutant: nothing is done about the failure, the socket stays readable.
AcceptFailsSilently ==
  /\ at = "loop"
  /\ waiting # <<>> /\ Fails
  /\ waiting' = Dequeued
  /\ UNCHANGED <<state, owner, idlefd, file_fd, at>>

AcceptFails ==
  /\ at = "loop"
  /\ waiting # <<>> /\ Fails
  /\ waiting' = Dequeued
  /\ at' = "failed"
  /\ UNCHANGED <<state, owner, idlefd, file_fd>>

CloseIdle ==
  /\ at = "failed"
  /\ Close(idlefd)
  /\ at' = "idleClosed"
  /\ UNCHANGED <<waiting, state, idlefd, file_fd>>

\* Mutant: idlefd is only assigned when accept() succeeds.
AcceptAgainIfAny ==
  /\ at = "idleClosed"
  /\ Fails \/ waiting # <<>>
  /\ IF Fails THEN UNCHANGED <<idlefd, state, owner>>
     ELSE /\ idlefd' = Lowest
          /\ Give(Lowest, Main)
          /\ state' = [state EXCEPT ![Head(waiting)] = "refused"]
  /\ waiting' = Dequeued
  /\ at' = "acceptedAgain"
  /\ UNCHANGED <<file_fd>>

\* idlefd=accept(...): -1, or the client at the head.  It waits for one when
\* there is a descriptor and nobody in the backlog.
AcceptAgain ==
  /\ at = "idleClosed"
  /\ Fails \/ waiting # <<>>
  /\ IF Fails THEN idlefd' = 0 /\ UNCHANGED <<state, owner>>
     ELSE /\ idlefd' = Lowest
          /\ Give(Lowest, Main)
          /\ state' = [state EXCEPT ![Head(waiting)] = "refused"]
  /\ waiting' = Dequeued
  /\ at' = "acceptedAgain"
  /\ UNCHANGED <<file_fd>>

CloseAccepted ==
  /\ at = "acceptedAgain"
  /\ Close(idlefd)
  /\ at' = "refused"
  /\ UNCHANGED <<waiting, state, idlefd, file_fd>>

Reopen ==
  /\ at = "refused"
  /\ IF Free = {} THEN idlefd' = 0 /\ UNCHANGED owner
     ELSE idlefd' = Lowest /\ Give(Lowest, Main)
  /\ at' = "loop"
  /\ UNCHANGED <<waiting, state, file_fd>>
-----------------------------------------------------------------------------
NewConnection ==
  Accept \/ AcceptFails \/ CloseIdle \/ AcceptAgain \/ CloseAccepted \/ Reopen

Next ==
  \/ NewConnection
  \/ \E c \in Clients : Connects(c) \/ Resets(c) \/ Ends(c)
  \/ \E w \in Workers : OpenPage(w) \/ ClosePage(w)

Spec == Init /\ [][Next]_acceptorVars

\* The main thread and the workers are scheduled; clients do as they like.
FairSpec ==
  /\ Spec
  /\ WF_acceptorVars(NewConnection)
  /\ \A w \in Workers : WF_acceptorVars(ClosePage(w))
-----------------------------------------------------------------------------
\* The types, and: every descriptor in use has one owner, who knows it.
TypeOK ==
  /\ waiting \in Seq(Clients)
  /\ \A c \in Clients : (\E i \in DOMAIN waiting : waiting[i] = c) =>
       state[c] \in {"waiting", "reset"}
  /\ state \in [Clients -> {"new", "waiting", "reset", "accepted", "refused", "ended"}]
  /\ owner \in [Fds -> Clients \cup Workers \cup {Main, None}]
  /\ idlefd \in Fds \cup {0}
  /\ file_fd \in [Workers -> Fds \cup {0}]
  /\ \A f \in Fds, w \in Workers : owner[f] = w <=> file_fd[w] = f
  /\ \A c \in Clients : (\E f \in Fds : owner[f] = c) <=> state[c] = "accepted"
  /\ at \in {"loop", "failed", "idleClosed", "acceptedAgain", "refused"}

\* The main thread closes no descriptor of another thread.  idlefd keeps its
\* number after close(), and a worker or a new connection may have that
\* number by then: whenever newConnection() is about to close idlefd it is
\* -1 or the main thread's own.  No descriptor of the main thread is lost.
NoForeignClose ==
  /\ at \in {"loop", "failed", "acceptedAgain"} /\ idlefd # 0 => owner[idlefd] = Main
  /\ \A f \in Fds : owner[f] = Main => f = idlefd

\* No descriptor is free and there is no reserve to give up.
ReserveLost == idlefd = 0 /\ Free = {}
LostToConnections == ReserveLost /\ \A f \in Fds : owner[f] \in Clients

\* A client in the backlog is accepted, or refused when there are no
\* descriptors, and never left to wait while the main thread spins on a
\* readable listening socket, as long as it has its reserve.  It may lose the
\* reserve to a page, and pages that are opened for ever can then keep every
\* descriptor whenever it tries; if the opening of pages pauses, a client
\* waits only while connections have every descriptor, the reserve too.
ClientsAreAnswered ==
  /\ \A c \in Clients : state[c] = "waiting" ~> (state[c] # "waiting" \/ ReserveLost)
  /\ \/ []<><<\E w \in Workers : OpenPage(w)>>_acceptorVars
     \/ \A c \in Clients :
          state[c] = "waiting" ~> (state[c] # "waiting" \/ LostToConnections)
=============================================================================
