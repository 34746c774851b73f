--------------------------- MODULE AcceptorProofs ---------------------------
(***************************************************************************)
(* newConnection() at the limit of descriptors, for any number of clients, *)
(* I/O threads and descriptors: every descriptor in use has one owner, who *)
(* knows it, and the main thread closes no other's.                        *)
(***************************************************************************)
EXTENDS Acceptor, WellFoundedInduction, TLAPS

InBacklog(c) == \E i \in DOMAIN waiting : waiting[i] = c
NobodyTwice == \A i, j \in DOMAIN waiting : waiting[i] = waiting[j] => i = j

\* Between the close() of idlefd and the next assignment to it the main
\* thread has no descriptor: the number in idlefd may be anybody's.
NothingOfMain == at \in {"idleClosed", "refused"} => \A f \in Fds : owner[f] # Main

\* TypeOK in parts.
Types ==
  /\ waiting \in Seq(Clients)
  /\ state \in [Clients -> {"new", "waiting", "reset", "accepted", "refused", "ended"}]
  /\ owner \in [Fds -> Clients \cup Workers \cup {Main, None}]
  /\ idlefd \in Fds \cup {0}
  /\ file_fd \in [Workers -> Fds \cup {0}]
  /\ at \in {"loop", "failed", "idleClosed", "acceptedAgain", "refused"}

BacklogWaits == \A c \in Clients : InBacklog(c) => state[c] \in {"waiting", "reset"}
PagesAreOwned == \A f \in Fds, w \in Workers : owner[f] = w <=> file_fd[w] = f
ConnectionsAreOwners ==
  \A c \in Clients : (\E f \in Fds : owner[f] = c) <=> state[c] = "accepted"

\* The inductive invariant.  NoForeignClose says nothing of the two moments
\* in which idlefd is stale; that what it names then is not closed rests on
\* its being assigned, to -1 if need be, before the next close().
IInv ==
  /\ Types /\ BacklogWaits /\ PagesAreOwned /\ ConnectionsAreOwners
  /\ NobodyTwice /\ NothingOfMain /\ NoForeignClose

USE AcceptorAssumption
-----------------------------------------------------------------------------
(* Descriptors and the backlog.                                            *)

\* A set of natural numbers that is not empty has a least element.
LEMMA Least ==
  ASSUME NEW S \in SUBSET Nat, S # {}
  PROVE  (CHOOSE x \in S : \A y \in S : x <= y) \in S
  <1> DEFINE R == {ss \in Nat \X Nat : ss[1] < ss[2]}
  <1>1. R = OpToRel(<, Nat)
    BY Zenon DEF OpToRel
  <1>2. IsWellFoundedOn(R, Nat)
    BY <1>1, NatLessThanWellFounded
  <1> HIDE DEF R
  <1>3. \E x \in S : \A y \in S : ~(<<y, x>> \in R)
    <2>1. S \subseteq Nat
      OBVIOUS
    <2> QED BY <1>2, <2>1, WFMin, Zenon
  <1>4. PICK x \in S : \A y \in S : ~(<<y, x>> \in R)
    BY <1>3
  <1>5. ASSUME NEW y \in S PROVE x <= y
    <2>1. x \in Nat /\ y \in Nat /\ <<y, x>> \in Nat \X Nat
      OBVIOUS
    <2>2. <<y, x>> \notin R
      BY <1>4
    <2> QED BY <2>1, <2>2 DEF R
  <1> QED BY <1>5

\* The kernel gives the lowest descriptor that nobody has.
LEMMA LowestIsFree ==
  ASSUME Free # {}
  PROVE  Lowest \in Fds /\ owner[Lowest] = None /\ Lowest # 0
  <1>1. Free \in SUBSET Nat
    BY DEF Free, Fds
  <1>2. Lowest \in Free
    BY <1>1, Least DEF Lowest
  <1> QED BY <1>2 DEF Free, Fds

\* A client joins the backlog.
LEMMA Joined ==
  ASSUME waiting \in Seq(Clients), NobodyTwice, NEW c \in Clients, ~InBacklog(c),
         waiting' = Append(waiting, c)
  PROVE  /\ waiting' \in Seq(Clients) /\ NobodyTwice'
         /\ \A d \in Clients : InBacklog(d)' => d = c \/ InBacklog(d)
  <1>1. /\ waiting' \in Seq(Clients) /\ Len(waiting) \in Nat
        /\ DOMAIN waiting = 1..Len(waiting) /\ DOMAIN waiting' = 1..(Len(waiting) + 1)
        /\ \A n \in 1..Len(waiting) : waiting'[n] = waiting[n]
        /\ waiting'[Len(waiting) + 1] = c
    OBVIOUS
  <1>2. NobodyTwice'
    BY <1>1 DEF NobodyTwice, InBacklog
  <1>3. ASSUME NEW d \in Clients, InBacklog(d)' PROVE d = c \/ InBacklog(d)
    BY <1>1, <1>3 DEF InBacklog
  <1> QED BY <1>1, <1>2, <1>3

\* accept() takes the client at the head, if it takes one.
LEMMA Left ==
  ASSUME waiting \in Seq(Clients), NobodyTwice, waiting' = Dequeued
  PROVE  /\ waiting' \in Seq(Clients) /\ NobodyTwice'
         /\ \A d \in Clients : InBacklog(d)' => InBacklog(d)
         /\ Free # {} /\ waiting # <<>> =>
              /\ Head(waiting) \in Clients /\ InBacklog(Head(waiting))
              /\ \A d \in Clients : InBacklog(d)' => d # Head(waiting)
  <1>1. CASE Free = {} \/ waiting = <<>>
    BY <1>1 DEF Dequeued, NobodyTwice, InBacklog
  <1>2. CASE Free # {} /\ waiting # <<>>
    <2>1. /\ waiting' \in Seq(Clients) /\ Len(waiting) \in Nat \ {0}
          /\ DOMAIN waiting = 1..Len(waiting) /\ DOMAIN waiting' = 1..(Len(waiting) - 1)
          /\ \A n \in 1..(Len(waiting) - 1) : waiting'[n] = waiting[n + 1]
          /\ Head(waiting) = waiting[1] /\ Head(waiting) \in Clients
      BY <1>2 DEF Dequeued
    <2>2. ASSUME NEW n \in DOMAIN waiting'
          PROVE  n + 1 \in DOMAIN waiting /\ waiting'[n] = waiting[n + 1] /\ n + 1 # 1
      BY <2>1
    <2>3. NobodyTwice'
      <3>1. ASSUME NEW i \in DOMAIN waiting', NEW j \in DOMAIN waiting', waiting'[i] = waiting'[j]
            PROVE  i = j
        <4>1. i + 1 = j + 1
          BY <2>2, <3>1 DEF NobodyTwice
        <4> QED BY <2>1, <4>1
      <3> QED BY <3>1 DEF NobodyTwice
    <2>4. ASSUME NEW d \in Clients, InBacklog(d)'
          PROVE  InBacklog(d) /\ d # Head(waiting)
      <3>1. PICK n \in DOMAIN waiting' : waiting'[n] = d
        BY <2>4 DEF InBacklog
      <3>2. n + 1 \in DOMAIN waiting /\ waiting[n + 1] = d /\ n + 1 # 1
        BY <2>2, <3>1
      <3>3. 1 \in DOMAIN waiting /\ waiting[1] = Head(waiting)
        BY <2>1
      <3> QED BY <3>2, <3>3 DEF InBacklog, NobodyTwice
    <2>5. InBacklog(Head(waiting))
      BY <2>1 DEF InBacklog
    <2> QED BY <2>1, <2>3, <2>4, <2>5
  <1> QED BY <1>1, <1>2

\* The owners of descriptors are different from each other.
LEMMA OwnersAreApart ==
  /\ \A c \in Clients : c # Main /\ c # None /\ c \notin Workers
  /\ \A w \in Workers : w # Main /\ w # None /\ w \notin Clients
  /\ Main # None
  OBVIOUS
-----------------------------------------------------------------------------
(* The invariant over the steps.                                           *)

LEMMA InitHolds == Init => IInv
  <1> SUFFICES ASSUME Init PROVE IInv
    OBVIOUS
  <1>1. 1 \in Fds /\ 0 \notin Fds /\ DOMAIN waiting = {} /\ waiting = <<>>
    BY DEF Init, Fds
  <1>2. Types /\ PagesAreOwned /\ ConnectionsAreOwners
    BY <1>1, OwnersAreApart DEF Init, Types, PagesAreOwned, ConnectionsAreOwners
  <1>3. BacklogWaits /\ NobodyTwice
    BY <1>1 DEF BacklogWaits, InBacklog, NobodyTwice
  <1> QED
    BY <1>1, <1>2, <1>3, OwnersAreApart DEF Init, IInv, NothingOfMain, NoForeignClose

\* What rests on the owners, on idlefd and on the files of the workers.
LEMMA OwnersUntouched ==
  ASSUME UNCHANGED <<owner, idlefd, file_fd>>
  PROVE  /\ PagesAreOwned => PagesAreOwned'
         /\ NothingOfMain /\ NoForeignClose /\ at' = at => NothingOfMain' /\ NoForeignClose'
  BY DEF PagesAreOwned, NothingOfMain, NoForeignClose

\* A step that leaves the backlog alone keeps what is said of it.
LEMMA BacklogUntouched ==
  UNCHANGED waiting =>
    /\ NobodyTwice => NobodyTwice'
    /\ \A c \in Clients : InBacklog(c)' <=> InBacklog(c)
  BY DEF NobodyTwice, InBacklog

\* A client joins the backlog.
LEMMA ConnectsHolds ==
  ASSUME NEW c \in Clients, IInv, Connects(c)
  PROVE  IInv'
  <1>1. ~InBacklog(c) /\ waiting \in Seq(Clients)
    BY DEF IInv, Types, InBacklog, Connects
  <1>2. /\ waiting' \in Seq(Clients) /\ NobodyTwice'
        /\ \A d \in Clients : InBacklog(d)' => d = c \/ InBacklog(d)
    BY <1>1, Joined DEF IInv, Connects
  <1>3. BacklogWaits'
    BY <1>2 DEF IInv, Types, BacklogWaits, Connects
  <1>4. Types'
    BY <1>2 DEF IInv, Types, Connects
  <1>5. ConnectionsAreOwners'
    BY DEF IInv, Types, ConnectionsAreOwners, Connects
  <1> QED BY <1>2, <1>3, <1>4, <1>5, OwnersUntouched DEF IInv, Connects

\* A waiting client resets its connection.
LEMMA ResetsHolds ==
  ASSUME NEW c \in Clients, IInv, Resets(c)
  PROVE  IInv'
  <1>1. Types'
    BY DEF IInv, Types, Resets
  <1>2. BacklogWaits' /\ ConnectionsAreOwners' /\ NobodyTwice'
    BY BacklogUntouched DEF IInv, Types, BacklogWaits, ConnectionsAreOwners, Resets
  <1> QED BY <1>1, <1>2, OwnersUntouched DEF IInv, Resets

\* A connection that ends gives up its descriptor and no other.
LEMMA EndsHolds ==
  ASSUME NEW c \in Clients, IInv, Ends(c)
  PROVE  IInv'
  <1>1. \A f \in Fds : owner'[f] = IF owner[f] = c THEN None ELSE owner[f]
    BY DEF Ends
  <1>2. Types'
    BY DEF IInv, Types, Ends
  <1>3. PagesAreOwned'
    BY <1>1, OwnersAreApart DEF IInv, PagesAreOwned, Ends
  <1>4. ConnectionsAreOwners'
    BY <1>1, OwnersAreApart DEF IInv, Types, ConnectionsAreOwners, Ends
  <1>5. BacklogWaits' /\ NobodyTwice'
    BY BacklogUntouched DEF IInv, Types, BacklogWaits, Ends
  <1>6. NothingOfMain' /\ NoForeignClose'
    BY <1>1, OwnersAreApart DEF IInv, Types, Fds, NothingOfMain, NoForeignClose, Ends
  <1> QED BY <1>2, <1>3, <1>4, <1>5, <1>6 DEF IInv

\* A worker opens a page on a free descriptor.
LEMMA OpenPageHolds ==
  ASSUME NEW w \in Workers, IInv, OpenPage(w)
  PROVE  IInv'
  <1>1. Lowest \in Fds /\ owner[Lowest] = None /\ Lowest # 0
    BY LowestIsFree DEF OpenPage
  <1>2. \A f \in Fds : owner'[f] = IF f = Lowest THEN w ELSE owner[f]
    BY <1>1 DEF OpenPage, Give, IInv, Types
  <1>3. Types'
    <2>1. owner' \in [Fds -> Clients \cup Workers \cup {Main, None}]
      BY DEF IInv, Types, OpenPage, Give
    <2>2. file_fd' \in [Workers -> Fds \cup {0}]
      BY <1>1 DEF IInv, Types, OpenPage
    <2> QED BY <2>1, <2>2 DEF IInv, Types, OpenPage
  <1>4. \A v \in Workers : file_fd'[v] = IF v = w THEN Lowest ELSE file_fd[v]
    BY DEF OpenPage, IInv, Types
  <1>5. 0 \notin Fds /\ file_fd[w] = 0
    BY DEF Fds, OpenPage
  <1>6. PagesAreOwned'
    BY <1>1, <1>2, <1>4, <1>5, OwnersAreApart DEF IInv, PagesAreOwned
  <1>7. ConnectionsAreOwners'
    BY <1>1, <1>2, OwnersAreApart DEF IInv, ConnectionsAreOwners, OpenPage
  <1>8. BacklogWaits' /\ NobodyTwice'
    BY BacklogUntouched DEF IInv, BacklogWaits, OpenPage
  <1>9. NothingOfMain' /\ NoForeignClose'
    BY <1>1, <1>2, OwnersAreApart DEF IInv, Types, NothingOfMain, NoForeignClose, OpenPage
  <1> QED BY <1>3, <1>6, <1>7, <1>8, <1>9 DEF IInv

\* A worker closes its own page.
LEMMA ClosePageHolds ==
  ASSUME NEW w \in Workers, IInv, ClosePage(w)
  PROVE  IInv'
  <1>1. file_fd[w] \in Fds /\ owner[file_fd[w]] = w /\ 0 \notin Fds
    BY DEF ClosePage, IInv, Types, PagesAreOwned, Fds
  <1>2. \A f \in Fds : owner'[f] = IF f = file_fd[w] THEN None ELSE owner[f]
    BY DEF ClosePage, Close
  <1>3. Types'
    BY DEF IInv, Types, ClosePage, Close
  <1>4. \A v \in Workers : file_fd'[v] = IF v = w THEN 0 ELSE file_fd[v]
    BY DEF ClosePage, IInv, Types
  <1>5. PagesAreOwned'
    BY <1>1, <1>2, <1>4, OwnersAreApart DEF IInv, PagesAreOwned
  <1>6. ConnectionsAreOwners'
    BY <1>1, <1>2, OwnersAreApart DEF IInv, ConnectionsAreOwners, ClosePage
  <1>7. BacklogWaits' /\ NobodyTwice'
    BY BacklogUntouched DEF IInv, BacklogWaits, ClosePage
  <1>8. NothingOfMain' /\ NoForeignClose'
    BY <1>1, <1>2, OwnersAreApart DEF IInv, Types, NothingOfMain, NoForeignClose, ClosePage
  <1> QED BY <1>3, <1>5, <1>6, <1>7, <1>8 DEF IInv

\* The client at the head is given a descriptor that nobody has.
LEMMA AcceptHolds == IInv /\ Accept => IInv'
  <1> SUFFICES ASSUME IInv, Accept PROVE IInv'
    OBVIOUS
  <1>1. /\ waiting' = Dequeued /\ Free # {} /\ waiting # <<>> /\ waiting \in Seq(Clients)
        /\ NobodyTwice
    BY DEF IInv, Types, Accept, Fails
  <1>2. Lowest \in Fds /\ owner[Lowest] = None /\ Lowest # 0
    BY <1>1, LowestIsFree
  <1>3. PICK c \in Clients : c = Head(waiting) /\ InBacklog(c)
    BY <1>1, Left
  <1>4. /\ waiting' \in Seq(Clients) /\ NobodyTwice'
        /\ \A d \in Clients : InBacklog(d)' => InBacklog(d) /\ d # c
    BY <1>1, <1>3, Left
  <1>5. /\ state' = [state EXCEPT ![c] = "accepted"] /\ state[c] \in {"waiting", "reset"}
        /\ owner' = [owner EXCEPT ![Lowest] = c]
    BY <1>3 DEF Accept, Give, IInv, BacklogWaits
  <1>6. Types'
    BY <1>2, <1>4, <1>5 DEF IInv, Types, Accept
  <1>7. /\ \A f \in Fds : owner'[f] = IF f = Lowest THEN c ELSE owner[f]
        /\ \A d \in Clients : state'[d] = IF d = c THEN "accepted" ELSE state[d]
    BY <1>5 DEF IInv, Types
  <1>8. BacklogWaits'
    BY <1>4, <1>7 DEF IInv, BacklogWaits
  <1>9. PagesAreOwned'
    BY <1>2, <1>7, OwnersAreApart DEF IInv, PagesAreOwned, Accept
  <1>10. ConnectionsAreOwners'
    BY <1>2, <1>7, OwnersAreApart DEF IInv, ConnectionsAreOwners
  <1>11. NothingOfMain' /\ NoForeignClose'
    BY <1>2, <1>7, OwnersAreApart DEF IInv, Types, NothingOfMain, NoForeignClose, Accept
  <1> QED BY <1>4, <1>6, <1>8, <1>9, <1>10, <1>11 DEF IInv

\* A failed accept() of any kind takes the EMFILE path.
LEMMA AcceptFailsHolds == IInv /\ AcceptFails => IInv'
  <1> SUFFICES ASSUME IInv, AcceptFails PROVE IInv'
    OBVIOUS
  <1>1. /\ waiting' \in Seq(Clients) /\ NobodyTwice'
        /\ \A d \in Clients : InBacklog(d)' => InBacklog(d)
    BY Left DEF IInv, Types, AcceptFails
  <1>2. Types'
    BY <1>1 DEF IInv, Types, AcceptFails
  <1>3. BacklogWaits' /\ ConnectionsAreOwners'
    BY <1>1 DEF IInv, BacklogWaits, ConnectionsAreOwners, AcceptFails
  <1>4. NothingOfMain' /\ NoForeignClose'
    BY DEF IInv, NothingOfMain, NoForeignClose, AcceptFails
  <1> QED BY <1>1, <1>2, <1>3, <1>4, OwnersUntouched DEF IInv, AcceptFails

\* A close() of idlefd by the main thread while it is its own, or -1: the
\* only descriptor of the main thread goes, and no other.
LEMMA OwnClose ==
  ASSUME IInv, at \in {"failed", "acceptedAgain"}, Close(idlefd),
         at' \in {"idleClosed", "refused"},
         UNCHANGED <<waiting, state, idlefd, file_fd>>
  PROVE  IInv'
  <1>1. /\ idlefd = 0 \/ (idlefd \in Fds /\ owner[idlefd] = Main)
        /\ \A f \in Fds : owner[f] = Main => f = idlefd
    BY DEF IInv, Types, NoForeignClose
  <1>2. 0 \notin Fds
    BY DEF Fds
  <1>3. \A f \in Fds : owner'[f] = IF owner[f] = Main THEN None ELSE owner[f]
    BY <1>1, <1>2 DEF Close
  <1>4. Types'
    BY DEF IInv, Types, Close
  <1>5. /\ \A f \in Fds, w \in Workers : owner'[f] = w <=> owner[f] = w
        /\ \A f \in Fds, c \in Clients : owner'[f] = c <=> owner[f] = c
        /\ \A f \in Fds : owner'[f] # Main
    BY <1>3, OwnersAreApart
  <1>6. PagesAreOwned' /\ ConnectionsAreOwners'
    BY <1>5 DEF IInv, PagesAreOwned, ConnectionsAreOwners
  <1>7. BacklogWaits' /\ NobodyTwice'
    BY BacklogUntouched DEF IInv, BacklogWaits
  <1> QED
    BY <1>4, <1>5, <1>6, <1>7 DEF IInv, NothingOfMain, NoForeignClose

\* close(idlefd), when idlefd is the descriptor of the reserve.
LEMMA CloseIdleHolds == IInv /\ CloseIdle => IInv'
  BY OwnClose DEF CloseIdle

\* close(idlefd), when idlefd is what the second accept() returned.
LEMMA CloseAcceptedHolds == IInv /\ CloseAccepted => IInv'
  BY OwnClose DEF CloseAccepted

\* The number in idlefd is stale here, and is replaced: by -1, or by that of
\* a descriptor that was free.
LEMMA NewIdlefd ==
  ASSUME IInv, \A f \in Fds : owner[f] # Main,
         \/ idlefd' = 0 /\ UNCHANGED owner
         \/ Free # {} /\ idlefd' = Lowest /\ Give(Lowest, Main),
         UNCHANGED file_fd, at' \notin {"idleClosed", "refused"},
         NEW c, state' = [state EXCEPT ![c] = "refused"] \/ UNCHANGED state,
         \A d \in Clients : d = c => state[d] # "accepted"
  PROVE  /\ owner' \in [Fds -> Clients \cup Workers \cup {Main, None}] /\ idlefd' \in Fds \cup {0}
         /\ PagesAreOwned' /\ ConnectionsAreOwners' /\ NothingOfMain' /\ NoForeignClose'
  <1>1. \A d \in Clients : state'[d] = "accepted" <=> state[d] = "accepted"
    BY DEF IInv, Types
  <1>2. CASE idlefd' = 0 /\ UNCHANGED owner
    <2>1. PagesAreOwned' /\ ConnectionsAreOwners'
      BY <1>1, <1>2 DEF IInv, PagesAreOwned, ConnectionsAreOwners
    <2>2. owner' \in [Fds -> Clients \cup Workers \cup {Main, None}] /\ idlefd' \in Fds \cup {0}
      BY <1>2 DEF IInv, Types
    <2> QED BY <1>2, <2>1, <2>2 DEF NothingOfMain, NoForeignClose
  <1>3. CASE Free # {} /\ idlefd' = Lowest /\ Give(Lowest, Main)
    <2>1. Lowest \in Fds /\ owner[Lowest] = None /\ Lowest # 0
      BY <1>3, LowestIsFree
    <2>2. \A f \in Fds : owner'[f] = IF f = Lowest THEN Main ELSE owner[f]
      BY <1>3 DEF Give, IInv, Types
    <2>3. owner' \in [Fds -> Clients \cup Workers \cup {Main, None}] /\ idlefd' \in Fds \cup {0}
      BY <1>3, <2>1 DEF Give, IInv, Types
    <2>4. /\ \A f \in Fds, w \in Workers : owner'[f] = w <=> owner[f] = w
          /\ \A f \in Fds, d \in Clients : owner'[f] = d <=> owner[f] = d
      BY <2>1, <2>2, OwnersAreApart
    <2>5. PagesAreOwned' /\ ConnectionsAreOwners'
      BY <1>1, <2>4 DEF IInv, PagesAreOwned, ConnectionsAreOwners
    <2>6. NothingOfMain' /\ NoForeignClose'
      BY <1>3, <2>1, <2>2 DEF NothingOfMain, NoForeignClose
    <2> QED BY <2>3, <2>5, <2>6
  <1> QED BY <1>2, <1>3

\* The second accept() of the EMFILE path.
LEMMA AcceptAgainHolds == IInv /\ AcceptAgain => IInv'
  <1> SUFFICES ASSUME IInv, AcceptAgain PROVE IInv'
    OBVIOUS
  <1> DEFINE c == Head(waiting)
  <1>1. /\ at = "idleClosed" /\ at' = "acceptedAgain" /\ waiting' = Dequeued
        /\ waiting \in Seq(Clients) /\ NobodyTwice /\ \A f \in Fds : owner[f] # Main
        /\ file_fd' = file_fd
    BY DEF IInv, Types, AcceptAgain, NothingOfMain
  <1>2. /\ waiting' \in Seq(Clients) /\ NobodyTwice'
        /\ \A d \in Clients : InBacklog(d)' => InBacklog(d)
    BY <1>1, Left
  <1>3. CASE Fails
    <2>1. idlefd' = 0 /\ owner' = owner /\ state' = state
      BY <1>3 DEF AcceptAgain
    <2>2. PagesAreOwned' /\ ConnectionsAreOwners' /\ NothingOfMain' /\ NoForeignClose'
      BY <1>1, <2>1
      DEF IInv, PagesAreOwned, ConnectionsAreOwners, NothingOfMain, NoForeignClose
    <2>3. Types' /\ BacklogWaits'
      BY <1>1, <1>2, <2>1 DEF IInv, Types, BacklogWaits
    <2> QED BY <1>2, <2>2, <2>3 DEF IInv
  <1>4. CASE ~Fails
    <2>1. Free # {} /\ waiting # <<>>
      BY <1>4 DEF AcceptAgain, Fails
    <2>2. PICK e \in Clients : e = c /\ InBacklog(e)
      BY <1>1, <2>1, Left
    <2>3. \A d \in Clients : InBacklog(d)' => d # e
      BY <1>1, <2>1, <2>2, Left
    <2>4. /\ state' = [state EXCEPT ![e] = "refused"] /\ state[e] \in {"waiting", "reset"}
          /\ idlefd' = Lowest /\ Give(Lowest, Main)
      BY <1>4, <2>2 DEF AcceptAgain, IInv, BacklogWaits
    <2>5. /\ owner' \in [Fds -> Clients \cup Workers \cup {Main, None}]
          /\ idlefd' \in Fds \cup {0}
          /\ PagesAreOwned' /\ ConnectionsAreOwners' /\ NothingOfMain' /\ NoForeignClose'
      BY <1>1, <2>1, <2>4, NewIdlefd
    <2>6. Types' /\ BacklogWaits'
      BY <1>1, <1>2, <2>3, <2>4, <2>5 DEF IInv, Types, BacklogWaits
    <2> QED BY <1>2, <2>5, <2>6 DEF IInv
  <1> QED BY <1>3, <1>4

\* The reserve is opened again, if a descriptor is free.
LEMMA ReopenHolds == IInv /\ Reopen => IInv'
  <1> SUFFICES ASSUME IInv, Reopen PROVE IInv'
    OBVIOUS
  <1>1. /\ at = "refused" /\ at' = "loop" /\ \A f \in Fds : owner[f] # Main
        /\ UNCHANGED <<waiting, state, file_fd>>
    BY DEF IInv, Reopen, NothingOfMain
  <1>2. \/ idlefd' = 0 /\ UNCHANGED owner
        \/ Free # {} /\ idlefd' = Lowest /\ Give(Lowest, Main)
    BY DEF Reopen
  <1>3. None \notin Clients
    OBVIOUS
  <1>4. /\ owner' \in [Fds -> Clients \cup Workers \cup {Main, None}] /\ idlefd' \in Fds \cup {0}
        /\ PagesAreOwned' /\ ConnectionsAreOwners' /\ NothingOfMain' /\ NoForeignClose'
    BY <1>1, <1>2, <1>3, NewIdlefd
  <1>5. Types' /\ BacklogWaits' /\ NobodyTwice'
    BY <1>1, <1>4, BacklogUntouched DEF IInv, Types, BacklogWaits
  <1> QED BY <1>4, <1>5 DEF IInv

\* A stuttering step keeps the invariant.
LEMMA StutterHolds == IInv /\ UNCHANGED acceptorVars => IInv'
  <1> SUFFICES ASSUME IInv, UNCHANGED acceptorVars PROVE IInv'
    OBVIOUS
  <1>1. UNCHANGED <<waiting, state, owner, idlefd, file_fd, at>>
    BY DEF acceptorVars
  <1>2. Types' /\ BacklogWaits' /\ ConnectionsAreOwners' /\ NobodyTwice'
    BY <1>1, BacklogUntouched DEF IInv, Types, BacklogWaits, ConnectionsAreOwners
  <1> QED BY <1>1, <1>2, OwnersUntouched DEF IInv

\* Every step keeps the invariant.
LEMMA StepHolds == IInv /\ [Next]_acceptorVars => IInv'
  BY ConnectsHolds, ResetsHolds, EndsHolds, OpenPageHolds, ClosePageHolds, AcceptHolds,
     AcceptFailsHolds, CloseIdleHolds, AcceptAgainHolds, CloseAcceptedHolds, ReopenHolds,
     StutterHolds
  DEF Next, NewConnection

\* The inductive invariant holds in every behaviour.
LEMMA Invariant == Spec => []IInv
  BY InitHolds, StepHolds, PTL DEF Spec
-----------------------------------------------------------------------------
(* The properties of the run.                                              *)

\* A descriptor has one owner, and a worker or connection that has one is
\* its owner: the reserve, taken by others while it was given up, is never
\* had by two, and no page or connection loses its descriptor to a close()
\* of somebody else.
THEOREM Typing == Spec => []TypeOK
  <1>1. IInv => TypeOK
    BY DEF IInv, TypeOK, Types, BacklogWaits, InBacklog, PagesAreOwned, ConnectionsAreOwners
  <1> QED BY <1>1, Invariant, PTL

\* When newConnection() closes idlefd it is its own or -1, whoever has taken
\* the descriptor that was given up, and the main thread loses none.
THEOREM OwnDescriptorsOnly == Spec => []NoForeignClose
  <1>1. IInv => NoForeignClose
    BY DEF IInv
  <1> QED BY <1>1, Invariant, PTL
=============================================================================
