--------------------------- MODULE ConnectionPool ---------------------------
(***************************************************************************)
(* http/sql_connection_pool: the connections to the database that the I/O  *)
(* threads share, with a mutex and the condition reserve.                  *)
(*                                                                         *)
(* GetConnection() tests the list before it locks, and ReleaseConnection() *)
(* signals after it has unlocked; the rest is one critical section each.   *)
(* The destructor of the static pool runs in exit(), while other threads   *)
(* may be anywhere: DestroyPool(), then those of connList and _mutex.      *)
(* What a thread does with these after that is undefined: it leaves the    *)
(* pool misused, of which nothing is claimed any more.                     *)
(***************************************************************************)
EXTENDS Integers, Sequences, FiniteSets

CONSTANTS
  Threads,  \* threads that use the pool
  MaxConn,  \* m_MaxConn
  NULL      \* no connection

ASSUME ConnectionPoolAssumption ==
  /\ IsFiniteSet(Threads)
  /\ MaxConn \in Nat
  /\ NULL \notin 1..MaxConn

VARIABLES
  connList,    \* the free connections, first to be taken first
  m_FreeConn,  \* its counter
  m_CurConn,   \* connections in use
  conRAII,     \* connection each thread has, NULL for none
  poolAt,      \* where each thread is in the pool
  closed,      \* connections given to mysql_close()
  reserve,     \* threads asleep on the condition
  woken,       \* threads whose wait() is to return
  pool         \* alive, emptied by DestroyPool(), destroyed, or misused

poolVars ==
  <<connList, m_FreeConn, m_CurConn, conRAII, poolAt, closed, reserve, woken, pool>>

\* init()
PoolInit ==
  /\ connList = [i \in 1..MaxConn |-> i]
  /\ m_FreeConn = MaxConn
  /\ m_CurConn = 0
  /\ conRAII = [t \in Threads |-> NULL]
  /\ poolAt = [t \in Threads |-> "out"]
  /\ closed = {}
  /\ reserve = {} /\ woken = {}
  /\ pool = "alive"

\* connList and _mutex are there.
Usable == pool \in {"alive", "emptied"}

\* The test of the list: NULL at once, or on to the lock.
TestList(t) ==
  /\ Usable /\ poolAt[t] = "out"
  /\ poolAt' = [poolAt EXCEPT ![t] = IF connList = <<>> THEN "using" ELSE "locking"]
  /\ UNCHANGED <<connList, m_FreeConn, m_CurConn, conRAII, closed, reserve, woken, pool>>

InGetConnection(t) == poolAt[t] = "locking" /\ t \notin reserve

\* Mutant: pop_front() is forgotten.
PopNothing == UNCHANGED connList

PopFront == connList' = Tail(connList)

TakeConnection(t) ==
  /\ Usable /\ InGetConnection(t)
  /\ m_FreeConn # 0
  /\ conRAII' = [conRAII EXCEPT ![t] = Head(connList)]
  /\ PopFront
  /\ m_FreeConn' = m_FreeConn - 1
  /\ m_CurConn' = m_CurConn + 1
  /\ poolAt' = [poolAt EXCEPT ![t] = "using"]
  /\ woken' = woken \ {t}
  /\ UNCHANGED <<closed, reserve, pool>>

WaitForConnection(t) ==
  /\ Usable /\ InGetConnection(t)
  /\ m_FreeConn = 0
  /\ reserve' = reserve \cup {t}
  /\ woken' = woken \ {t}
  /\ UNCHANGED <<connList, m_FreeConn, m_CurConn, conRAII, poolAt, closed, pool>>

\* Mutant: a thread that was given NULL releases it like a connection.
IsNull(con) == FALSE

NothingToRelease(con) == con = NULL

ReleaseConnection(t) ==
  /\ poolAt[t] = "using"
  /\ IF NothingToRelease(conRAII[t])
     THEN /\ poolAt' = [poolAt EXCEPT ![t] = "out"]
          /\ UNCHANGED <<connList, m_FreeConn, m_CurConn>>
     ELSE /\ Usable
          /\ poolAt' = [poolAt EXCEPT ![t] = "signalling"]
          /\ connList' = Append(connList, conRAII[t])
          /\ m_FreeConn' = m_FreeConn + 1
          /\ m_CurConn' = m_CurConn - 1
  /\ conRAII' = [conRAII EXCEPT ![t] = NULL]
  /\ UNCHANGED <<closed, reserve, woken, pool>>

\* Mutant: the signal is given only if the list was empty.
SleepersIfFirst == IF m_FreeConn = 1 THEN reserve ELSE {}

Sleepers == reserve

\* reserve->wakeUpOne(), of a condition that is never destroyed.
WakeUpOne(t) ==
  /\ poolAt[t] = "signalling"
  /\ poolAt' = [poolAt EXCEPT ![t] = "out"]
  /\ \/ Sleepers = {} /\ UNCHANGED <<reserve, woken>>
     \/ \E u \in Sleepers : reserve' = reserve \ {u} /\ woken' = woken \cup {u}
  /\ UNCHANGED <<connList, m_FreeConn, m_CurConn, conRAII, closed, pool>>

\* pthread_cond_wait may return with no signal.
PoolSpuriousWakeup(t) ==
  /\ t \in reserve
  /\ reserve' = reserve \ {t}
  /\ woken' = woken \cup {t}
  /\ UNCHANGED <<connList, m_FreeConn, m_CurConn, conRAII, poolAt, closed, pool>>

\* Closes the free connections; a thread may release its own after that.
DestroyPool ==
  /\ pool = "alive" /\ pool' = "emptied"
  /\ closed' = closed \cup {connList[i] : i \in DOMAIN connList}
  /\ connList' = <<>>
  /\ IF connList = <<>> THEN UNCHANGED <<m_FreeConn, m_CurConn>>
     ELSE m_FreeConn' = 0 /\ m_CurConn' = 0
  /\ UNCHANGED <<conRAII, poolAt, reserve, woken>>

\* The members of the pool are destroyed after the body of its destructor.
DestroyMembers ==
  /\ pool = "emptied" /\ pool' = "destroyed"
  /\ UNCHANGED <<connList, m_FreeConn, m_CurConn, conRAII, poolAt, closed, reserve, woken>>

\* A thread tests, locks or fills what is destroyed.
Misuse(t) ==
  /\ pool = "destroyed" /\ pool' = "misused"
  /\ \/ poolAt[t] = "out"
     \/ InGetConnection(t)
     \/ poolAt[t] = "using" /\ conRAII[t] # NULL
  /\ UNCHANGED <<connList, m_FreeConn, m_CurConn, conRAII, poolAt, closed, reserve, woken>>

PoolNext ==
  \/ DestroyPool \/ DestroyMembers
  \/ \E t \in Threads :
       \/ TestList(t) \/ TakeConnection(t) \/ WaitForConnection(t)
       \/ ReleaseConnection(t) \/ WakeUpOne(t) \/ PoolSpuriousWakeup(t)
       \/ Misuse(t)

PoolSpec == PoolInit /\ [][PoolNext]_poolVars
-----------------------------------------------------------------------------
Connections == 1..MaxConn

\* Free and used connections; DestroyPool() counts those in use as closed.
Counted == IF closed = {} THEN MaxConn ELSE 0

\* The types, and: the counters agree with the list and with each other.
PoolTypeOK ==
  /\ connList \in Seq(Connections)
  /\ m_FreeConn = Len(connList) /\ m_FreeConn + m_CurConn = Counted
  /\ conRAII \in [Threads -> Connections \cup {NULL}]
  /\ poolAt \in [Threads -> {"out", "locking", "using", "signalling"}]
  /\ \A t \in Threads : conRAII[t] # NULL => poolAt[t] = "using"
  /\ closed \subseteq Connections
  /\ reserve \subseteq Threads /\ woken \subseteq Threads
  /\ \A t \in reserve \cup woken : poolAt[t] = "locking"
  /\ reserve \cap woken = {}
  /\ pool \in {"alive", "emptied", "destroyed", "misused"}

\* A thread has used connList or _mutex after their destruction.
Misused == pool = "misused"

\* A connection is in the list once or used by one thread, never two, and it
\* is open, also while the process exits, until a thread locks or searches
\* what exit() has destroyed.
Exclusive ==
  ~Misused =>
    /\ \A i, j \in DOMAIN connList : connList[i] = connList[j] => i = j
    /\ \A i \in DOMAIN connList : connList[i] \notin closed
    /\ \A t \in Threads : conRAII[t] # NULL =>
         /\ conRAII[t] \notin closed
         /\ \A i \in DOMAIN connList : connList[i] # conRAII[t]
         /\ \A u \in Threads : conRAII[u] = conRAII[t] => u = t

\* The signal comes after the unlock, and newcomers may take the connection
\* first; still nobody sleeps beside a free connection unless as many threads
\* as there are free connections are woken or about to signal, or the mutex
\* was used after its destruction.
NoSleepBesideFree ==
  ~Misused /\ reserve # {} =>
    m_FreeConn <= Cardinality(woken) + Cardinality({t \in Threads : poolAt[t] = "signalling"})
=============================================================================
