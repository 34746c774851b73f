-------------------------- MODULE HttpServerProofs --------------------------
(***************************************************************************)
(* The connection_pool, then registration and login over it: a connection  *)
(* to the database never has two users, and what is answered with success  *)
(* is stored, for any number of threads, connections, names and passwords  *)
(* and whatever ends the process.                                          *)
(*                                                                         *)
(* Then the parser of one connection: onRequest() is given the requests    *)
(* that were sent, for any number and sizes of them and however the stream *)
(* is cut into pieces.                                                     *)
(***************************************************************************)
EXTENDS HttpServer, HttpContext, FiniteSetTheorems, SequenceTheorems, WellFoundedInduction,
        TLAPS
-----------------------------------------------------------------------------
(* The connection_pool, with threads that do anything with it.             *)

\* Exclusive alone is not inductive: that a taken connection leaves the list,
\* and that a released one was in use, needs the counter to be the length of
\* the list and the thread to have what it appends, which are in PoolTypeOK.
PoolIInv ==
  /\ PoolTypeOK
  /\ m_CurConn \in Int
  /\ Exclusive

USE ConnectionPoolAssumption DEF Connections, Counted

\* Nobody uses a connection of the full list.
LEMMA PoolInitIInv == PoolInit => PoolIInv
  BY DEF PoolInit, PoolIInv, PoolTypeOK, Exclusive

\* Taking the first connection moves it from the list to the thread.
LEMMA TakeKeeps ==
  ASSUME PoolIInv, NEW t \in Threads, TakeConnection(t)
  PROVE  PoolIInv'
  <1> USE DEF PoolIInv, PoolTypeOK, TakeConnection, InGetConnection, PopFront
  <1>1. Len(connList) # 0 /\ connList # <<>>
    OBVIOUS
  <1>0. /\ \A i, j \in DOMAIN connList : connList[i] = connList[j] => i = j
        /\ \A i \in DOMAIN connList : connList[i] \notin closed
        /\ \A u \in Threads : conRAII[u] # NULL =>
             /\ conRAII[u] \notin closed
             /\ \A i \in DOMAIN connList : connList[i] # conRAII[u]
             /\ \A v \in Threads : conRAII[v] = conRAII[u] => v = u
    BY DEF Exclusive, Usable, Misused
  <1>2. /\ Head(connList) = connList[1] /\ Head(connList) \in Connections
        /\ Tail(connList) \in Seq(Connections)
        /\ Len(Tail(connList)) = Len(connList) - 1
        /\ \A i \in DOMAIN Tail(connList) :
             i + 1 \in DOMAIN connList /\ Tail(connList)[i] = connList[i + 1]
    BY <1>1
  <1>3. PoolTypeOK'
    <2>1. /\ connList' \in Seq(Connections)
          /\ m_FreeConn' = Len(connList') /\ m_FreeConn' + m_CurConn' = Counted'
      BY <1>2
    <2>2. conRAII' \in [Threads -> Connections \cup {NULL}]
      BY <1>2
    <2>3. \A u \in Threads : conRAII'[u] # NULL => poolAt'[u] = "using"
      OBVIOUS
    <2>4. \A u \in reserve' \cup woken' : poolAt'[u] = "locking"
      OBVIOUS
    <2> QED BY <2>1, <2>2, <2>3, <2>4
  <1>4. Exclusive'
    <2>1. 1 \in DOMAIN connList /\ DOMAIN connList \subseteq Nat /\ DOMAIN connList' \subseteq Nat
      BY <1>1
    <2>2. connList' = Tail(connList) /\ closed' = closed
      OBVIOUS
    <2>3. conRAII'[t] = connList[1]
      BY <1>2
    <2>4. \A u \in Threads \ {t} : conRAII'[u] = conRAII[u]
      OBVIOUS
    <2> HIDE DEF PoolIInv, PoolTypeOK, TakeConnection, InGetConnection, PopFront
    <2>5. ASSUME NEW i \in DOMAIN connList', NEW j \in DOMAIN connList',
                 connList'[i] = connList'[j]
          PROVE  i = j
      <3>1. /\ i + 1 \in DOMAIN connList /\ connList'[i] = connList[i + 1]
            /\ j + 1 \in DOMAIN connList /\ connList'[j] = connList[j + 1]
        BY <1>2, <2>2
      <3>2. i + 1 = j + 1
        BY <1>0, <2>5, <3>1
      <3> QED BY <1>2, <2>2, <3>2
    <2>6. ASSUME NEW i \in DOMAIN connList'
          PROVE  connList'[i] # connList[1] /\ connList'[i] \notin closed'
      <3>1. i + 1 \in DOMAIN connList /\ connList'[i] = connList[i + 1]
        BY <1>2, <2>2
      <3>2. i \in 1..Len(connList') /\ i + 1 # 1
        BY <1>2, <2>2
      <3>3. connList[i + 1] # connList[1]
        BY <1>0, <2>1, <3>1, <3>2
      <3> QED BY <1>0, <2>2, <3>1, <3>3
    <2>7. ASSUME NEW u \in Threads, conRAII'[u] # NULL
          PROVE  /\ conRAII'[u] \notin closed'
                 /\ \A i \in DOMAIN connList' : connList'[i] # conRAII'[u]
                 /\ \A v \in Threads : conRAII'[v] = conRAII'[u] => v = u
      <3>1. conRAII'[u] \notin closed'
        BY <1>0, <2>1, <2>2, <2>3, <2>4, <2>7
      <3>2. \A i \in DOMAIN connList' : connList'[i] # conRAII'[u]
        <4>1. CASE u = t
          BY <4>1, <2>3, <2>6
        <4>2. CASE u # t
          BY <4>2, <1>0, <1>2, <2>2, <2>4, <2>7
        <4> QED BY <4>1, <4>2
      <3>3. \A v \in Threads : conRAII'[v] = conRAII'[u] => v = u
        <4>1. \A v \in Threads \ {t} : conRAII[v] # connList[1] \/ connList[1] = NULL
          BY <1>0, <2>1
        <4>2. connList[1] # NULL
          BY <1>2
        <4> QED BY <1>0, <2>3, <2>4, <2>7, <4>1, <4>2
      <3> QED BY <3>1, <3>2, <3>3
    <2> QED BY <2>5, <2>6, <2>7 DEF Exclusive
  <1>5. m_CurConn' \in Int
    OBVIOUS
  <1> HIDE DEF PoolIInv, PoolTypeOK, TakeConnection, InGetConnection, PopFront
  <1> QED BY <1>3, <1>4, <1>5 DEF PoolIInv

\* Releasing puts a connection that was not in the list at its end.
LEMMA ReleaseKeeps ==
  ASSUME PoolIInv, NEW t \in Threads, ReleaseConnection(t)
  PROVE  PoolIInv'
  <1> USE DEF PoolIInv, PoolTypeOK, ReleaseConnection, NothingToRelease, Usable, Misused
  <1>1. CASE conRAII[t] = NULL
    BY <1>1 DEF Exclusive
  <1>2. CASE conRAII[t] # NULL
    <2> DEFINE c == conRAII[t]
    <2>1. /\ connList' = Append(connList, c) /\ c \in Connections
          /\ Len(connList') = Len(connList) + 1
          /\ \A i \in DOMAIN connList' :
               connList'[i] = IF i = Len(connList) + 1 THEN c ELSE connList[i]
      BY <1>2
    <2>2. PoolTypeOK' /\ m_CurConn' \in Int
      <3>1. /\ connList' \in Seq(Connections) /\ m_CurConn' \in Int
            /\ m_FreeConn' = Len(connList') /\ m_FreeConn' + m_CurConn' = Counted'
        <4>1. connList' \in Seq(Connections)
          BY <2>1
        <4>2. m_FreeConn' = m_FreeConn + 1 /\ m_CurConn' = m_CurConn - 1
          BY <1>2
        <4>3. /\ m_FreeConn = Len(connList) /\ m_FreeConn \in Nat
              /\ m_CurConn \in Int /\ m_FreeConn + m_CurConn = Counted
          OBVIOUS
        <4>5. Counted' = Counted /\ Counted \in Int
          OBVIOUS
        <4> HIDE DEF PoolIInv, PoolTypeOK, ReleaseConnection, Counted
        <4>4. m_FreeConn' + m_CurConn' = Counted' /\ m_CurConn' \in Int
          BY <4>2, <4>3, <4>5
        <4> QED BY <2>1, <4>1, <4>2, <4>3, <4>4
      <3>2. \A u \in Threads : conRAII'[u] # NULL => poolAt'[u] = "using"
        BY <1>2
      <3>3. poolAt[t] = "using" /\ t \notin reserve \cup woken
        OBVIOUS
      <3>4. \A u \in reserve' \cup woken' : poolAt'[u] = "locking"
        BY <1>2, <3>3
      <3> QED BY <1>2, <3>1, <3>2, <3>4
    <2>3. \A i \in DOMAIN connList : connList[i] # c
      BY <1>2 DEF Exclusive
    <2>4. \A u \in Threads \ {t} : conRAII[u] # c /\ conRAII'[u] = conRAII[u]
      BY <1>2 DEF Exclusive
    <2>6. /\ conRAII' \in [Threads -> Connections \cup {NULL}] /\ conRAII'[t] = NULL
          /\ c # NULL /\ c \notin closed /\ closed' = closed
      BY <1>2 DEF Exclusive
    <2>7. \A i, j \in DOMAIN connList : connList[i] = connList[j] => i = j
      BY <1>2 DEF Exclusive
    <2>8. \A i \in DOMAIN connList : connList[i] \notin closed
      BY <1>2 DEF Exclusive
    <2>9. \A u \in Threads : conRAII[u] # NULL =>
            /\ conRAII[u] \notin closed
            /\ \A i \in DOMAIN connList : connList[i] # conRAII[u]
            /\ \A v \in Threads : conRAII[v] = conRAII[u] => v = u
      BY <1>2 DEF Exclusive
    <2> DEFINE last == Len(connList) + 1
    <2>10. /\ connList'[last] = c
           /\ \A i \in DOMAIN connList' : i # last =>
                i \in DOMAIN connList /\ connList'[i] = connList[i]
      BY <1>2, <2>1
    <2> HIDE DEF PoolIInv, PoolTypeOK, ReleaseConnection, NothingToRelease, c, last
    <2>5. ASSUME NEW i \in DOMAIN connList', NEW j \in DOMAIN connList',
                 connList'[i] = connList'[j]
          PROVE  i = j
      <3>1. i = last <=> j = last
        BY <2>3, <2>5, <2>10
      <3> QED BY <2>5, <2>7, <2>10, <3>1
    <2>11. ASSUME NEW i \in DOMAIN connList' PROVE connList'[i] \notin closed'
      BY <2>6, <2>8, <2>10
    <2>12. ASSUME NEW u \in Threads, conRAII'[u] # NULL
           PROVE  /\ conRAII'[u] \notin closed'
                  /\ \A i \in DOMAIN connList' : connList'[i] # conRAII'[u]
                  /\ \A v \in Threads : conRAII'[v] = conRAII'[u] => v = u
      <3>1. u # t /\ conRAII'[u] = conRAII[u] /\ conRAII[u] # NULL /\ conRAII[u] # c
        BY <2>4, <2>6, <2>12
      <3>2. \A i \in DOMAIN connList' : connList'[i] # conRAII'[u]
        BY <2>9, <2>10, <3>1
      <3>3. \A v \in Threads : conRAII'[v] = conRAII'[u] => v = u
        BY <2>4, <2>6, <2>9, <3>1
      <3> QED BY <2>6, <2>9, <3>1, <3>2, <3>3
    <2>13. Exclusive'
      BY <2>5, <2>11, <2>12 DEF Exclusive
    <2> QED BY <2>2, <2>13 DEF PoolIInv
  <1> QED BY <1>1, <1>2

\* DestroyPool() closes what is free, which nobody uses.
LEMMA DestroyKeeps ==
  ASSUME PoolIInv, DestroyPool
  PROVE  PoolIInv'
  <1> USE DEF PoolIInv, PoolTypeOK, DestroyPool, Misused
  <1>1. /\ connList' = <<>> /\ Len(connList') = 0 /\ DOMAIN connList' = {}
        /\ connList' \in Seq(Connections) /\ closed' \subseteq Connections
    <2>1. \A i \in DOMAIN connList : connList[i] \in Connections
      OBVIOUS
    <2>2. closed' \subseteq Connections
      BY <2>1
    <2>3. connList' = <<>> /\ <<>> \in Seq(Connections) /\ Len(<<>>) = 0 /\ DOMAIN <<>> = {}
      OBVIOUS
    <2> QED BY <2>2, <2>3
  <1>2. CASE connList = <<>>
    BY <1>1, <1>2 DEF Exclusive
  <1>3. CASE connList # <<>>
    <2>1. closed' # {}
      <3>1. 1 \in DOMAIN connList
        BY <1>3
      <3> QED BY <3>1
    <2>2. /\ m_FreeConn' = 0 /\ m_CurConn' = 0 /\ Counted' = 0 /\ pool' = "emptied"
          /\ UNCHANGED <<conRAII, poolAt, reserve, woken>>
      BY <1>3, <2>1
    <2>4. PoolTypeOK' /\ m_CurConn' \in Int
      BY <1>1, <2>2
    <2>3. Exclusive'
      <3>1. \A u \in Threads : conRAII[u] # NULL =>
              /\ conRAII[u] \notin closed
              /\ \A i \in DOMAIN connList : connList[i] # conRAII[u]
              /\ \A v \in Threads : conRAII[v] = conRAII[u] => v = u
        BY DEF Exclusive
      <3>2. closed' = closed \cup {connList[i] : i \in DOMAIN connList}
        OBVIOUS
      <3> HIDE DEF PoolIInv, PoolTypeOK, DestroyPool
      <3> QED BY <1>1, <2>2, <3>1, <3>2 DEF Exclusive
    <2> QED BY <2>3, <2>4
  <1> QED BY <1>2, <1>3

\* Every step of the pool keeps the inductive invariant.
LEMMA PoolStepIInv == PoolIInv /\ [PoolNext]_poolVars => PoolIInv'
  <1> SUFFICES ASSUME PoolIInv, [PoolNext]_poolVars PROVE PoolIInv'
    OBVIOUS
  <1>1. ASSUME NEW t \in Threads, TakeConnection(t) PROVE PoolIInv'
    BY <1>1, TakeKeeps
  <1>2. ASSUME NEW t \in Threads, ReleaseConnection(t) PROVE PoolIInv'
    BY <1>2, ReleaseKeeps
  <1>8. CASE DestroyPool
    BY <1>8, DestroyKeeps
  <1> USE DEF PoolIInv, PoolTypeOK, Exclusive, Misused
  <1>3. ASSUME NEW t \in Threads, TestList(t) PROVE PoolIInv'
    BY <1>3 DEF TestList
  <1>4. ASSUME NEW t \in Threads, WaitForConnection(t) PROVE PoolIInv'
    BY <1>4 DEF WaitForConnection, InGetConnection
  <1>5. ASSUME NEW t \in Threads, WakeUpOne(t) PROVE PoolIInv'
    BY <1>5 DEF WakeUpOne, Sleepers
  <1>6. ASSUME NEW t \in Threads, PoolSpuriousWakeup(t) PROVE PoolIInv'
    BY <1>6 DEF PoolSpuriousWakeup
  <1>7. CASE UNCHANGED poolVars
    BY <1>7 DEF poolVars
  <1>9. CASE DestroyMembers
    BY <1>9 DEF DestroyMembers
  <1>10. ASSUME NEW t \in Threads, Misuse(t) PROVE PoolIInv'
    BY <1>10 DEF Misuse
  <1> QED BY <1>1, <1>2, <1>3, <1>4, <1>5, <1>6, <1>7, <1>8, <1>9, <1>10 DEF PoolNext

Signalling == {t \in Threads : poolAt[t] = "signalling"}

\* The sets that NoSleepBesideFree counts are finite, and their sizes change
\* by one with a thread.
LEMMA Counting ==
  ASSUME NEW S, S \subseteq Threads
  PROVE  /\ Cardinality(S) \in Nat
         /\ \A t \in Threads \ S : Cardinality(S \cup {t}) = Cardinality(S) + 1
         /\ \A t \in S : Cardinality(S \ {t}) = Cardinality(S) - 1
  <1>1. IsFiniteSet(S)
    BY FS_Subset
  <1> QED BY <1>1, FS_CardinalityType, FS_AddElement, FS_RemoveElement

\* A step of the pool leaves as many threads on their way to the free
\* connections as there are, when somebody sleeps.
LEMMA NoSleepStep ==
  ASSUME PoolIInv, PoolIInv', NoSleepBesideFree, [PoolNext]_poolVars
  PROVE  NoSleepBesideFree'
  <1>1. PoolTypeOK /\ m_FreeConn \in Nat /\ m_FreeConn' \in Nat
    BY DEF PoolIInv, PoolTypeOK
  <1> SUFFICES ASSUME ~Misused'
               PROVE  reserve' # {} => m_FreeConn' <= Cardinality(woken') + Cardinality(Signalling')
    BY DEF NoSleepBesideFree, Signalling
  <1>0. ~Misused
    BY DEF PoolNext, poolVars, Misused, Usable, TestList, TakeConnection, WaitForConnection,
           ReleaseConnection, WakeUpOne, PoolSpuriousWakeup, DestroyPool, DestroyMembers, Misuse
  <1>2. reserve # {} => m_FreeConn <= Cardinality(woken) + Cardinality(Signalling)
    BY <1>0 DEF NoSleepBesideFree, Signalling
  <1>3. /\ Cardinality(woken) \in Nat /\ Cardinality(Signalling) \in Nat
        /\ Cardinality(woken') \in Nat /\ Cardinality(Signalling') \in Nat
    <2>1. /\ woken \subseteq Threads /\ Signalling \subseteq Threads
          /\ woken' \subseteq Threads /\ Signalling' \subseteq Threads
      BY DEF PoolIInv, PoolTypeOK, Signalling
    <2> QED BY <2>1, Counting
  <1> DEFINE Goal == reserve' # {} => m_FreeConn' <= Cardinality(woken') + Cardinality(Signalling')
  <1>4. ASSUME NEW t \in Threads, TestList(t) PROVE Goal
    <2>1. woken' = woken /\ Signalling' = Signalling
      BY <1>1, <1>4 DEF TestList, Signalling, PoolTypeOK
    <2> QED BY <1>2, <1>4, <2>1 DEF TestList
  <1>5. ASSUME NEW t \in Threads, TakeConnection(t) PROVE Goal
    <2>1. /\ woken' = woken \ {t} /\ Signalling' = Signalling
          /\ reserve' = reserve /\ m_FreeConn' = m_FreeConn - 1
      BY <1>1, <1>5 DEF TakeConnection, InGetConnection, Signalling, PoolTypeOK
    <2>2. Cardinality(woken') >= Cardinality(woken) - 1
      <3>1. CASE t \in woken
        <4>1. woken \subseteq Threads /\ woken' = woken \ {t}
          BY <1>1, <2>1 DEF PoolTypeOK
        <4>2. Cardinality(woken \ {t}) = Cardinality(woken) - 1
          BY <3>1, <4>1, Counting
        <4> QED BY <1>3, <4>1, <4>2
      <3>2. CASE t \notin woken
        <4>1. woken' = woken
          BY <2>1, <3>2
        <4> QED BY <1>3, <4>1
      <3> QED BY <3>1, <3>2
    <2> QED BY <1>1, <1>2, <1>3, <2>1, <2>2
  <1>6. ASSUME NEW t \in Threads, WaitForConnection(t) PROVE Goal
    BY <1>3, <1>6 DEF WaitForConnection
  <1>7. ASSUME NEW t \in Threads, ReleaseConnection(t) PROVE Goal
    <2>1. reserve' = reserve /\ woken' = woken /\ poolAt[t] = "using"
      BY <1>7 DEF ReleaseConnection
    <2>2. CASE NothingToRelease(conRAII[t])
      <3>1. m_FreeConn' = m_FreeConn /\ Signalling' = Signalling
        BY <1>1, <1>7, <2>2 DEF ReleaseConnection, Signalling, PoolTypeOK
      <3> QED BY <1>2, <2>1, <3>1
    <2>3. CASE ~NothingToRelease(conRAII[t])
      <3>1. /\ m_FreeConn' = m_FreeConn + 1 /\ t \notin Signalling
            /\ Signalling' = Signalling \cup {t}
        BY <1>1, <1>7, <2>3 DEF ReleaseConnection, Signalling, PoolTypeOK
      <3>2. Cardinality(Signalling') = Cardinality(Signalling) + 1
        BY <3>1, Counting DEF Signalling
      <3> QED BY <1>1, <1>2, <1>3, <2>1, <3>1, <3>2
    <2> QED BY <2>2, <2>3
  <1>8. ASSUME NEW t \in Threads, WakeUpOne(t) PROVE Goal
    <2>1. /\ m_FreeConn' = m_FreeConn /\ t \in Signalling
          /\ Signalling' = Signalling \ {t}
      BY <1>1, <1>8 DEF WakeUpOne, Signalling, PoolTypeOK
    <2>2. Cardinality(Signalling') = Cardinality(Signalling) - 1
      <3>1. Signalling \subseteq Threads
        BY DEF Signalling
      <3> QED BY <2>1, <3>1, Counting
    <2>3. CASE reserve = {}
      BY <1>8, <2>3 DEF WakeUpOne, Sleepers
    <2>4. CASE reserve # {}
      <3>1. PICK u \in reserve : woken' = woken \cup {u}
        BY <1>8, <2>4 DEF WakeUpOne, Sleepers
      <3>2. u \in Threads /\ u \notin woken
        BY <1>1 DEF PoolTypeOK
      <3>3. Cardinality(woken') = Cardinality(woken) + 1
        BY <1>1, <3>1, <3>2, Counting DEF PoolTypeOK
      <3> QED BY <1>1, <1>2, <1>3, <2>1, <2>2, <2>4, <3>3
    <2> QED BY <2>3, <2>4
  <1>9. ASSUME NEW t \in Threads, PoolSpuriousWakeup(t) PROVE Goal
    <2>1. /\ m_FreeConn' = m_FreeConn /\ Signalling' = Signalling
          /\ t \in reserve /\ woken' = woken \cup {t}
      BY <1>9 DEF PoolSpuriousWakeup, Signalling
    <2>2. Cardinality(woken') >= Cardinality(woken)
      BY <1>1, <1>3, <2>1, Counting DEF PoolTypeOK
    <2> QED BY <1>1, <1>2, <1>3, <2>1, <2>2
  <1>10. CASE DestroyPool
    <2>1. reserve' = reserve /\ woken' = woken /\ Signalling' = Signalling
      BY <1>10 DEF DestroyPool, Signalling
    <2>2. m_FreeConn' = 0 \/ m_FreeConn' = m_FreeConn
      BY <1>10 DEF DestroyPool
    <2> QED BY <1>1, <1>2, <1>3, <2>1, <2>2
  <1>11. CASE UNCHANGED poolVars
    BY <1>2, <1>11 DEF poolVars, Signalling
  <1>12. CASE DestroyMembers
    BY <1>2, <1>12 DEF DestroyMembers, Signalling
  <1>13. ASSUME NEW t \in Threads, Misuse(t) PROVE FALSE
    BY <1>13 DEF Misuse, Misused
  <1> QED BY <1>4, <1>5, <1>6, <1>7, <1>8, <1>9, <1>10, <1>11, <1>12, <1>13 DEF PoolNext

\* The variables keep their types, m_FreeConn is the length of the list and,
\* with m_CurConn, the size of the pool.
THEOREM PoolTyping == PoolSpec => []PoolTypeOK
  <1>1. PoolIInv => PoolTypeOK
    BY DEF PoolIInv
  <1> QED BY <1>1, PoolInitIInv, PoolStepIInv, PTL DEF PoolSpec

\* GetConnection() gives no connection that another thread has or that is
\* still in the list, until a thread uses the pool that exit() has destroyed.
THEOREM ExclusiveUse == PoolSpec => []Exclusive
  <1>1. PoolIInv => Exclusive
    BY DEF PoolIInv
  <1> QED BY <1>1, PoolInitIInv, PoolStepIInv, PTL DEF PoolSpec

\* No thread sleeps on reserve beside a free connection that no woken or
\* signalling thread is on its way to.
THEOREM NoMissedSignal == PoolSpec => []NoSleepBesideFree
  <1>1. PoolInit => NoSleepBesideFree
    BY DEF PoolInit, NoSleepBesideFree
  <1>2. PoolIInv /\ PoolIInv' /\ NoSleepBesideFree /\ [PoolNext]_poolVars => NoSleepBesideFree'
    BY NoSleepStep
  <1> QED BY <1>1, <1>2, PoolInitIInv, PoolStepIInv, PTL DEF PoolSpec
-----------------------------------------------------------------------------
(* Registration and login.                                                 *)

\* A thread whose insert the database took has its row in the table, which no
\* step of another thread and no restart undoes.
Stored ==
  /\ \A t \in Threads : at[t] # "idle" => request[t] \in Requests
  /\ \A t \in Threads : at[t] = "insert" => InTable(Account(t))

ServerIInv ==
  /\ PoolIInv /\ NoSleepBesideFree
  /\ ServerTypeOK
  /\ Stored
  /\ AnswersAreStored

\* What a server does with the pool is what the pool allows, or a restart.
LEMMA UsesPool ==
  ASSUME ServerNext \/ UNCHANGED <<poolVars, serverVars>>
  PROVE  [PoolNext]_poolVars \/ PoolInit'
  <1>1. ASSUME NEW t \in Threads,
               \/ Receive(t) \/ GetConnection(t) \/ Login(t) \/ FindName(t) \/ Query(t)
               \/ InsertUser(t) \/ Release(t) \/ Signal(t) \/ QueryWithNull(t)
               \/ UsesDestroyed(t)
        PROVE  [PoolNext]_poolVars
    BY <1>1 DEF Receive, GetConnection, Login, FindName, Query, InsertUser, Release, Signal,
                QueryWithNull, UsesDestroyed, Dies, PoolNext
  <1>2. ASSUME NEW t \in Threads, NEW u \in Threads, MapRace(t, u) PROVE UNCHANGED poolVars
    BY <1>2 DEF MapRace, Dies
  <1>3. Exits \/ MembersGo \/ WritesAnything \/ ExitEnds => [PoolNext]_poolVars
    BY DEF Exits, MembersGo, WritesAnything, ExitEnds, Dies, PoolNext
  <1>4. Restart => PoolInit'
    BY DEF Restart, PoolInit
  <1> QED BY <1>1, <1>2, <1>3, <1>4 DEF ServerNext

\* The pool is as safe in the server as alone.
LEMMA PoolKeeps ==
  ASSUME PoolIInv, NoSleepBesideFree, ServerNext \/ UNCHANGED <<poolVars, serverVars>>
  PROVE  PoolIInv' /\ NoSleepBesideFree'
  <1>1. CASE [PoolNext]_poolVars
    <2>1. PoolIInv'
      BY <1>1, PoolStepIInv
    <2> QED BY <1>1, <2>1, NoSleepStep
  <1>2. CASE PoolInit'
    <2>1. PoolInit' => PoolIInv'
      BY PoolInitIInv, PTL
    <2>2. NoSleepBesideFree'
      BY <1>2 DEF PoolInit, NoSleepBesideFree
    <2> QED BY <1>2, <2>1, <2>2
  <1> QED BY <1>1, <1>2, UsesPool

\* A process starts, whatever the table holds already.
LEMMA ServerInitIInv == ServerInit => ServerIInv
  <1> SUFFICES ASSUME ServerInit PROVE ServerIInv
    OBVIOUS
  <1>1. PoolIInv
    BY PoolInitIInv DEF ServerInit
  <1>2. NoSleepBesideFree
    BY DEF ServerInit, PoolInit, NoSleepBesideFree
  <1>3. ServerTypeOK
    BY <1>1 DEF ServerInit, ServerTypeOK, PoolIInv
  <1>4. Stored /\ AnswersAreStored
    BY DEF ServerInit, Stored, AnswersAreStored
  <1> QED BY <1>1, <1>2, <1>3, <1>4 DEF ServerIInv

\* The state of the server but for its pool.
ServerTypes ==
  /\ users \subseteq Rows /\ \A r, s \in users : NameOf(r) = NameOf(s) => r = s
  /\ rows \subseteq Rows
  /\ request \in [Threads -> Requests \cup {NoRequest}]
  /\ at \in [Threads -> {"idle", "users", "query", "insert", "release"}]
  /\ welcomed \subseteq Rows /\ registered \subseteq Rows
  /\ process \in {"running", "exiting", "dead"}

\* The row of a request.
LEMMA AccountTyped ==
  ASSUME NEW t \in Threads, request[t] \in Requests
  PROVE  Account(t) \in Rows
  BY DEF Account, Requests, Rows

\* A step of one thread that leaves it idle or with a request, and moves to
\* "insert" only with its row in the table, keeps Stored.
LEMMA StoredKept ==
  ASSUME ServerTypes, Stored, NEW t \in Threads, NEW label, Goto(t, label),
         rows \subseteq rows',
         \/ request' = request /\ request[t] \in Requests
         \/ \E r \in Requests : request' = [request EXCEPT ![t] = r]
         \/ label = "idle" /\ request' = [request EXCEPT ![t] = NoRequest],
         label = "insert" => request' = request /\ \E r \in {Account(t), Literal[Account(t)]} : r \in rows'
  PROVE  Stored'
  <1>1. /\ at' = [at EXCEPT ![t] = label] /\ at \in [Threads -> {"idle", "users", "query", "insert", "release"}]
        /\ request \in [Threads -> Requests \cup {NoRequest}]
    BY DEF Goto, ServerTypes
  <1>2. ASSUME NEW u \in Threads, at'[u] # "idle" PROVE request'[u] \in Requests
    BY <1>1, <1>2 DEF Stored
  <1>3. ASSUME NEW u \in Threads, at'[u] = "insert" PROVE request'[u][2] \in rows' \/ Literal[request'[u][2]] \in rows'
    <2>1. CASE u = t
      BY <1>1, <1>3, <2>1 DEF Account
    <2>2. CASE u # t
      <3>1. at[u] = "insert" /\ request'[u] = request[u]
        BY <1>1, <1>3, <2>2
      <3> QED BY <3>1 DEF Stored, Account, InTable
    <2> QED BY <2>1, <2>2
  <1> QED BY <1>2, <1>3 DEF Stored, Account, InTable

\* Every step keeps the types, what is stored for those past their query,
\* and the answers.
LEMMA ServerStepKeeps ==
  ASSUME ServerTypes, Stored, AnswersAreStored,
         ServerNext \/ UNCHANGED <<poolVars, serverVars>>
  PROVE  ServerTypes' /\ Stored' /\ AnswersAreStored'
  <1> DEFINE Kept == ServerTypes' /\ Stored' /\ AnswersAreStored'
             Labels == {"idle", "users", "query", "insert", "release"}
             Answered == users \cup registered \cup welcomed
  <1>0. ASSUME rows \subseteq rows',
               \A r \in Answered' : r \in Answered \/ InTable(r) \/ r \in rows'
        PROVE  AnswersAreStored'
    BY <1>0 DEF AnswersAreStored, InTable
  <1>1. /\ users \subseteq Rows /\ \A r \in Answered : InTable(r)
        /\ rows \subseteq Rows /\ request \in [Threads -> Requests \cup {NoRequest}]
        /\ at \in [Threads -> Labels] /\ welcomed \subseteq Rows /\ registered \subseteq Rows
        /\ \A r, s \in users : NameOf(r) = NameOf(s) => r = s
        /\ process \in {"running", "exiting", "dead"}
    BY DEF ServerTypes, AnswersAreStored
  <1>2. ASSUME UNCHANGED <<users, rows, request, at, welcomed, registered>>,
               process' \in {"running", "exiting", "dead"}
        PROVE  Kept
    BY <1>2 DEF ServerTypes, Stored, AnswersAreStored, Account, InTable
  <1>3. ASSUME NEW t \in Threads, Receive(t) PROVE Kept
    <2>1. PICK r \in Requests : request' = [request EXCEPT ![t] = r]
      BY <1>3 DEF Receive
    <2>2. /\ Goto(t, "users") /\ UNCHANGED <<users, rows, welcomed, registered, process>>
          /\ at' = [at EXCEPT ![t] = "users"]
      BY <1>3 DEF Receive, Goto, historyVars
    <2>3. Stored'
      BY <2>1, <2>2, StoredKept
    <2>4. ServerTypes'
      BY <1>1, <2>1, <2>2 DEF ServerTypes
    <2> QED BY <1>0, <2>2, <2>3, <2>4
  <1>4. ASSUME NEW t \in Threads, Login(t) PROVE Kept
    <2>1. /\ UNCHANGED <<users, rows, request, registered, process>>
          /\ at' = [at EXCEPT ![t] = "release"] /\ Goto(t, "release")
          /\ welcomed' = IF Account(t) \in users THEN welcomed \cup {Account(t)} ELSE welcomed
          /\ at[t] = "users"
      BY <1>4 DEF Login, Looking, Goto
    <2>2. request[t] \in Requests
      BY <2>1 DEF Stored
    <2>3. Stored'
      BY <2>1, <2>2, StoredKept
    <2>4. Answered' = Answered
      BY <2>1
    <2>5. ServerTypes'
      BY <1>1, <2>1 DEF ServerTypes
    <2> QED BY <1>0, <2>1, <2>3, <2>4, <2>5
  <1>5. ASSUME NEW t \in Threads, FindName(t) PROVE Kept
    <2>1. PICK label \in {"release", "query"} : Goto(t, label)
      BY <1>5 DEF FindName
    <2>2. /\ UNCHANGED <<users, rows, request, welcomed, registered, process>> /\ at[t] = "users"
          /\ at' = [at EXCEPT ![t] = label]
      BY <1>5, <2>1 DEF FindName, Looking, Goto, historyVars
    <2>3. request[t] \in Requests
      BY <2>2 DEF Stored
    <2>4. Stored'
      BY <2>1, <2>2, <2>3, StoredKept
    <2>5. ServerTypes'
      BY <1>1, <2>2 DEF ServerTypes
    <2> QED BY <1>0, <2>2, <2>4, <2>5
  <1>6. ASSUME NEW t \in Threads, Query(t) PROVE Kept
    <2>1. PICK inserted \in BOOLEAN :
            /\ rows' = IF inserted THEN rows \cup {Literal[Account(t)]} ELSE rows
            /\ Goto(t, AfterQuery(inserted))
      BY <1>6 DEF Query
    <2> DEFINE label == AfterQuery(inserted)
    <2>2. /\ UNCHANGED <<users, request, welcomed, registered, process>> /\ at[t] = "query"
          /\ at' = [at EXCEPT ![t] = label] /\ label \in {"insert", "release"}
          /\ (label = "insert" => Literal[Account(t)] \in rows') /\ rows \subseteq rows'
      BY <1>6, <2>1 DEF Query, Goto, AfterQuery, historyVars
    <2>3. request[t] \in Requests
      BY <2>2 DEF Stored
    <2>4. Account(t) \in Rows /\ Literal[Account(t)] \in Rows
      BY <2>3, AccountTyped, HttpServerAssumption
    <2> HIDE DEF label
    <2>5. Goto(t, label)
      BY <2>1 DEF label
    <2>6. Stored'
      BY <2>2, <2>3, <2>5, StoredKept
    <2>7. ServerTypes'
      BY <1>1, <2>1, <2>2, <2>4 DEF ServerTypes
    <2> QED BY <1>0, <2>2, <2>6, <2>7
  <1>7. ASSUME NEW t \in Threads, InsertUser(t) PROVE Kept
    <2>1. /\ UNCHANGED <<rows, request, welcomed, process>> /\ at[t] = "insert"
          /\ at' = [at EXCEPT ![t] = "release"] /\ Goto(t, "release")
          /\ users' = IF Known(NameOf(Account(t))) THEN users ELSE users \cup {Account(t)}
          /\ registered' = registered \cup {Account(t)}
      BY <1>7 DEF InsertUser, Goto
    <2>2. request[t] \in Requests /\ InTable(Account(t)) /\ Account(t) \in Rows
      BY <2>1, AccountTyped DEF Stored
    <2>3. Stored'
      BY <2>1, <2>2, StoredKept
    <2>4. \A r \in Answered' : r \in Answered \/ InTable(r)
      BY <2>1, <2>2
    <2>5. \A r, s \in users' : NameOf(r) = NameOf(s) => r = s
      BY <1>1, <2>1 DEF Known, NameOf
    <2>6. ServerTypes'
      BY <1>1, <2>1, <2>2, <2>5 DEF ServerTypes
    <2> QED BY <1>0, <2>1, <2>3, <2>4, <2>6
  <1>8. ASSUME NEW t \in Threads, Release(t) PROVE Kept
    <2>1. /\ UNCHANGED <<users, rows, welcomed, registered, process>>
          /\ at' = [at EXCEPT ![t] = "idle"] /\ Goto(t, "idle")
          /\ request' = [request EXCEPT ![t] = NoRequest]
      BY <1>8 DEF Release, Goto, historyVars
    <2>2. Stored'
      BY <2>1, StoredKept
    <2>3. ServerTypes'
      BY <1>1, <2>1 DEF ServerTypes
    <2> QED BY <1>0, <2>1, <2>2, <2>3
  <1>9. ASSUME NEW t \in Threads,
               GetConnection(t) \/ Signal(t) \/ QueryWithNull(t) \/ UsesDestroyed(t)
        PROVE  Kept
    BY <1>1, <1>2, <1>9 DEF GetConnection, Signal, QueryWithNull, UsesDestroyed, Dies,
                            serverVars, historyVars
  <1>10. ASSUME NEW t \in Threads, NEW u \in Threads, MapRace(t, u) PROVE Kept
    BY <1>2, <1>10 DEF MapRace, Dies, historyVars
  <1>11. CASE Exits \/ MembersGo \/ ExitEnds
    BY <1>1, <1>2, <1>11 DEF Exits, MembersGo, ExitEnds, Dies, serverVars, historyVars
  <1>14. CASE WritesAnything
    <2>1. PICK r \in Rows : rows' = rows \cup {r}
      BY <1>14 DEF WritesAnything
    <2>2. UNCHANGED <<users, request, at, welcomed, registered, process>>
      BY <1>14 DEF WritesAnything, historyVars
    <2>3. ServerTypes'
      BY <1>1, <2>1, <2>2 DEF ServerTypes
    <2>4. Stored'
      BY <2>1, <2>2 DEF Stored, InTable, Account
    <2> QED BY <1>0, <2>1, <2>2, <2>3, <2>4
  <1>12. CASE Restart
    <2>1. /\ users' \in Loads(rows) /\ UNCHANGED <<rows, welcomed, registered>>
          /\ at' = [t \in Threads |-> "idle"] /\ request' = [t \in Threads |-> NoRequest]
          /\ process' = "running"
      BY <1>12 DEF Restart, historyVars
    <2>2. users' \subseteq rows' /\ \A r, s \in users' : NameOf(r) = NameOf(s) => r = s
      BY <2>1 DEF Loads
    <2>3. ServerTypes'
      BY <1>1, <2>1, <2>2 DEF ServerTypes
    <2>4. Stored'
      BY <2>1 DEF Stored
    <2> QED BY <1>0, <2>1, <2>2, <2>3, <2>4
  <1>13. CASE UNCHANGED <<poolVars, serverVars>>
    BY <1>1, <1>2, <1>13 DEF serverVars, historyVars
  <1> QED BY <1>3, <1>4, <1>5, <1>6, <1>7, <1>8, <1>9, <1>10, <1>11, <1>12, <1>13, <1>14 DEF ServerNext

\* Every step keeps the invariant: the pool moves, or restarts, under clients
\* whose own places fit what the pool says of them.
LEMMA ServerStepIInv ==
  ServerIInv /\ [ServerNext]_<<poolVars, serverVars>> => ServerIInv'
  <1> SUFFICES ASSUME ServerIInv, ServerNext \/ UNCHANGED <<poolVars, serverVars>>
               PROVE  ServerIInv'
    OBVIOUS
  <1>1. PoolIInv' /\ NoSleepBesideFree'
    BY PoolKeeps DEF ServerIInv
  <1>2. ServerTypes
    BY DEF ServerIInv, ServerTypeOK, ServerTypes
  <1>3. ServerTypes' /\ Stored' /\ AnswersAreStored'
    BY <1>2, ServerStepKeeps DEF ServerIInv
  <1>4. ServerTypeOK'
    BY <1>1, <1>3 DEF ServerTypeOK, ServerTypes, PoolIInv
  <1> QED BY <1>1, <1>3, <1>4 DEF ServerIInv

\* The inductive invariant holds in every behaviour.
LEMMA ServerInvariant == ServerSpec => []ServerIInv
  BY ServerInitIInv, ServerStepIInv, PTL DEF ServerSpec

\* The types, and one row per name in the map, however registrations of one
\* name overlap.
THEOREM ServerTyping == ServerSpec => []ServerTypeOK
  <1>1. ServerIInv => ServerTypeOK
    BY DEF ServerIInv
  <1> QED BY <1>1, ServerInvariant, PTL

\* In the server, with its restarts, and in exit() as long as no thread uses
\* the list or the mutex that it has destroyed, no connection has two users
\* or is used when closed, and nobody sleeps beside a free one unheeded.
THEOREM ServerUsesPool == ServerSpec => [](Exclusive /\ NoSleepBesideFree)
  <1>1. ServerIInv => Exclusive /\ NoSleepBesideFree
    BY DEF ServerIInv, PoolIInv
  <1> QED BY <1>1, ServerInvariant, PTL

\* Every row whose registration or login was answered with success is in the
\* user table, as the text of its INSERT reads, and so is every row of the map
\* that logins are checked with, whatever threads interleave and wherever the
\* process ends.
THEOREM StoredAnswers == ServerSpec => []AnswersAreStored
  <1>1. ServerIInv => AnswersAreStored
    BY DEF ServerIInv
  <1> QED BY <1>1, ServerInvariant, PTL
-----------------------------------------------------------------------------
(* The parser.  Sequences first, then what is sent, then the invariant.    *)

HIDE ConnectionPoolAssumption DEF Connections, Counted

\* The elements of a concatenation.
LEMMA Concatenated ==
  \A S : \A t, s \in Seq(S) :
    /\ t \o s \in Seq(S) /\ Len(t \o s) = Len(t) + Len(s)
    /\ \A i \in 1..(Len(t) + Len(s)) :
         (t \o s)[i] = IF i <= Len(t) THEN t[i] ELSE s[i - Len(t)]
  BY ConcatProperties

\* Concatenation is associative.
LEMMA Regrouping == \A S : \A x, y, z \in Seq(S) : (x \o y) \o z = x \o (y \o z)
  BY ConcatAssociative

\* What is left of a sequence.
LEMMA Dropped ==
  \A S : \A s \in Seq(S) : \A n \in 0..Len(s) :
    /\ Drop(s, n) \in Seq(S) /\ Len(Drop(s, n)) = Len(s) - n
    /\ \A i \in 1..(Len(s) - n) : Drop(s, n)[i] = s[n + i]
  <1> SUFFICES ASSUME NEW S, NEW s \in Seq(S), NEW n \in 0..Len(s)
               PROVE  /\ Drop(s, n) \in Seq(S) /\ Len(Drop(s, n)) = Len(s) - n
                      /\ \A i \in 1..(Len(s) - n) : Drop(s, n)[i] = s[n + i]
    OBVIOUS
  <1>1. Len(s) \in Nat /\ \A i \in (n + 1)..Len(s) : s[i] \in S
    OBVIOUS
  <1> DEFINE t == SubSeq(s, n + 1, Len(s))
  <1>2. /\ t \in Seq(S)
        /\ Len(t) = IF n + 1 <= Len(s) THEN Len(s) - (n + 1) + 1 ELSE 0
        /\ \A i \in 1..(Len(s) - (n + 1) + 1) : t[i] = s[(n + 1) + i - 1]
    BY <1>1, SubSeqProperties
  <1> HIDE DEF t
  <1>3. Len(t) = Len(s) - n
    BY <1>1, <1>2
  <1>4. ASSUME NEW i \in 1..(Len(s) - n) PROVE t[i] = s[n + i]
    <2>1. i \in 1..(Len(s) - (n + 1) + 1) /\ (n + 1) + i - 1 = n + i
      BY <1>1
    <2>2. t[i] = s[(n + 1) + i - 1]
      BY <1>2, <2>1
    <2> QED BY <2>1, <2>2
  <1> QED BY <1>2, <1>3, <1>4 DEF t, Drop

\* What is taken from the right part of a concatenation goes to the left one.
LEMMA Moved ==
  \A S : \A b, c \in Seq(S) : \A n \in 0..Len(c) :
    /\ SubSeq(c, 1, n) \in Seq(S)
    /\ (b \o SubSeq(c, 1, n)) \o Drop(c, n) = b \o c
  <1> SUFFICES ASSUME NEW S, NEW b \in Seq(S), NEW c \in Seq(S), NEW n \in 0..Len(c)
               PROVE  /\ SubSeq(c, 1, n) \in Seq(S)
                      /\ (b \o SubSeq(c, 1, n)) \o Drop(c, n) = b \o c
    OBVIOUS
  <1>1. Len(c) \in Nat /\ \A i \in 1..n : c[i] \in S
    OBVIOUS
  <1> DEFINE h == SubSeq(c, 1, n)
             t == SubSeq(c, n + 1, Len(c))
  <1>2. h \in Seq(S)
    BY <1>1, SubSeqProperties
  <1>3. t \in Seq(S)
    BY <1>1, Dropped DEF Drop
  <1>4. h \o t = SubSeq(c, 1, Len(c))
    <2>1. 1 \in 1..(Len(c) + 1) /\ n \in (1 - 1)..Len(c) /\ Len(c) \in n..Len(c)
      BY <1>1
    <2> QED BY <2>1, ConcatAdjacentSubSeq
  <1>5. SubSeq(c, 1, Len(c)) = c
    OBVIOUS
  <1> HIDE DEF h, t
  <1>6. (b \o h) \o t = b \o (h \o t)
    BY <1>2, <1>3, Regrouping
  <1>7. (b \o h) \o t = b \o c
    BY <1>4, <1>5, <1>6
  <1> QED BY <1>2, <1>7 DEF h, t, Drop

\* Taking from the left part of a concatenation.
LEMMA DroppedFirst ==
  ASSUME NEW S, NEW b \in Seq(S), NEW c \in Seq(S), NEW n \in 0..Len(b)
  PROVE  Drop(b, n) \o c = Drop(b \o c, n)
  <1> DEFINE x == Drop(b, n)
             y == b \o c
             z == Drop(y, n)
  <1>0. Len(b) \in Nat /\ Len(c) \in Nat
    OBVIOUS
  <1>1. x \in Seq(S) /\ Len(x) = Len(b) - n /\ \A i \in 1..(Len(b) - n) : x[i] = b[n + i]
    BY Dropped
  <1>2. /\ y \in Seq(S) /\ Len(y) = Len(b) + Len(c)
        /\ \A i \in 1..(Len(b) + Len(c)) : y[i] = IF i <= Len(b) THEN b[i] ELSE c[i - Len(b)]
    BY Concatenated
  <1> HIDE DEF x, y
  <1>3. n \in 0..Len(y)
    BY <1>0, <1>2
  <1>4. z \in Seq(S) /\ Len(z) = Len(y) - n /\ \A i \in 1..(Len(y) - n) : z[i] = y[n + i]
    <2>1. y \in Seq(S)
      BY <1>2
    <2> QED BY <1>3, <2>1, Dropped
  <1> HIDE DEF z
  <1>5. /\ x \o c \in Seq(S) /\ Len(x \o c) = Len(x) + Len(c)
        /\ \A i \in 1..(Len(x) + Len(c)) :
             (x \o c)[i] = IF i <= Len(x) THEN x[i] ELSE c[i - Len(x)]
    BY <1>1, Concatenated
  <1> DEFINE w == x \o c
  <1> HIDE DEF w
  <1>6. w \in Seq(S) /\ Len(w) = Len(z)
    BY <1>0, <1>1, <1>2, <1>4, <1>5 DEF w
  <1>7. ASSUME NEW i \in 1..Len(w) PROVE w[i] = z[i]
    <2>1. i \in 1..(Len(x) + Len(c)) /\ i \in 1..(Len(y) - n) /\ n + i \in 1..(Len(b) + Len(c))
      BY <1>0, <1>1, <1>2, <1>4, <1>6
    <2>2. w[i] = IF i <= Len(x) THEN x[i] ELSE c[i - Len(x)]
      BY <1>5, <2>1 DEF w
    <2>3. z[i] = IF n + i <= Len(b) THEN b[n + i] ELSE c[(n + i) - Len(b)]
      BY <1>2, <1>4, <2>1
    <2>4. CASE i <= Len(x)
      BY <1>0, <1>1, <2>1, <2>2, <2>3, <2>4
    <2>5. CASE ~(i <= Len(x))
      <3>1. i - Len(x) = (n + i) - Len(b) /\ ~(n + i <= Len(b))
        BY <1>0, <1>1, <2>1, <2>5
      <3> QED BY <2>2, <2>3, <2>5, <3>1
    <2> QED BY <2>4, <2>5
  <1>8. w = z
    BY <1>4, <1>6, <1>7, SeqEqual
  <1> QED BY <1>8 DEF w, x, y, z

\* The body of a request.
LEMMA BodyTells ==
  ASSUME NEW r \in Request
  PROVE  /\ r.body \in Seq(BodyByte) /\ Len(r.body) \in Nat
         /\ \A i \in 1..Len(r.body) : r.body[i] \in BodyByte
  <1>1. r.body \in Body
    BY DEF Request
  <1>2. PICK n \in 0..MaxBody : r.body \in [1..n -> BodyByte]
    BY <1>1 DEF Body
  <1>3. n \in Nat
    BY HttpContextAssumption DEF HttpContextAssumption
  <1>4. r.body \in Seq(BodyByte)
    BY <1>2, <1>3, SeqDef
  <1> QED BY <1>4
-----------------------------------------------------------------------------
\* The tokens of a request but for its body.
HeadSize(r) == 2 + (IF r.connection = "none" THEN 0 ELSE 1) + (IF r.length = -1 THEN 0 ELSE 1)

\* The tokens of the n-th request: its line, its headers, the empty line and
\* its body.
LEMMA TokensTell ==
  ASSUME NEW r \in Request, NEW n \in 1..MaxRequests
  PROVE  LET t == Tokens(r, n)
             h == HeadSize(r)
         IN /\ t \in Seq(Token) /\ Len(t) = h + Len(r.body)
            /\ h \in 2..4 /\ Len(r.body) \in Nat
            /\ t[1] = <<"line", n>> /\ t[h] = <<"blank", n>>
            /\ \A j \in 2..(h - 1) :
                 \/ r.connection # "none" /\ j = 2 /\ t[j] = <<"Connection", n>>
                 \/ r.length # -1 /\ j = h - 1 /\ t[j] = <<"Content-Length", n>>
                      /\ (r.connection # "none" => j = 3)
            /\ \A j \in (h + 1)..(h + Len(r.body)) : t[j] = <<r.body[j - h], n>>
  <1> DEFINE a == <<<<"line", n>>>>
             b == IF r.connection = "none" THEN <<>> ELSE <<<<"Connection", n>>>>
             c == IF r.length = -1 THEN <<>> ELSE <<<<"Content-Length", n>>>>
             d == <<<<"blank", n>>>>
             e == [i \in 1..Len(r.body) |-> <<r.body[i], n>>]
             l == Len(r.body)
             w == a \o b
             x == w \o c
             y == x \o d
             z == y \o e
  <1>0. MaxBody \in Nat /\ l \in Nat /\ r.length \in -1..MaxBody
    BY BodyTells, HttpContextAssumption DEF HttpContextAssumption, Request
  <1>1. /\ <<"line", n>> \in Token /\ <<"Connection", n>> \in Token
        /\ <<"Content-Length", n>> \in Token /\ <<"blank", n>> \in Token
        /\ \A v \in BodyByte : <<v, n>> \in Token
    BY DEF Token
  <1> HIDE DEF w, x, y, z
  <1>2. a \in Seq(Token) /\ Len(a) = 1 /\ a[1] = <<"line", n>>
    BY <1>1
  <1>3. /\ b \in Seq(Token) /\ Len(b) = IF r.connection = "none" THEN 0 ELSE 1
        /\ r.connection # "none" => b[1] = <<"Connection", n>>
    BY <1>1
  <1>4. /\ c \in Seq(Token) /\ Len(c) = IF r.length = -1 THEN 0 ELSE 1
        /\ r.length # -1 => c[1] = <<"Content-Length", n>>
    BY <1>1
  <1>5. d \in Seq(Token) /\ Len(d) = 1 /\ d[1] = <<"blank", n>>
    BY <1>1
  <1>6. e \in Seq(Token) /\ Len(e) = l /\ \A j \in 1..l : e[j] = <<r.body[j], n>>
    <2>1. l \in Nat /\ \A i \in 1..l : <<r.body[i], n>> \in Token
      BY <1>1, BodyTells
    <2> HIDE DEF l
    <2>2. e = [i \in 1..l |-> <<r.body[i], n>>]
      BY DEF l
    <2> HIDE DEF e
    <2> QED BY <2>1, <2>2
  <1> HIDE DEF a, b, c, d, e, l
  <1>20. a \in Seq(Token) /\ b \in Seq(Token) /\ c \in Seq(Token) /\ d \in Seq(Token) /\ e \in Seq(Token)
    BY <1>2, <1>3, <1>4, <1>5, <1>6
  <1>7. /\ w \in Seq(Token) /\ Len(w) = Len(a) + Len(b)
        /\ \A i \in 1..(Len(a) + Len(b)) : w[i] = IF i <= Len(a) THEN a[i] ELSE b[i - Len(a)]
    BY <1>20, Concatenated DEF w
  <1>8. /\ x \in Seq(Token) /\ Len(x) = Len(w) + Len(c)
        /\ \A i \in 1..(Len(w) + Len(c)) : x[i] = IF i <= Len(w) THEN w[i] ELSE c[i - Len(w)]
    <2>1. w \in Seq(Token)
      BY <1>7
    <2> QED BY <1>20, <2>1, Concatenated DEF x
  <1>9. /\ y \in Seq(Token) /\ Len(y) = Len(x) + Len(d)
        /\ \A i \in 1..(Len(x) + Len(d)) : y[i] = IF i <= Len(x) THEN x[i] ELSE d[i - Len(x)]
    <2>1. x \in Seq(Token)
      BY <1>8
    <2> QED BY <1>20, <2>1, Concatenated DEF y
  <1>10. /\ z \in Seq(Token) /\ Len(z) = Len(y) + Len(e)
         /\ \A i \in 1..(Len(y) + Len(e)) : z[i] = IF i <= Len(y) THEN y[i] ELSE e[i - Len(y)]
    <2>1. y \in Seq(Token)
      BY <1>9
    <2> QED BY <1>20, <2>1, Concatenated DEF z
  <1> DEFINE h == HeadSize(r)
  <1>11. /\ h = 2 + (IF r.connection = "none" THEN 0 ELSE 1) + (IF r.length = -1 THEN 0 ELSE 1)
         /\ h \in 2..4
    BY DEF HeadSize
  <1> HIDE DEF h
  <1>21. Len(e) = l
    BY <1>6
  <1>12. /\ Len(w) = 1 + (IF r.connection = "none" THEN 0 ELSE 1)
         /\ Len(x) = h - 1 /\ Len(y) = h /\ Len(z) = h + l
    <2>1. /\ Len(a) = 1 /\ Len(b) = IF r.connection = "none" THEN 0 ELSE 1
          /\ Len(c) = IF r.length = -1 THEN 0 ELSE 1
          /\ Len(d) = 1 /\ Len(e) = l /\ l \in Nat
      BY <1>0, <1>2, <1>3, <1>4, <1>5, <1>21
    <2>2. /\ Len(w) = Len(a) + Len(b) /\ Len(x) = Len(w) + Len(c)
          /\ Len(y) = Len(x) + Len(d) /\ Len(z) = Len(y) + Len(e)
      BY <1>7, <1>8, <1>9, <1>10
    <2> QED BY <1>11, <2>1, <2>2
  <1>13. ASSUME NEW i \in 1..h PROVE z[i] = y[i]
    <2>1. i \in 1..(Len(y) + Len(e)) /\ i <= Len(y)
      BY <1>0, <1>21, <1>11, <1>12
    <2> QED BY <1>10, <2>1
  <1>14. ASSUME NEW i \in 1..(h - 1) PROVE z[i] = x[i]
    BY <1>5, <1>9, <1>12, <1>13, <1>11
  <1>15. z[1] = <<"line", n>>
    BY <1>2, <1>3, <1>4, <1>7, <1>8, <1>11, <1>12, <1>14
  <1>16. z[h] = <<"blank", n>>
    <2>1. y[h] = d[1]
      BY <1>5, <1>9, <1>11, <1>12
    <2> QED BY <1>5, <1>11, <1>13, <2>1
  <1>17. ASSUME NEW j \in (h + 1)..(h + l) PROVE z[j] = <<r.body[j - h], n>>
    <2>1. j \in 1..(Len(y) + Len(e)) /\ ~(j <= Len(y)) /\ j - Len(y) \in 1..l
      <3>1. Len(y) = h /\ Len(e) = l /\ l \in Nat /\ h \in Nat
        BY <1>0, <1>21, <1>11, <1>12
      <3> QED BY <3>1
    <2>2. z[j] = e[j - Len(y)]
      BY <1>10, <2>1
    <2>3. \A i \in 1..l : e[i] = <<r.body[i], n>>
      BY <1>6
    <2>4. e[j - Len(y)] = <<r.body[j - Len(y)], n>>
      BY <2>1, <2>3
    <2>5. Len(y) = h
      BY <1>12
    <2> QED BY <2>2, <2>4, <2>5
  <1>18. ASSUME NEW j \in 2..(h - 1)
         PROVE  \/ r.connection # "none" /\ j = 2 /\ z[j] = <<"Connection", n>>
                \/ r.length # -1 /\ j = h - 1 /\ z[j] = <<"Content-Length", n>>
                     /\ (r.connection # "none" => j = 3)
    <2>1. z[j] = x[j] /\ j \in 1..(Len(w) + Len(c))
      BY <1>4, <1>8, <1>11, <1>12, <1>14
    <2>2. CASE j <= Len(w)
      <3>1. r.connection # "none" /\ j = 2 /\ x[j] = w[j]
        BY <1>8, <1>12, <2>1, <2>2
      <3>2. w[2] = b[1]
        BY <1>2, <1>3, <1>7, <3>1
      <3> QED BY <1>3, <2>1, <3>1, <3>2
    <2>3. CASE ~(j <= Len(w))
      <3>1. r.length # -1 /\ j = h - 1 /\ j = Len(w) + 1 /\ (r.connection # "none" => j = 3)
        BY <1>4, <1>11, <1>12, <2>1, <2>3
      <3>2. x[j] = c[j - Len(w)] /\ j - Len(w) = 1
        <4>1. x[j] = c[j - Len(w)]
          BY <1>8, <2>1, <2>3
        <4>2. Len(w) \in Nat
          BY <1>12
        <4> QED BY <3>1, <4>1, <4>2
      <3> QED BY <1>4, <2>1, <3>1, <3>2
    <2> QED BY <2>2, <2>3
  <1>19. z = Tokens(r, n)
    BY DEF z, y, x, w, a, b, c, d, e, Tokens
  <1> QED BY <1>0, <1>10, <1>11, <1>12, <1>15, <1>16, <1>17, <1>18, <1>19 DEF h, l
-----------------------------------------------------------------------------
(* The invariant.  What is served is what was sent because of where the    *)
(* parser is: the o[n] are where the tokens of the n-th request begin in   *)
(* all that was sent, the d first of which have been taken from the        *)
(* buffer, and d is as far behind the begin of the request that is parsed  *)
(* as the parser has got in it.                                            *)

Parsed == [method_ : Methods, version_ : {"1.0", "1.1"}, connection : ConnectionHeader,
           length : -1..MaxBody, body_ : Seq(Token)]
Answer == [method : Methods, size : Nat, close : BOOLEAN]

ContextTypes ==
  /\ buf \in Seq(Token) /\ coming \in Seq(Token)
  /\ parseState_ \in {"kExpectRequestLine", "kExpectHeaders", "kExpectBody", "kGotAll"}
  /\ request_ \in Parsed
  /\ ok \in BOOLEAN /\ shut \in BOOLEAN /\ dead \in BOOLEAN
  /\ io \in {"poll", "parse", "parsed"}
  /\ requests \in Seq(PeerRequests) /\ Len(requests) <= MaxRequests
  /\ served \in Seq(Answer)

\* The tokens and the members of overlapped are of requests that were sent,
\* and overlapped has all that come after the next one to be answered.
Numbered ==
  /\ overlapped \subseteq 1..Len(requests)
  /\ \A i \in 1..Len(buf) : buf[i][2] \in 1..Len(requests)
  /\ \A i \in 1..Len(coming) : coming[i][2] \in 1..Len(requests)
  /\ (Len(served) + 2)..Len(requests) \subseteq overlapped

\* What was sent and not taken from the buffer.
Left == buf \o coming

\* Nothing has come yet that the parser misreads.
Straight == ~BehindPost /\ ~Unframed /\ ~shut

Offsets(o) ==
  /\ o \in [1..(Len(requests) + 1) -> Nat]
  /\ \A n \in 1..Len(requests) : o[n + 1] = o[n] + Len(Tokens(requests[n], n))
  /\ \A m, n \in 1..(Len(requests) + 1) : m <= n => o[m] <= o[n]

Holds(o, d) ==
  /\ o[Len(served) + 1] <= d /\ d + Len(Left) = o[Len(requests) + 1]
  /\ \A n \in (Len(served) + 1)..Len(requests) : \A j \in 1..Len(Tokens(requests[n], n)) :
       o[n] + j > d => Left[(o[n] + j) - d] = Tokens(requests[n], n)[j]

\* The parser has taken p tokens of the request that is next.
InHeaders(r, p) ==
  /\ p \in 1..(HeadSize(r) - 1) /\ request_.body_ = <<>>
  /\ request_.connection = IF p >= 2 THEN r.connection ELSE "none"
  /\ request_.length = IF p = HeadSize(r) - 1 THEN r.length ELSE -1

InBody(r, p) ==
  /\ request_.connection = r.connection /\ request_.length = r.length
  /\ \A i \in 1..Len(request_.body_) : request_.body_[i][1] \in BodyByte
  /\ p \in (HeadSize(r) + Len(request_.body_))..(HeadSize(r) + Len(r.body))

AtRequestLine(p) ==
  p = 0 /\ request_.connection = "none" /\ request_.length = -1 /\ request_.body_ = <<>>

InRequest(r, p) ==
  /\ request_.method_ = SetMethod(r.word) /\ request_.version_ = r.version
  /\ parseState_ = "kExpectHeaders" => InHeaders(r, p)
  /\ parseState_ = "kExpectBody" => InBody(r, p) /\ r.word = "POST"
  /\ parseState_ = "kGotAll" => InBody(r, p) /\ Len(request_.body_) = Len(r.body)

Progress(p) ==
  IF parseState_ = "kExpectRequestLine" THEN AtRequestLine(p)
  ELSE Len(served) < Len(requests) /\ InRequest(requests[Len(served) + 1], p)

StreamedAt(o, d) ==
  Len(served) <= Len(requests) /\ Offsets(o) /\ Holds(o, d) /\ Progress(d - o[Len(served) + 1])

Streamed == \E d \in Nat : \E o \in [1..(Len(requests) + 1) -> Nat] : StreamedAt(o, d)

\* Between two requests of a peer that waits, the buffer is empty.
Settled ==
  /\ io = "poll" => ok \/ shut
  /\ io \in {"poll", "parsed"} /\ ok /\ parseState_ = "kExpectRequestLine"
       /\ overlapped = {} /\ ~Unframed /\ ~shut
     => buf = <<>>

ContextIInv ==
  ContextTypes /\ Numbered /\ Settled /\ ServedAsSent /\ (Straight => Streamed)

\* The invariant has the types that the runs check.
LEMMA ContextTyped == ContextIInv => TypeOK
  <1> SUFFICES ASSUME ContextIInv PROVE TypeOK
    OBVIOUS
  <1> USE DEF ContextIInv
  <1>1. overlapped \subseteq 1..MaxRequests
    BY HttpContextAssumption DEF ContextTypes, Numbered, HttpContextAssumption
  <1>2. io = "poll" /\ parseState_ = "kExpectRequestLine"
           /\ overlapped = {} /\ ~Unframed /\ ~shut
         => buf = <<>>
    BY DEF Settled
  <1> QED BY <1>1, <1>2 DEF TypeOK, ContextTypes, Parsed, Answer

\* A member of a set of natural numbers is the least.
LEMMA LeastMember ==
  ASSUME NEW T, T \subseteq Nat, T # {}
  PROVE  \E x \in T : \A y \in T : x <= y
  <1> DEFINE R == OpToRel(<, Nat)
  <1>1. R = {ss \in Nat \X Nat : ss[1] < ss[2]}
    BY DEF OpToRel
  <1>2. IsWellFoundedOn(R, Nat)
    BY NatLessThanWellFounded
  <1> HIDE DEF R
  <1>3. PICK x \in T : \A y \in T : ~ (<<y, x>> \in R)
    BY <1>2, WFMin
  <1>4. ASSUME NEW y \in T PROVE x <= y
    <2>1. <<y, x>> \in Nat \X Nat /\ <<y, x>> \notin R
      BY <1>3
    <2>2. ~(y < x)
      BY <1>1, <2>1
    <2> QED BY <2>2
  <1> QED BY <1>4

\* findCRLF() finds a line, and the first byte of the buffer if a line begins
\* there.
LEMMA LineFound ==
  ASSUME buf \in Seq(Token)
  PROVE  /\ HasLine => Crlf \in 1..Len(buf) /\ buf[Crlf] \in Token
         /\ buf # <<>> /\ buf[1][1] \notin BodyByte => HasLine /\ Crlf = 1
  <1>1. Len(buf) \in Nat /\ DOMAIN buf = 1..Len(buf)
    OBVIOUS
  <1>2. ASSUME HasLine PROVE Crlf \in Lines /\ \A j \in Lines : Crlf <= j
    <2>1. Lines \subseteq Nat /\ Lines # {}
      BY <1>1, <1>2 DEF Lines, HasLine
    <2>2. \E i \in Lines : \A j \in Lines : i <= j
      BY <2>1, LeastMember
    <2> QED BY <2>2 DEF Crlf
  <1>3. HasLine => Crlf \in 1..Len(buf) /\ buf[Crlf] \in Token
    BY <1>1, <1>2 DEF Lines
  <1>4. ASSUME buf # <<>>, buf[1][1] \notin BodyByte PROVE HasLine /\ Crlf = 1
    <2>1. 1 \in Lines
      BY <1>1, <1>4 DEF Lines
    <2>2. HasLine
      BY <2>1 DEF HasLine
    <2>3. Crlf <= 1 /\ Crlf \in 1..Len(buf)
      BY <1>2, <1>3, <2>1, <2>2
    <2> QED BY <2>2, <2>3
  <1> QED BY <1>3, <1>4
\* Each token has the number of its request, and those of a body are bytes.
LEMMA TokenTells ==
  ASSUME NEW r \in Request, NEW n \in 1..MaxRequests
  PROVE  /\ Tokens(r, n) \in Seq(Token) /\ Len(Tokens(r, n)) = HeadSize(r) + Len(r.body)
         /\ HeadSize(r) \in 2..4 /\ Len(r.body) \in Nat
         /\ \A j \in 1..Len(Tokens(r, n)) :
              /\ Tokens(r, n)[j][2] = n
              /\ Tokens(r, n)[j][1] \in BodyByte <=> j > HeadSize(r)
  <1> DEFINE t == Tokens(r, n)
             h == HeadSize(r)
  <1>1. /\ t \in Seq(Token) /\ Len(t) = h + Len(r.body)
        /\ h \in 2..4 /\ Len(r.body) \in Nat
        /\ t[1] = <<"line", n>> /\ t[h] = <<"blank", n>>
        /\ \A j \in 2..(h - 1) : t[j] = <<"Connection", n>> \/ t[j] = <<"Content-Length", n>>
        /\ \A j \in (h + 1)..(h + Len(r.body)) : t[j] = <<r.body[j - h], n>>
    BY TokensTell
  <1> HIDE DEF t, h
  <1>2. ASSUME NEW j \in 1..Len(t) PROVE t[j][2] = n /\ (t[j][1] \in BodyByte <=> j > h)
    <2>1. j = 1 \/ j = h \/ j \in 2..(h - 1) \/ j \in (h + 1)..(h + Len(r.body))
      BY <1>1
    <2>2. CASE j = 1 \/ j = h \/ j \in 2..(h - 1)
      <3>1. t[j] \in {<<"line", n>>, <<"blank", n>>, <<"Connection", n>>, <<"Content-Length", n>>}
        <4>1. j \in 2..(h - 1) => t[j] = <<"Connection", n>> \/ t[j] = <<"Content-Length", n>>
          BY <1>1
        <4> QED BY <1>1, <2>2, <4>1
      <3>2. ~(j > h)
        <4>1. h \in 2..4
          BY <1>1
        <4> QED BY <2>2, <4>1
      <3> QED BY <3>1, <3>2 DEF BodyByte
    <2>3. CASE j \in (h + 1)..(h + Len(r.body))
      <3>1. t[j] = <<r.body[j - h], n>> /\ r.body[j - h] \in BodyByte
        <4>1. t[j] = <<r.body[j - h], n>>
          BY <1>1, <2>3
        <4>2. j - h \in 1..Len(r.body)
          BY <1>1, <2>3
        <4> QED BY <4>1, <4>2, BodyTells
      <3>2. j > h
        BY <1>1, <2>3
      <3> QED BY <3>1, <3>2
    <2> QED BY <2>1, <2>2, <2>3
  <1> QED BY <1>1, <1>2 DEF t, h

\* The numbers of tokens that are left, and of tokens that follow.
LEMMA NumbersKept ==
  ASSUME NEW k \in Nat, NEW s \in Seq(Token), \A i \in 1..Len(s) : s[i][2] \in 1..k,
         NEW t \in Seq(Token), \A i \in 1..Len(t) : t[i][2] \in 1..k
  PROVE  /\ \A i \in 1..Len(s \o t) : (s \o t)[i][2] \in 1..k
         /\ \A n \in 0..Len(s) : \A i \in 1..Len(Drop(s, n)) : Drop(s, n)[i][2] \in 1..k
         /\ \A n \in 0..Len(s) : \A i \in 1..Len(SubSeq(s, 1, n)) : SubSeq(s, 1, n)[i][2] \in 1..k
  <1>1. Len(s) \in Nat /\ Len(t) \in Nat
    OBVIOUS
  <1>2. ASSUME NEW i \in 1..Len(s \o t) PROVE (s \o t)[i][2] \in 1..k
    <2>1. /\ Len(s \o t) = Len(s) + Len(t)
          /\ \A j \in 1..(Len(s) + Len(t)) :
               (s \o t)[j] = IF j <= Len(s) THEN s[j] ELSE t[j - Len(s)]
      BY Concatenated
    <2>2. (s \o t)[i] = IF i <= Len(s) THEN s[i] ELSE t[i - Len(s)]
      BY <2>1
    <2>3. CASE i <= Len(s)
      BY <2>2, <2>3
    <2>4. CASE ~(i <= Len(s))
      <3>1. i - Len(s) \in 1..Len(t)
        BY <1>1, <2>1, <2>4
      <3> QED BY <2>2, <2>4, <3>1
    <2> QED BY <2>3, <2>4
  <1>3. ASSUME NEW n \in 0..Len(s), NEW i \in 1..Len(Drop(s, n))
        PROVE  Drop(s, n)[i][2] \in 1..k
    <2>1. Len(Drop(s, n)) = Len(s) - n /\ \A j \in 1..(Len(s) - n) : Drop(s, n)[j] = s[n + j]
      BY Dropped
    <2>2. Drop(s, n)[i] = s[n + i] /\ n + i \in 1..Len(s)
      BY <1>1, <2>1
    <2> QED BY <2>2
  <1>4. ASSUME NEW n \in 0..Len(s), NEW i \in 1..Len(SubSeq(s, 1, n))
        PROVE  SubSeq(s, 1, n)[i][2] \in 1..k
    <2>1. i \in 1..Len(s) /\ SubSeq(s, 1, n)[i] = s[i]
      BY <1>1
    <2> QED BY <2>1
  <1> QED BY <1>2, <1>3, <1>4

\* The peer sends one more request.
LEMMA Requested ==
  ASSUME ContextTypes, NEW r \in PeerRequests, requests' = Append(requests, r)
  PROVE  /\ requests' \in Seq(PeerRequests) /\ Len(requests) \in Nat
         /\ Len(requests') = Len(requests) + 1 /\ requests'[Len(requests) + 1] = r
         /\ \A n \in 1..Len(requests) : requests'[n] = requests[n]
         /\ r \in Request
  <1>1. requests \in Seq(PeerRequests)
    BY DEF ContextTypes
  <1>2. r \in Request
    BY HttpContextAssumption DEF HttpContextAssumption
  <1> QED BY <1>1, <1>2, AppendProperties

LEMMA RequestTyped ==
  ASSUME ContextTypes, NEW n \in 1..Len(requests)
  PROVE  requests[n] \in PeerRequests /\ requests[n] \in Request /\ n \in 1..MaxRequests
  BY HttpContextAssumption DEF ContextTypes, HttpContextAssumption

LEMMA SendTyped ==
  ASSUME ContextTypes, Numbered, PeerSends
  PROVE  ContextTypes' /\ Numbered'
  <1>1. PICK r \in PeerRequests :
          /\ requests' = Append(requests, r)
          /\ coming' = coming \o Tokens(r, Len(requests) + 1)
    BY DEF PeerSends
  <1> DEFINE k == Len(requests) + 1
             t == Tokens(r, k)
  <1>2. /\ requests' \in Seq(PeerRequests) /\ Len(requests) \in Nat
        /\ Len(requests') = k /\ r \in Request
    BY <1>1, Requested
  <1>3. k \in 1..MaxRequests
    BY <1>2, HttpContextAssumption DEF PeerSends, HttpContextAssumption
  <1>4. t \in Seq(Token) /\ \A j \in 1..Len(t) : t[j][2] = k
    BY <1>2, <1>3, TokenTells
  <1>5. /\ UNCHANGED <<buf, parseState_, request_, ok, io, served, shut, dead>>
        /\ overlapped' = IF Len(served) = Len(requests) THEN overlapped ELSE overlapped \cup {k}
    BY DEF PeerSends, parserVars, outcomeVars
  <1> HIDE DEF t
  <1>6. coming \in Seq(Token) /\ coming' = coming \o t
    BY <1>1 DEF t, ContextTypes
  <1>7. coming' \in Seq(Token)
    BY <1>4, <1>6, Concatenated
  <1>8. ContextTypes'
    BY <1>2, <1>3, <1>5, <1>7 DEF ContextTypes
  <1>9. \A i \in 1..Len(coming) : coming[i][2] \in 1..k
    BY <1>2 DEF Numbered
  <1>10. \A j \in 1..Len(t) : t[j][2] \in 1..k
    BY <1>2, <1>4
  <1>11. \A i \in 1..Len(coming') : coming'[i][2] \in 1..k
    BY <1>2, <1>4, <1>6, <1>9, <1>10, NumbersKept
  <1>12. \A i \in 1..Len(buf') : buf'[i][2] \in 1..k
    BY <1>2, <1>5 DEF Numbered
  <1>13. overlapped' \subseteq 1..k /\ (Len(served) + 2)..k \subseteq overlapped'
    <2>1. Len(served) \in Nat
      BY DEF ContextTypes
    <2>2. overlapped \subseteq 1..Len(requests) /\ (Len(served) + 2)..Len(requests) \subseteq overlapped
      BY DEF Numbered
    <2>3. ASSUME NEW n \in overlapped' PROVE n \in 1..k
      <3>1. n \in 1..Len(requests) \/ n = k
        BY <1>5, <2>2
      <3> QED BY <1>2, <3>1
    <2>4. ASSUME NEW n \in (Len(served) + 2)..k PROVE n \in overlapped'
      <3>1. n \in (Len(served) + 2)..Len(requests) \/ (n = k /\ Len(served) # Len(requests))
        BY <1>2, <2>1
      <3> QED BY <1>5, <2>2, <3>1
    <2> QED BY <2>3, <2>4
  <1> QED BY <1>2, <1>5, <1>8, <1>11, <1>12, <1>13 DEF Numbered

LEMMA OnMessageTyped ==
  ASSUME ContextTypes, Numbered, OnMessage
  PROVE  ContextTypes' /\ Numbered'
  <1>1. PICK n \in 1..Len(coming) :
          buf' = buf \o SubSeq(coming, 1, n) /\ coming' = Drop(coming, n)
    BY DEF OnMessage
  <1>2. buf \in Seq(Token) /\ coming \in Seq(Token) /\ Len(requests) \in Nat
    BY DEF ContextTypes
  <1>3. n \in 0..Len(coming)
    BY <1>2
  <1> DEFINE h == SubSeq(coming, 1, n)
  <1>4. h \in Seq(Token)
    BY <1>2, <1>3, Moved
  <1>5. Drop(coming, n) \in Seq(Token)
    BY <1>2, <1>3, Dropped
  <1> DEFINE k == Len(requests)
  <1>6. /\ \A i \in 1..Len(coming) : coming[i][2] \in 1..k
        /\ \A i \in 1..Len(buf) : buf[i][2] \in 1..k
    BY DEF Numbered
  <1> HIDE DEF k
  <1>7. k \in Nat
    BY <1>2 DEF k
  <1>8. \A i \in 1..Len(Drop(coming, n)) : Drop(coming, n)[i][2] \in 1..k
    BY <1>2, <1>3, <1>6, <1>7, NumbersKept
  <1>9. \A i \in 1..Len(h) : h[i][2] \in 1..k
    BY <1>2, <1>3, <1>6, <1>7, NumbersKept
  <1> HIDE DEF h
  <1>10. \A i \in 1..Len(buf \o h) : (buf \o h)[i][2] \in 1..k
    BY <1>2, <1>4, <1>6, <1>7, <1>9, NumbersKept
  <1>11. buf \o h \in Seq(Token)
    BY <1>2, <1>4, Concatenated
  <1>12. buf' \in Seq(Token) /\ \A i \in 1..Len(buf') : buf'[i][2] \in 1..k
    BY <1>1, <1>10, <1>11 DEF h
  <1>13. coming' \in Seq(Token) /\ \A i \in 1..Len(coming') : coming'[i][2] \in 1..k
    BY <1>1, <1>5, <1>8
  <1>14. /\ UNCHANGED <<parseState_, request_, requests, overlapped, served, shut, dead>>
         /\ ok' = TRUE /\ io' = "parse"
    BY DEF OnMessage, parserVars, outcomeVars
  <1>15. ContextTypes'
    BY <1>12, <1>13, <1>14 DEF ContextTypes
  <1> QED BY <1>12, <1>13, <1>14, <1>15 DEF Numbered, k

\* What takes bytes from the buffer, and changes what is parsed or where the
\* I/O thread is, keeps the types.
LEMMA TakeTyped ==
  ASSUME ContextTypes, Numbered, NEW n \in 0..Len(buf), buf' = Drop(buf, n),
         parseState_' \in {"kExpectRequestLine", "kExpectHeaders", "kExpectBody", "kGotAll"},
         request_' \in Parsed, ok' \in BOOLEAN, io' \in {"poll", "parse", "parsed"},
         UNCHANGED <<coming, requests, overlapped, served, shut>>, dead' \in BOOLEAN
  PROVE  ContextTypes' /\ Numbered'
  <1>1. buf \in Seq(Token) /\ Len(requests) \in Nat
    BY DEF ContextTypes
  <1>2. Drop(buf, n) \in Seq(Token)
    BY <1>1, Dropped
  <1>3. \A i \in 1..Len(buf) : buf[i][2] \in 1..Len(requests)
    BY DEF Numbered
  <1>4. \A i \in 1..Len(Drop(buf, n)) : Drop(buf, n)[i][2] \in 1..Len(requests)
    BY <1>1, <1>3, NumbersKept
  <1>5. ContextTypes'
    BY <1>2 DEF ContextTypes
  <1> QED BY <1>4, <1>5 DEF Numbered

\* The buffer as it is.
LEMMA NothingTaken ==
  ASSUME ContextTypes, UNCHANGED buf
  PROVE  0 \in 0..Len(buf) /\ buf' = Drop(buf, 0)
  <1>1. buf \in Seq(Token)
    BY DEF ContextTypes
  <1> QED BY <1>1 DEF Drop

\* What the line of the buffer is part of.
LEMMA LineTells ==
  ASSUME ContextTypes, Numbered, HasLine
  PROVE  /\ Crlf \in 0..Len(buf) /\ Crlf \in 1..Len(buf)
         /\ Sent \in Request
  <1>1. Crlf \in 1..Len(buf)
    BY LineFound DEF ContextTypes
  <1>2. buf[Crlf][2] \in 1..Len(requests)
    BY <1>1 DEF Numbered
  <1> QED BY <1>1, <1>2, RequestTyped DEF Sent, ContextTypes

\* Every word is a method.
LEMMA SetMethodTells ==
  \A w : SetMethod(w) \in Methods /\ (SetMethod(w) = "POST" <=> w = "POST")
  BY DEF SetMethod, Methods

LEMMA LineTyped ==
  ASSUME ContextTypes, Numbered, ParseRequestLine
  PROVE  ContextTypes' /\ Numbered'
  <1>1. Crlf \in 0..Len(buf) /\ Sent \in Request
    BY LineTells DEF ParseRequestLine
  <1>2. SetMethod(FirstWord) \in Methods
    BY SetMethodTells
  <1>3. request_ \in Parsed
    BY DEF ContextTypes
  <1>4. UNCHANGED <<coming, requests, overlapped, served, shut, dead>>
    BY DEF ParseRequestLine, peerVars, outcomeVars
  <1>5. ok \in BOOLEAN /\ dead \in BOOLEAN
    BY DEF ContextTypes
  <1>6. CASE Kind = "line" /\ Sent.version # "other"
    <2>1. Sent.version \in {"1.0", "1.1"}
      BY <1>1, <1>6 DEF Request
    <2>2. request_' = [request_ EXCEPT !.method_ = SetMethod(FirstWord), !.version_ = Sent.version]
          /\ parseState_' = "kExpectHeaders" /\ buf' = Drop(buf, Crlf) /\ ok' = ok /\ io' = io
      BY <1>6 DEF ParseRequestLine
    <2>3. request_' \in Parsed
      BY <1>2, <1>3, <2>1, <2>2 DEF Parsed
    <2>4. io' \in {"poll", "parse", "parsed"}
      BY <2>2 DEF ContextTypes
    <2> QED BY <1>1, <1>4, <1>5, <2>2, <2>3, <2>4, TakeTyped
  <1>7. CASE ~(Kind = "line" /\ Sent.version # "other")
    <2>1. /\ \/ request_' = request_
             \/ request_' = [request_ EXCEPT !.method_ = SetMethod(FirstWord)]
          /\ ok' = FALSE /\ io' = "parsed" /\ UNCHANGED <<parseState_, buf>>
      BY <1>7 DEF ParseRequestLine
    <2>2. request_' \in Parsed
      BY <1>2, <1>3, <2>1 DEF Parsed
    <2>3. 0 \in 0..Len(buf) /\ buf' = Drop(buf, 0)
      BY <2>1, NothingTaken
    <2>4. parseState_' \in {"kExpectRequestLine", "kExpectHeaders", "kExpectBody", "kGotAll"}
      BY <2>1 DEF ContextTypes
    <2> QED BY <1>4, <1>5, <2>1, <2>2, <2>3, <2>4, TakeTyped
  <1> QED BY <1>6, <1>7

LEMMA HeadersTyped ==
  ASSUME ContextTypes, Numbered, ParseHeaders
  PROVE  ContextTypes' /\ Numbered'
  <1>1. Crlf \in 0..Len(buf) /\ Sent \in Request
    BY LineTells DEF ParseHeaders
  <1>2. request_ \in Parsed
    BY DEF ContextTypes
  <1>3. /\ buf' = Drop(buf, Crlf) /\ UNCHANGED <<coming, requests, overlapped, served, shut, dead>>
        /\ ok' = ok /\ io' = io
    BY DEF ParseHeaders, RetrieveLine, peerVars, outcomeVars
  <1>4. ok' \in BOOLEAN /\ dead' \in BOOLEAN /\ io' \in {"poll", "parse", "parsed"}
    BY <1>3 DEF ContextTypes
  <1>5. CASE Kind \in {"Connection", "Content-Length"}
    <2>1. request_' = AddHeader /\ parseState_' = parseState_
      BY <1>5 DEF ParseHeaders
    <2>2. \/ request_' = [request_ EXCEPT !.connection = Sent.connection]
          \/ request_' = [request_ EXCEPT !.length = Sent.length]
      BY <1>5, <2>1 DEF AddHeader
    <2>3. request_' \in Parsed
      BY <1>1, <1>2, <2>2 DEF Parsed, Request
    <2>4. parseState_' \in {"kExpectRequestLine", "kExpectHeaders", "kExpectBody", "kGotAll"}
      BY <2>1 DEF ContextTypes
    <2> QED BY <1>1, <1>3, <1>4, <2>3, <2>4, TakeTyped
  <1>6. CASE Kind \notin {"Connection", "Content-Length"}
    <2>1. request_' = request_ /\ parseState_' \in {"kExpectBody", "kGotAll"}
      BY <1>6 DEF ParseHeaders
    <2> QED BY <1>1, <1>2, <1>3, <1>4, <2>1, TakeTyped
  <1> QED BY <1>5, <1>6

\* The size of a body is a number, and counts the bytes of one that has no lines.
LEMMA SizeTells ==
  ASSUME NEW s \in Seq(Token)
  PROVE  /\ Size(s) \in Nat
         /\ (\A i \in 1..Len(s) : s[i][1] \in BodyByte) => Size(s) = Len(s)
  <1> DEFINE T == {i \in DOMAIN s : s[i][1] \notin BodyByte}
             c == Cardinality(T)
  <1>1. Len(s) \in Nat /\ DOMAIN s = 1..Len(s)
    OBVIOUS
  <1>2. IsFiniteSet(1..Len(s))
    BY <1>1, FS_Interval
  <1>3. IsFiniteSet(T)
    BY <1>1, <1>2, FS_Subset
  <1>4. c \in Nat
    BY <1>3, FS_CardinalityType
  <1>5. (\A i \in 1..Len(s) : s[i][1] \in BodyByte) => c = 0
    <2> SUFFICES ASSUME \A i \in 1..Len(s) : s[i][1] \in BodyByte PROVE c = 0
      OBVIOUS
    <2>1. T = {}
      BY <1>1
    <2> QED BY <2>1, FS_EmptySet
  <1> DEFINE l == LineSize - 1
  <1>6. l \in Nat
    BY HttpContextAssumption DEF HttpContextAssumption, LineSize
  <1>7. Size(s) = Len(s) + l * c
    BY DEF Size
  <1> HIDE DEF l, c
  <1>8. l * c \in Nat /\ (c = 0 => l * c = 0)
    BY <1>4, <1>6
  <1> QED BY <1>1, <1>5, <1>7, <1>8

LEMMA BodyTyped ==
  ASSUME ContextTypes, Numbered, ParseBody
  PROVE  ContextTypes' /\ Numbered'
  <1>1. request_ \in Parsed /\ buf \in Seq(Token)
    BY DEF ContextTypes
  <1>2. /\ UNCHANGED <<coming, requests, overlapped, served, shut, dead>>
        /\ ok' = ok /\ io' = io
    BY DEF ParseBody, peerVars, outcomeVars
  <1>3. ok' \in BOOLEAN /\ dead' \in BOOLEAN /\ io' \in {"poll", "parse", "parsed"}
    BY <1>2 DEF ContextTypes
  <1>4. parseState_' \in {"kExpectRequestLine", "kExpectHeaders", "kExpectBody", "kGotAll"}
    BY DEF ParseBody, ContextTypes
  <1>5. CASE request_.length = 0
    <2>1. request_' = request_ /\ buf' = buf
      BY <1>5 DEF ParseBody
    <2>2. 0 \in 0..Len(buf) /\ buf' = Drop(buf, 0)
      BY <2>1, NothingTaken
    <2> QED BY <1>1, <1>2, <1>3, <1>4, <2>1, <2>2, TakeTyped
  <1>6. CASE request_.length # 0
    <2>1. request_' = [request_ EXCEPT !.body_ = request_.body_ \o Rest] /\ buf' = <<>>
      BY <1>6 DEF ParseBody, AppendBody
    <2>2. Rest \in Seq(Token)
      <3>1. HasLine => Crlf \in 0..Len(buf)
        BY LineTells
      <3>2. HasLine => Drop(buf, Crlf) \in Seq(Token)
        BY <1>1, <3>1, Dropped
      <3> QED BY <1>1, <3>2 DEF Rest
    <2>3. request_.body_ \in Seq(Token)
      BY <1>1 DEF Parsed
    <2>4. request_.body_ \o Rest \in Seq(Token)
      BY <2>2, <2>3, Concatenated
    <2>5. request_' \in Parsed
      BY <1>1, <2>1, <2>4 DEF Parsed
    <2>6. Len(buf) \in 0..Len(buf) /\ buf' = Drop(buf, Len(buf))
      BY <1>1, <2>1 DEF Drop
    <2> QED BY <1>2, <1>3, <1>4, <2>5, <2>6, TakeTyped
  <1> QED BY <1>5, <1>6

\* What only moves the I/O thread, or ends the process.
LEMMA OtherTyped ==
  ASSUME ContextTypes, Numbered, ParseBodyWithoutLength \/ ParseStops \/ OnMessageReturns
  PROVE  ContextTypes' /\ Numbered'
  <1>1. /\ UNCHANGED <<buf, parseState_, request_, ok, coming, requests, overlapped, served, shut>>
        /\ io' \in {io, "poll", "parsed"} /\ dead' \in {dead, TRUE}
    BY DEF ParseBodyWithoutLength, ParseStops, OnMessageReturns, parserVars, peerVars, outcomeVars
  <1> QED BY <1>1 DEF ContextTypes, Numbered

LEMMA BadRequestTyped ==
  ASSUME ContextTypes, Numbered, BadRequest
  PROVE  ContextTypes' /\ Numbered'
  <1>1. /\ UNCHANGED <<buf, parseState_, request_, ok, coming, requests, overlapped, served>>
        /\ io' = "poll" /\ dead' = shut /\ shut' = TRUE
    BY DEF BadRequest, parserVars, peerVars
  <1> QED BY <1>1 DEF ContextTypes, Numbered

\* What onRequest() is given is appended to what was served.
LEMMA AnswerTyped ==
  ASSUME ContextTypes, OnRequest, ~shut
  PROVE  LET a == [method |-> request_.method_, size |-> Size(request_.body_),
                   close |-> Closes(request_)]
         IN /\ served' = Append(served, a) /\ a \in Answer /\ served \in Seq(Answer)
            /\ shut' = Closes(request_) /\ shut' \in BOOLEAN /\ dead' = dead
  <1>1. request_ \in Parsed
    BY DEF ContextTypes
  <1>2. /\ request_.body_ \in Seq(Token) /\ request_.method_ \in Methods
        /\ Closes(request_) \in BOOLEAN
    BY <1>1 DEF Parsed, Closes
  <1>3. Size(request_.body_) \in Nat
    BY <1>2, SizeTells
  <1>4. served \in Seq(Answer)
    BY DEF ContextTypes
  <1>5. /\ served' = Append(served, [method |-> request_.method_, size |-> Size(request_.body_),
                                    close |-> Closes(request_)])
        /\ shut' = Closes(request_) /\ dead' = dead
    BY DEF OnRequest
  <1> QED BY <1>2, <1>3, <1>4, <1>5 DEF Answer

\* A new HttpRequest.
LEMMA EmptyParsed == EmptyRequest \in Parsed
  <1>1. -1 \in -1..MaxBody
    BY HttpContextAssumption DEF HttpContextAssumption
  <1>2. "GET" \in Methods /\ "none" \in ConnectionHeader
    BY DEF Methods, ConnectionHeader
  <1>3. <<>> \in Seq(Token)
    OBVIOUS
  <1> QED BY <1>1, <1>2, <1>3 DEF EmptyRequest, Parsed

LEMMA OnRequestTyped ==
  ASSUME ContextTypes, Numbered, OnRequest
  PROVE  ContextTypes' /\ Numbered'
  <1>1. /\ UNCHANGED <<buf, ok, coming, requests, overlapped>>
        /\ parseState_' = "kExpectRequestLine" /\ request_' = EmptyRequest /\ io' = "poll"
    BY DEF OnRequest, Reset, peerVars
  <1>2. EmptyRequest \in Parsed
    BY EmptyParsed
  <1>3. /\ served' \in Seq(Answer) /\ shut' \in BOOLEAN /\ dead' \in BOOLEAN
        /\ Len(served) \in Nat /\ Len(served') \in {Len(served), Len(served) + 1}
    <2>1. CASE shut
      BY <2>1 DEF OnRequest, ContextTypes
    <2>2. CASE ~shut
      <3> DEFINE a == [method |-> request_.method_, size |-> Size(request_.body_),
                       close |-> Closes(request_)]
      <3>1. /\ served' = Append(served, a) /\ a \in Answer /\ served \in Seq(Answer)
            /\ shut' \in BOOLEAN /\ dead' = dead
        BY <2>2, AnswerTyped
      <3> HIDE DEF a
      <3>2. dead' \in BOOLEAN
        BY <3>1 DEF ContextTypes
      <3> QED BY <3>1, <3>2, AppendProperties
    <2> QED BY <2>1, <2>2 DEF ContextTypes
  <1>4. ContextTypes'
    BY <1>1, <1>2, <1>3 DEF ContextTypes
  <1>5. (Len(served') + 2)..Len(requests) \subseteq overlapped
    <2>1. (Len(served) + 2)..Len(requests) \subseteq overlapped /\ Len(requests) \in Nat
      BY DEF Numbered, ContextTypes
    <2> QED BY <1>3, <2>1
  <1> QED BY <1>1, <1>4, <1>5 DEF Numbered

\* Every step keeps the types.
LEMMA ContextStepTyped ==
  ASSUME ContextTypes, Numbered, [Next]_vars
  PROVE  ContextTypes' /\ Numbered'
  <1>1. CASE UNCHANGED vars
    BY <1>1 DEF ContextTypes, Numbered, vars, parserVars, peerVars, outcomeVars
  <1>2. CASE IOStep
    BY <1>2, OnMessageTyped, LineTyped, HeadersTyped, BodyTyped, OtherTyped, BadRequestTyped,
       OnRequestTyped DEF IOStep
  <1> QED BY <1>1, <1>2, SendTyped DEF Next
-----------------------------------------------------------------------------
(* Where the parser is in what was sent.                                   *)

\* A step forgets no request, and nothing that the parser misreads.
LEMMA Remembered ==
  ASSUME ContextTypes, Numbered, [Next]_vars
  PROVE  /\ BehindPost => BehindPost'
         /\ Unframed => Unframed'
         /\ shut => shut'
  <1>1. /\ overlapped \subseteq overlapped' /\ Len(requests) \in Nat
        /\ Len(requests') \in Nat /\ Len(requests) <= Len(requests')
        /\ \A n \in 1..Len(requests) : requests'[n] = requests[n]
    <2>1. Len(requests) \in Nat
      BY DEF ContextTypes
    <2>2. CASE PeerSends
      <3>1. PICK r \in PeerRequests : requests' = Append(requests, r)
        BY <2>2 DEF PeerSends
      <3>2. overlapped \subseteq overlapped'
        BY <2>2 DEF PeerSends
      <3> QED BY <2>1, <3>1, <3>2, Requested
    <2>3. CASE ~PeerSends
      <3>1. UNCHANGED <<requests, overlapped>>
        BY <2>3 DEF Next, IOStep, OnMessage, ParseRequestLine, ParseHeaders, ParseBody,
           ParseBodyWithoutLength, ParseStops, BadRequest, OnRequest, OnMessageReturns,
           vars, peerVars
      <3> QED BY <2>1, <3>1
    <2> QED BY <2>2, <2>3
  <1>2. ASSUME BehindPost PROVE BehindPost'
    <2>1. PICK n \in overlapped : \E m \in 1..(n - 1) : requests[m].word = "POST"
      BY <1>2 DEF BehindPost
    <2>2. PICK m \in 1..(n - 1) : requests[m].word = "POST"
      BY <2>1
    <2>3. n \in overlapped' /\ n \in 1..Len(requests)
      BY <1>1, <2>1 DEF Numbered
    <2>4. m \in 1..Len(requests)
      BY <1>1, <2>2, <2>3
    <2>5. requests'[m].word = "POST"
      BY <1>1, <2>2, <2>4
    <2> QED BY <2>2, <2>3, <2>5 DEF BehindPost
  <1>3. ASSUME Unframed PROVE Unframed'
    <2>1. PICK n \in DOMAIN requests : ~Framed(requests[n])
      BY <1>3 DEF Unframed
    <2>2. n \in 1..Len(requests) /\ requests' \in Seq(PeerRequests)
      BY <2>1, ContextStepTyped DEF ContextTypes
    <2>3. n \in DOMAIN requests' /\ requests'[n] = requests[n]
      BY <1>1, <2>2
    <2> QED BY <2>1, <2>3 DEF Unframed
  <1>4. shut => shut'
    BY DEF Next, IOStep, PeerSends, OnMessage, ParseRequestLine, ParseHeaders, ParseBody,
       ParseBodyWithoutLength, ParseStops, BadRequest, OnRequest, OnMessageReturns,
       vars, outcomeVars
  <1> QED BY <1>2, <1>3, <1>4

\* The request that is sent as the n-th, and its tokens.
LEMMA RequestTells ==
  ASSUME ContextTypes, NEW n \in 1..Len(requests)
  PROVE  LET r == requests[n]
             t == Tokens(r, n)
         IN /\ r \in PeerRequests /\ r \in Request /\ n \in 1..MaxRequests
            /\ t \in Seq(Token) /\ Len(t) \in Nat
            /\ Len(t) = HeadSize(r) + Len(r.body) /\ HeadSize(r) \in 2..4 /\ Len(r.body) \in Nat
  <1>1. requests[n] \in PeerRequests /\ requests[n] \in Request /\ n \in 1..MaxRequests
    BY RequestTyped
  <1> QED BY <1>1, TokenTells

\* What is left is what is in the buffer, then what is coming.
LEMMA LeftTells ==
  ASSUME ContextTypes
  PROVE  /\ Left \in Seq(Token) /\ Len(Left) \in Nat /\ Len(buf) \in Nat
         /\ Len(Left) = Len(buf) + Len(coming) /\ Len(coming) \in Nat
         /\ \A i \in 1..Len(buf) : Left[i] = buf[i] /\ i \in 1..Len(Left)
  <1>1. buf \in Seq(Token) /\ coming \in Seq(Token)
    BY DEF ContextTypes
  <1>2. Len(buf) \in Nat /\ Len(coming) \in Nat
    BY <1>1
  <1>3. /\ buf \o coming \in Seq(Token) /\ Len(buf \o coming) = Len(buf) + Len(coming)
        /\ \A i \in 1..(Len(buf) + Len(coming)) :
             (buf \o coming)[i] = IF i <= Len(buf) THEN buf[i] ELSE coming[i - Len(buf)]
    BY <1>1, Concatenated
  <1> QED BY <1>2, <1>3 DEF Left

\* The numbers in a stream.
LEMMA StreamTells ==
  ASSUME ContextTypes, NEW d \in Nat, NEW o \in [1..(Len(requests) + 1) -> Nat],
         StreamedAt(o, d)
  PROVE  LET c == Len(served) + 1
             k == Len(requests)
         IN /\ c \in 1..(k + 1) /\ k \in Nat /\ o[c] \in Nat /\ o[k + 1] \in Nat
            /\ o[c] <= d /\ d + Len(Left) = o[k + 1] /\ Len(Left) \in Nat
            /\ Progress(d - o[c])
            /\ \A n \in 1..k : o[n] \in Nat /\ o[n + 1] \in Nat
            /\ c <= k => c \in 1..k /\ o[c + 1] = o[c] + Len(Tokens(requests[c], c))
                           /\ o[c + 1] <= o[k + 1]
  <1> DEFINE c == Len(served) + 1
             k == Len(requests)
  <1>1. k \in Nat /\ c \in 1..(k + 1)
    BY DEF ContextTypes, StreamedAt
  <1>2. Len(Left) \in Nat
    BY LeftTells
  <1>3. o[c] <= d /\ d + Len(Left) = o[k + 1] /\ Progress(d - o[c])
    BY DEF StreamedAt, Holds
  <1>4. /\ \A n \in 1..k : o[n + 1] = o[n] + Len(Tokens(requests[n], n))
        /\ \A m, n \in 1..(k + 1) : m <= n => o[m] <= o[n]
    BY DEF StreamedAt, Offsets
  <1> HIDE DEF c, k
  <1>5. /\ o[c] \in Nat /\ o[k + 1] \in Nat /\ \A n \in 1..k : o[n] \in Nat /\ o[n + 1] \in Nat
    BY <1>1 DEF k
  <1>6. ASSUME c <= k
        PROVE  /\ c \in 1..k /\ o[c + 1] = o[c] + Len(Tokens(requests[c], c))
               /\ o[c + 1] <= o[k + 1]
    <2>1. c \in 1..k /\ c + 1 \in 1..(k + 1) /\ k + 1 \in 1..(k + 1) /\ c + 1 <= k + 1
      BY <1>1, <1>6
    <2> QED BY <1>4, <2>1
  <1> QED BY <1>1, <1>2, <1>3, <1>5, <1>6 DEF c, k

\* What comes next is the rest of the request that is parsed.
LEMMA NextTokens ==
  ASSUME ContextTypes, NEW d \in Nat, NEW o \in [1..(Len(requests) + 1) -> Nat],
         StreamedAt(o, d), Len(served) < Len(requests), NEW i \in 1..Len(Left),
         (d - o[Len(served) + 1]) + i <= Len(Tokens(requests[Len(served) + 1], Len(served) + 1))
  PROVE  Left[i] = Tokens(requests[Len(served) + 1], Len(served) + 1)[(d - o[Len(served) + 1]) + i]
  <1> DEFINE c == Len(served) + 1
             k == Len(requests)
             t == Tokens(requests[c], c)
  <1>1. c \in 1..k /\ k \in Nat /\ o[c] \in Nat /\ o[c] <= d /\ Len(Left) \in Nat
    BY StreamTells DEF ContextTypes
  <1>2. \A n \in c..k : \A j \in 1..Len(Tokens(requests[n], n)) :
          o[n] + j > d => Left[(o[n] + j) - d] = Tokens(requests[n], n)[j]
    BY DEF StreamedAt, Holds
  <1>3. \A j \in 1..Len(t) : o[c] + j > d => Left[(o[c] + j) - d] = t[j]
    <2> HIDE DEF c, k
    <2>1. c \in c..k
      BY <1>1
    <2> QED BY <1>2, <2>1
  <1>4. Len(t) \in Nat
    BY <1>1, RequestTells
  <1> DEFINE j == (d - o[c]) + i
  <1>5. j <= Len(t)
    OBVIOUS
  <1> HIDE DEF c, k, t
  <1>6. j \in 1..Len(t) /\ o[c] + j > d /\ (o[c] + j) - d = i
    <2> DEFINE x == o[c]
               w == Len(t)
    <2>1. x \in Nat /\ x <= d /\ w \in Nat /\ (d - x) + i <= w /\ i \in Nat /\ i >= 1
      BY <1>1, <1>4, <1>5
    <2> HIDE DEF x, w
    <2>2. (d - x) + i \in 1..w /\ x + ((d - x) + i) > d /\ (x + ((d - x) + i)) - d = i
      BY <2>1
    <2> QED BY <2>2 DEF x, w
  <1>7. Left[i] = t[j]
    BY <1>3, <1>6
  <1> QED BY <1>7 DEF j, c, t

\* The first m tokens of what is left are taken, and the parser has got on.
LEMMA Taken ==
  ASSUME ContextTypes, NEW d \in Nat, NEW o \in [1..(Len(requests) + 1) -> Nat],
         StreamedAt(o, d), NEW m \in 0..Len(Left), Left' = Drop(Left, m),
         UNCHANGED <<requests, served>>, Progress((d + m) - o[Len(served) + 1])'
  PROVE  Streamed'
  <1> DEFINE c == Len(served) + 1
             k == Len(requests)
             e == d + m
  <1>1. /\ c \in 1..(k + 1) /\ k \in Nat /\ o[c] \in Nat /\ o[k + 1] \in Nat
        /\ o[c] <= d /\ d + Len(Left) = o[k + 1] /\ Len(Left) \in Nat
    BY StreamTells
  <1>2. /\ Len(Left') = Len(Left) - m
        /\ \A i \in 1..(Len(Left) - m) : Left'[i] = Left[m + i]
    BY LeftTells, Dropped
  <1>3. e \in Nat /\ o[c] <= e /\ e + Len(Left') = o[k + 1]
    BY <1>1, <1>2
  <1>4. /\ \A n \in c..k : \A j \in 1..Len(Tokens(requests[n], n)) :
             o[n] + j > d => Left[(o[n] + j) - d] = Tokens(requests[n], n)[j]
        /\ \A n \in 1..k : o[n + 1] = o[n] + Len(Tokens(requests[n], n))
        /\ \A a, b \in 1..(k + 1) : a <= b => o[a] <= o[b]
    BY DEF StreamedAt, Holds, Offsets
  <1>5. ASSUME NEW n \in c..k, NEW j \in 1..Len(Tokens(requests[n], n)), o[n] + j > e
        PROVE  Left'[(o[n] + j) - e] = Tokens(requests[n], n)[j]
    <2> DEFINE t == Tokens(requests[n], n)
               i == (o[n] + j) - e
    <2>1. n \in 1..k /\ n + 1 \in 1..(k + 1) /\ k + 1 \in 1..(k + 1) /\ n + 1 <= k + 1
      BY <1>1
    <2>2. o[n] \in Nat
      BY <2>1
    <2>3. Len(t) \in Nat
      BY <2>1, RequestTells
    <2>8. o[n + 1] = o[n] + Len(t) /\ o[n + 1] <= o[k + 1]
      BY <1>4, <2>1
    <2> HIDE DEF c, k, t
    <2>4. j \in 1..Len(t) /\ j \in Nat
      BY <2>3 DEF t
    <2>5. o[n] + j > d /\ i \in 1..(Len(Left) - m) /\ m + i = (o[n] + j) - d
      <3> DEFINE x == o[n]
                 y == o[k + 1]
                 l == Len(Left)
      <3>1. x \in Nat /\ y \in Nat /\ l \in Nat /\ d + l = y /\ x + j > d + m
        BY <1>1, <1>5, <2>2
      <3>3. x + j <= y
        <4> DEFINE w == Len(t)
                   z == o[n + 1]
        <4>1. z = x + w /\ z <= y /\ w \in Nat /\ j \in 1..w
          BY <2>3, <2>4, <2>8
        <4> HIDE DEF x, y, w, z
        <4> QED BY <3>1, <4>1
      <3> HIDE DEF x, y, l
      <3>2. x + j > d /\ (x + j) - (d + m) \in 1..(l - m) /\ m + ((x + j) - (d + m)) = (x + j) - d
        BY <2>4, <3>1, <3>3
      <3> QED BY <3>2 DEF x, l
    <2>6. Left'[i] = Left[(o[n] + j) - d]
      BY <1>2, <2>5
    <2>7. Left[(o[n] + j) - d] = t[j]
      BY <1>4, <2>5 DEF t
    <2> QED BY <2>6, <2>7 DEF t
  <1>6. Offsets(o)'
    BY DEF StreamedAt, Offsets
  <1>7. Holds(o, e)'
    BY <1>3, <1>5 DEF Holds
  <1>8. Len(served') <= Len(requests')
    BY DEF StreamedAt
  <1>9. StreamedAt(o, e)'
    BY <1>6, <1>7, <1>8 DEF StreamedAt
  <1>10. o \in [1..(Len(requests') + 1) -> Nat]
    OBVIOUS
  <1> HIDE DEF e
  <1> QED BY <1>3, <1>9, <1>10 DEF Streamed

\* Bytes that arrive were left before.
LEMMA OnMessageStreams ==
  ASSUME ContextTypes, Streamed, OnMessage
  PROVE  Streamed'
  <1>1. PICK d \in Nat : \E o \in [1..(Len(requests) + 1) -> Nat] : StreamedAt(o, d)
    BY DEF Streamed
  <1>2. PICK o \in [1..(Len(requests) + 1) -> Nat] : StreamedAt(o, d)
    BY <1>1
  <1>3. UNCHANGED <<requests, served, parseState_, request_>>
    BY DEF OnMessage, parserVars, outcomeVars
  <1>4. Left' = Left
    <2>1. PICK n \in 1..Len(coming) :
            buf' = buf \o SubSeq(coming, 1, n) /\ coming' = Drop(coming, n)
      BY DEF OnMessage
    <2>2. buf \in Seq(Token) /\ coming \in Seq(Token) /\ n \in 0..Len(coming)
      BY DEF ContextTypes
    <2>3. (buf \o SubSeq(coming, 1, n)) \o Drop(coming, n) = buf \o coming
      BY <2>2, Moved
    <2> QED BY <2>1, <2>3 DEF Left
  <1>5. 0 \in 0..Len(Left) /\ Left' = Drop(Left, 0)
    BY <1>4, LeftTells DEF Drop
  <1>6. Progress(d - o[Len(served) + 1])
    BY <1>2 DEF StreamedAt
  <1>7. Progress(d - o[Len(served) + 1])'
    BY <1>3, <1>6 DEF Progress, AtRequestLine, InRequest, InHeaders, InBody
  <1>8. d + 0 = d
    OBVIOUS
  <1>9. Progress((d + 0) - o[Len(served) + 1])'
    BY <1>7, <1>8
  <1> QED BY <1>2, <1>3, <1>5, <1>9, Taken

\* So were those that stay in the buffer.
LEMMA StaysStreamed ==
  ASSUME ContextTypes, Streamed, UNCHANGED <<buf, coming, requests, served, parseState_>>,
         parseState_ # "kExpectRequestLine" => UNCHANGED request_,
         UNCHANGED <<request_.connection, request_.length, request_.body_>>
  PROVE  Streamed'
  <1>1. PICK d \in Nat : \E o \in [1..(Len(requests) + 1) -> Nat] : StreamedAt(o, d)
    BY DEF Streamed
  <1>2. PICK o \in [1..(Len(requests) + 1) -> Nat] : StreamedAt(o, d)
    BY <1>1
  <1>3. Left' = Left
    BY DEF Left
  <1>4. StreamedAt(o, d)'
    BY <1>2, <1>3 DEF StreamedAt, Offsets, Holds, Progress, AtRequestLine, InRequest, InHeaders, InBody
  <1> QED BY <1>4 DEF Streamed

\* Taking n tokens from the buffer.
LEMMA BufferTaken ==
  ASSUME ContextTypes, NEW d \in Nat, NEW o \in [1..(Len(requests) + 1) -> Nat],
         StreamedAt(o, d), NEW n \in 0..Len(buf), buf' = Drop(buf, n),
         UNCHANGED <<coming, requests, served>>, Progress((d + n) - o[Len(served) + 1])'
  PROVE  Streamed'
  <1>1. buf \in Seq(Token) /\ coming \in Seq(Token)
    BY DEF ContextTypes
  <1>2. Drop(buf, n) \o coming = Drop(buf \o coming, n)
    BY <1>1, DroppedFirst
  <1>3. Left' = Drop(Left, n)
    BY <1>2 DEF Left
  <1>4. n \in 0..Len(Left)
    BY LeftTells
  <1> QED BY <1>3, <1>4, Taken

\* The next line of the buffer is where the parser has got to, unless that is
\* a body.
LEMMA NextLine ==
  ASSUME ContextTypes, NEW d \in Nat, NEW o \in [1..(Len(requests) + 1) -> Nat],
         StreamedAt(o, d), buf # <<>>, Len(served) < Len(requests),
         d - o[Len(served) + 1] < HeadSize(requests[Len(served) + 1])
  PROVE  LET n == Len(served) + 1
             j == (d - o[n]) + 1
         IN /\ HasLine /\ Crlf = 1 /\ j \in 1..HeadSize(requests[n])
            /\ buf[Crlf] = Tokens(requests[n], n)[j]
            /\ Sent = requests[n]
  <1> DEFINE n == Len(served) + 1
             r == requests[n]
             h == HeadSize(r)
             t == Tokens(r, n)
             j == (d - o[n]) + 1
  <1>1. n \in 1..Len(requests) /\ o[n] \in Nat /\ o[n] <= d /\ Len(Left) \in Nat
    BY StreamTells DEF ContextTypes
  <1>2. r \in Request /\ n \in 1..MaxRequests
    BY <1>1, RequestTells
  <1>3. /\ Len(t) = h + Len(r.body) /\ h \in 2..4 /\ Len(r.body) \in Nat
        /\ \A i \in 1..Len(t) : t[i][2] = n /\ (t[i][1] \in BodyByte <=> i > h)
    BY <1>2, TokenTells
  <1>4. Len(buf) # 0 /\ Len(buf) \in Nat /\ buf \in Seq(Token)
    BY DEF ContextTypes
  <1>5. 1 \in 1..Len(buf) /\ 1 \in 1..Len(Left) /\ Left[1] = buf[1]
    BY <1>4, LeftTells
  <1>6. (d - o[n]) + 1 <= Len(t)
    <2>1. d - o[n] < h
      OBVIOUS
    <2> HIDE DEF n, r, h, t
    <2> DEFINE x == o[n]
               l == Len(t)
               b == Len(r.body)
    <2>2. d - x < h /\ x \in Nat /\ l = h + b /\ h \in 2..4 /\ b \in Nat
      BY <1>1, <1>3, <2>1
    <2> HIDE DEF x, l, b
    <2>3. (d - x) + 1 <= l
      BY <2>2
    <2> QED BY <2>3 DEF x, l
  <1>7. Left[1] = t[j]
    BY <1>5, <1>6, NextTokens
  <1>8. j \in 1..h /\ j \in 1..Len(t)
    <2> DEFINE x == o[n]
               l == Len(t)
               b == Len(r.body)
    <2>1. d - x < h /\ x \in Nat /\ x <= d /\ l = h + b /\ h \in 2..4 /\ b \in Nat
      BY <1>1, <1>3
    <2> HIDE DEF n, r, h, t, x, l, b
    <2>2. (d - x) + 1 \in 1..h /\ (d - x) + 1 \in 1..l
      BY <2>1
    <2> QED BY <2>2 DEF x, l
  <1> HIDE DEF j, h, t
  <1>9. t[j][2] = n /\ t[j][1] \notin BodyByte
    BY <1>3, <1>8
  <1>10. buf[1] = t[j]
    BY <1>5, <1>7
  <1>11. HasLine /\ Crlf = 1
    BY <1>4, <1>9, <1>10, LineFound
  <1>12. Sent = requests[n]
    BY <1>9, <1>10, <1>11 DEF Sent
  <1> QED BY <1>8, <1>10, <1>11, <1>12 DEF j, h, t

\* With something in the buffer and nothing of a request parsed there is a
\* request that was sent.
LEMMA SomethingSent ==
  ASSUME ContextTypes, NEW d \in Nat, NEW o \in [1..(Len(requests) + 1) -> Nat],
         StreamedAt(o, d), buf # <<>>, d - o[Len(served) + 1] = 0
  PROVE  Len(served) < Len(requests)
  <1> DEFINE c == Len(served) + 1
             k == Len(requests)
  <1>1. /\ c \in 1..(k + 1) /\ k \in Nat /\ o[c] \in Nat /\ o[k + 1] \in Nat
        /\ d + Len(Left) = o[k + 1] /\ Len(Left) \in Nat
    BY StreamTells
  <1>2. Len(buf) # 0 /\ Len(buf) \in Nat
    BY DEF ContextTypes
  <1>3. Len(Left) > 0
    BY <1>2, LeftTells
  <1>4. o[c] # o[k + 1]
    <2>1. d - o[c] = 0
      OBVIOUS
    <2> HIDE DEF c, k
    <2> QED BY <1>1, <1>3, <2>1
  <1>5. c # k + 1
    BY <1>4
  <1>6. Len(served) \in Nat
    BY DEF ContextTypes
  <1> QED BY <1>1, <1>5, <1>6

\* The request line is that of the next request.
LEMMA RequestLineFound ==
  ASSUME ContextTypes, NEW d \in Nat, NEW o \in [1..(Len(requests) + 1) -> Nat],
         StreamedAt(o, d), buf # <<>>, parseState_ = "kExpectRequestLine"
  PROVE  LET n == Len(served) + 1
         IN /\ Len(served) < Len(requests) /\ n \in 1..Len(requests)
            /\ d - o[n] = 0 /\ AtRequestLine(d - o[n])
            /\ HasLine /\ Crlf = 1 /\ Kind = "line" /\ Sent = requests[n]
  <1> DEFINE n == Len(served) + 1
             r == requests[n]
  <1>1. AtRequestLine(d - o[n])
    BY DEF StreamedAt, Progress
  <1>2. d - o[n] = 0
    BY <1>1 DEF AtRequestLine
  <1>3. Len(served) < Len(requests)
    BY <1>2, SomethingSent
  <1>4. n \in 1..Len(requests)
    BY <1>3 DEF ContextTypes
  <1>5. r \in Request /\ n \in 1..MaxRequests /\ HeadSize(r) \in 2..4
    BY <1>4, RequestTells
  <1>6. d - o[n] < HeadSize(r) /\ (d - o[n]) + 1 = 1
    BY <1>2, <1>5
  <1>7. /\ HasLine /\ Crlf = 1 /\ Sent = r
        /\ buf[Crlf] = Tokens(r, n)[(d - o[n]) + 1]
    BY <1>3, <1>6, NextLine
  <1>8. Tokens(r, n)[1] = <<"line", n>>
    BY <1>5, TokensTell
  <1>9. Kind = "line"
    BY <1>6, <1>7, <1>8 DEF Kind
  <1> QED BY <1>1, <1>2, <1>3, <1>4, <1>7, <1>9

LEMMA LineStreams ==
  ASSUME ContextTypes, Numbered, Streamed, ParseRequestLine
  PROVE  Streamed'
  <1>1. PICK d \in Nat : \E o \in [1..(Len(requests) + 1) -> Nat] : StreamedAt(o, d)
    BY DEF Streamed
  <1>2. PICK o \in [1..(Len(requests) + 1) -> Nat] : StreamedAt(o, d)
    BY <1>1
  <1>3. request_ \in Parsed
    BY DEF ContextTypes
  <1>4. UNCHANGED <<coming, requests, served>> /\ parseState_ = "kExpectRequestLine" /\ HasLine
    BY DEF ParseRequestLine, Turn, peerVars, outcomeVars
  <1>5. CASE Kind = "line" /\ Sent.version # "other"
    <2> DEFINE n == Len(served) + 1
               r == requests[n]
    <2>1. buf # <<>>
      BY <1>4 DEF HasLine, Lines
    <2>2. /\ Len(served) < Len(requests) /\ n \in 1..Len(requests)
          /\ d - o[n] = 0 /\ AtRequestLine(d - o[n])
          /\ Crlf = 1 /\ Kind = "line" /\ Sent = r
      BY <1>2, <1>4, <2>1, RequestLineFound
    <2>3. /\ request_' = [request_ EXCEPT !.method_ = SetMethod(r.word), !.version_ = r.version]
          /\ parseState_' = "kExpectHeaders" /\ buf' = Drop(buf, 1)
      BY <1>5, <2>2 DEF ParseRequestLine, FirstWord
    <2>4. r \in Request /\ HeadSize(r) \in 2..4
      BY <2>2, RequestTells
    <2>5. (d + 1) - o[n] = 1
      <3>1. o[n] \in Nat
        BY <1>2, StreamTells
      <3> HIDE DEF n
      <3> QED BY <2>2, <3>1
    <2>6. /\ request_'.method_ = SetMethod(r.word) /\ request_'.version_ = r.version
          /\ request_'.body_ = <<>> /\ request_'.connection = "none" /\ request_'.length = -1
      BY <1>3, <2>2, <2>3 DEF Parsed, AtRequestLine
    <2>7. HeadSize(r) - 1 = 1 => r.length = -1
      BY DEF HeadSize
    <2>8. InHeaders(r, 1)'
      BY <1>4, <2>4, <2>6, <2>7 DEF InHeaders
    <2>9. Progress(1)'
      BY <1>4, <2>2, <2>3, <2>6, <2>8 DEF Progress, InRequest
    <2>10. 1 \in 0..Len(buf)
      BY <2>1 DEF ContextTypes
    <2>11. Progress((d + 1) - o[Len(served) + 1])'
      BY <1>4, <2>5, <2>9
    <2> QED BY <1>2, <1>4, <2>3, <2>10, <2>11, BufferTaken
  <1>6. CASE ~(Kind = "line" /\ Sent.version # "other")
    <2>1. /\ \/ request_' = request_
             \/ request_' = [request_ EXCEPT !.method_ = SetMethod(FirstWord)]
          /\ UNCHANGED <<parseState_, buf>>
      BY <1>6 DEF ParseRequestLine
    <2>2. UNCHANGED <<request_.connection, request_.length, request_.body_>>
      BY <1>3, <2>1 DEF Parsed
    <2> QED BY <1>4, <2>1, <2>2, StaysStreamed
  <1> QED BY <1>5, <1>6

LEMMA HeadersStream ==
  ASSUME ContextTypes, Numbered, Streamed, ParseHeaders, ~Unframed
  PROVE  Streamed'
  <1>1. PICK d \in Nat : \E o \in [1..(Len(requests) + 1) -> Nat] : StreamedAt(o, d)
    BY DEF Streamed
  <1>2. PICK o \in [1..(Len(requests) + 1) -> Nat] : StreamedAt(o, d)
    BY <1>1
  <1>3. request_ \in Parsed
    BY DEF ContextTypes
  <1>4. UNCHANGED <<coming, requests, served>> /\ parseState_ = "kExpectHeaders" /\ HasLine
    BY DEF ParseHeaders, Turn, peerVars, outcomeVars
  <1>5. buf # <<>>
    BY <1>4 DEF HasLine, Lines
  <1> DEFINE n == Len(served) + 1
             r == requests[n]
             h == HeadSize(r)
             t == Tokens(r, n)
  <1>6. Len(served) < Len(requests) /\ InRequest(r, d - o[n])
    BY <1>2, <1>4 DEF StreamedAt, Progress
  <1>7. n \in 1..Len(requests)
    BY <1>6 DEF ContextTypes
  <1>8. r \in Request /\ n \in 1..MaxRequests /\ h \in 2..4 /\ Len(r.body) \in Nat
    BY <1>7, RequestTells
  <1>9. o[n] \in Nat /\ o[n] <= d
    BY <1>2, StreamTells
  <1>10. PICK p \in Nat : p = d - o[n]
    <2> HIDE DEF n
    <2> QED BY <1>9
  <1>11. InRequest(r, p)
    BY <1>6, <1>10
  <1>12. /\ p \in 1..(h - 1) /\ request_.body_ = <<>>
         /\ request_.connection = IF p >= 2 THEN r.connection ELSE "none"
         /\ request_.length = IF p = h - 1 THEN r.length ELSE -1
         /\ request_.method_ = SetMethod(r.word) /\ request_.version_ = r.version
    BY <1>4, <1>11 DEF InRequest, InHeaders
  <1>13. p < h
    BY <1>8, <1>12
  <1>14. /\ Crlf = 1 /\ Sent = r /\ buf[Crlf] = t[p + 1]
    BY <1>2, <1>5, <1>6, <1>10, <1>13, NextLine
  <1>15. /\ t[h] = <<"blank", n>>
         /\ \A j \in 2..(h - 1) :
              \/ r.connection # "none" /\ j = 2 /\ t[j] = <<"Connection", n>>
              \/ r.length # -1 /\ j = h - 1 /\ t[j] = <<"Content-Length", n>>
                   /\ (r.connection # "none" => j = 3)
    BY <1>8, TokensTell
  <1>16. h = 2 + (IF r.connection = "none" THEN 0 ELSE 1) + (IF r.length = -1 THEN 0 ELSE 1)
    BY DEF HeadSize
  <1>17. buf' = Drop(buf, 1) /\ 1 \in 0..Len(buf)
    <2>1. buf' = Drop(buf, 1)
      BY <1>14 DEF ParseHeaders, RetrieveLine
    <2> QED BY <1>5, <2>1 DEF ContextTypes
  <1>18. (d + 1) - o[n] = p + 1
    <2> HIDE DEF n
    <2> QED BY <1>9, <1>10
  <1>19. r' = r /\ n' = n
    BY <1>4
  <1>20. SUFFICES Progress(p + 1)'
    <2>1. Progress((d + 1) - o[Len(served) + 1])'
      BY <1>4, <1>18, <1>20
    <2> QED BY <1>2, <1>4, <1>17, <2>1, BufferTaken
  <1> HIDE DEF h, t
  <1>21. CASE p + 1 \in 2..(h - 1)
    <2>1. \/ r.connection # "none" /\ p + 1 = 2 /\ t[p + 1] = <<"Connection", n>>
          \/ r.length # -1 /\ p + 1 = h - 1 /\ t[p + 1] = <<"Content-Length", n>>
               /\ (r.connection # "none" => p + 1 = 3)
      BY <1>15, <1>21
    <2>2. SUFFICES /\ request_'.method_ = SetMethod(r.word) /\ request_'.version_ = r.version
                   /\ parseState_' = "kExpectHeaders" /\ InHeaders(r, p + 1)'
      BY <1>4, <1>6, <1>19, <2>2 DEF Progress, InRequest
    <2>3. CASE r.connection # "none" /\ p + 1 = 2 /\ t[p + 1] = <<"Connection", n>>
      <3>1. Kind = "Connection"
        BY <1>14, <2>3 DEF Kind
      <3>2. request_' = [request_ EXCEPT !.connection = r.connection]
            /\ parseState_' = "kExpectHeaders"
        BY <1>4, <1>14, <3>1 DEF ParseHeaders, AddHeader
      <3>3. /\ request_'.connection = r.connection /\ request_'.length = request_.length
            /\ request_'.body_ = request_.body_
            /\ request_'.method_ = request_.method_ /\ request_'.version_ = request_.version_
        BY <1>3, <3>2 DEF Parsed
      <3>4. request_'.length = IF p + 1 = h - 1 THEN r.length ELSE -1
        BY <1>12, <1>16, <2>3, <3>3
      <3>5. InHeaders(r, p + 1)'
        BY <1>12, <1>19, <1>21, <2>3, <3>3, <3>4 DEF InHeaders, h
      <3> QED BY <1>12, <3>2, <3>3, <3>5
    <2>4. CASE r.length # -1 /\ p + 1 = h - 1 /\ t[p + 1] = <<"Content-Length", n>>
                 /\ (r.connection # "none" => p + 1 = 3)
      <3>1. Kind = "Content-Length"
        BY <1>14, <2>4 DEF Kind
      <3>2. request_' = [request_ EXCEPT !.length = r.length]
            /\ parseState_' = "kExpectHeaders"
        BY <1>4, <1>14, <3>1 DEF ParseHeaders, AddHeader
      <3>3. /\ request_'.length = r.length /\ request_'.connection = request_.connection
            /\ request_'.body_ = request_.body_
            /\ request_'.method_ = request_.method_ /\ request_'.version_ = request_.version_
        BY <1>3, <3>2 DEF Parsed
      <3>4. request_'.connection = r.connection
        BY <1>12, <2>4, <3>3
      <3>5. InHeaders(r, p + 1)'
        BY <1>12, <1>19, <1>21, <2>4, <3>3, <3>4 DEF InHeaders, h
      <3> QED BY <1>12, <3>2, <3>3, <3>5
    <2> QED BY <2>1, <2>3, <2>4
  <1>22. CASE p + 1 = h
    <2>1. Kind = "blank"
      BY <1>14, <1>15, <1>22 DEF Kind
    <2>2. request_' = request_
          /\ parseState_' = IF request_.method_ = "POST" THEN "kExpectBody" ELSE "kGotAll"
      BY <2>1 DEF ParseHeaders
    <2>3. request_.connection = r.connection /\ request_.length = r.length
      BY <1>12, <1>16, <1>22
    <2>4. Len(request_.body_) = 0 /\ 1..Len(request_.body_) = {}
      BY <1>12
    <2>5. InBody(r, p + 1)'
      <3>1. p + 1 \in (h + Len(request_.body_))..(h + Len(r.body))
        <4> DEFINE l == Len(r.body)
        <4>1. l \in Nat /\ h \in 2..4
          BY <1>8 DEF h
        <4> HIDE DEF l
        <4>2. p + 1 \in (h + 0)..(h + l)
          BY <1>22, <4>1
        <4> QED BY <2>4, <4>2 DEF l
      <3> QED BY <1>19, <2>2, <2>3, <2>4, <3>1 DEF InBody, h
    <2>6. request_.method_ = "POST" <=> r.word = "POST"
      BY <1>12, SetMethodTells
    <2>7. r.word # "POST" => Len(r.body) = 0
      <3>1. n \in DOMAIN requests
        BY <1>7 DEF ContextTypes
      <3>2. r.word # "POST" => r.body = <<>>
        BY <3>1 DEF Unframed, Framed
      <3> QED BY <3>2
    <2>8. parseState_' # "kExpectRequestLine" /\ parseState_' # "kExpectHeaders"
      BY <2>2
    <2>9. (parseState_' = "kExpectBody" => r.word = "POST")
          /\ (parseState_' = "kGotAll" => Len(request_.body_) = Len(r.body))
      BY <2>2, <2>4, <2>6, <2>7
    <2> QED BY <1>6, <1>4, <1>12, <1>19, <2>2, <2>5, <2>8, <2>9 DEF Progress, InRequest
  <1>23. p + 1 \in 2..(h - 1) \/ p + 1 = h
    BY <1>8, <1>12 DEF h
  <1> QED BY <1>21, <1>22, <1>23

\* Nothing was sent behind a POST that is being parsed.
LEMMA PostIsLast ==
  ASSUME ContextTypes, Numbered, ~BehindPost, Len(served) < Len(requests),
         requests[Len(served) + 1].word = "POST"
  PROVE  Len(served) + 1 = Len(requests)
  <1>1. Len(served) \in Nat /\ Len(requests) \in Nat
    BY DEF ContextTypes
  <1> SUFFICES ASSUME Len(served) + 1 # Len(requests) PROVE FALSE
    OBVIOUS
  <1>2. Len(requests) \in (Len(served) + 2)..Len(requests)
    BY <1>1
  <1>3. Len(requests) \in overlapped
    BY <1>2 DEF Numbered
  <1>4. Len(served) + 1 \in 1..(Len(requests) - 1)
    BY <1>1
  <1> QED BY <1>3, <1>4 DEF BehindPost

LEMMA BodyStreams ==
  ASSUME ContextTypes, Numbered, Streamed, ParseBody, ~BehindPost, ~Unframed
  PROVE  Streamed'
  <1>1. PICK d \in Nat : \E o \in [1..(Len(requests) + 1) -> Nat] : StreamedAt(o, d)
    BY DEF Streamed
  <1>2. PICK o \in [1..(Len(requests) + 1) -> Nat] : StreamedAt(o, d)
    BY <1>1
  <1>3. request_ \in Parsed /\ buf \in Seq(Token)
    BY DEF ContextTypes
  <1>4. UNCHANGED <<coming, requests, served>> /\ parseState_ = "kExpectBody"
    BY DEF ParseBody, Turn, peerVars, outcomeVars
  <1> DEFINE n == Len(served) + 1
             r == requests[n]
             h == HeadSize(r)
             t == Tokens(r, n)
             b == request_.body_
  <1>5. Len(served) < Len(requests) /\ InRequest(r, d - o[n])
    BY <1>2, <1>4 DEF StreamedAt, Progress
  <1>6. n \in 1..Len(requests)
    BY <1>5 DEF ContextTypes
  <1>7. /\ r \in PeerRequests /\ r \in Request /\ n \in 1..MaxRequests
        /\ Len(t) = h + Len(r.body) /\ h \in 2..4 /\ Len(r.body) \in Nat
    BY <1>6, RequestTells
  <1>8. /\ request_.connection = r.connection /\ request_.length = r.length
        /\ \A i \in 1..Len(b) : b[i][1] \in BodyByte
        /\ d - o[n] \in (h + Len(b))..(h + Len(r.body)) /\ r.word = "POST"
        /\ request_.method_ = SetMethod(r.word) /\ request_.version_ = r.version
    BY <1>4, <1>5 DEF InRequest, InBody
  <1>9. n = Len(requests)
    BY <1>5, <1>8, PostIsLast
  <1>10. b \in Seq(Token) /\ Len(b) \in Nat
    BY <1>3 DEF Parsed
  <1>11. (d - o[n]) + Len(Left) = h + Len(r.body) /\ Len(Left) \in Nat /\ o[n] \in Nat
    <2>1. /\ o[n] \in Nat /\ o[n + 1] = o[n] + Len(t) /\ d + Len(Left) = o[n + 1]
          /\ Len(Left) \in Nat
      <3>1. /\ o[n] \in Nat /\ d + Len(Left) = o[Len(requests) + 1] /\ Len(Left) \in Nat
            /\ n <= Len(requests) => o[n + 1] = o[n] + Len(t)
        BY <1>2, StreamTells
      <3>2. n <= Len(requests)
        BY <1>6
      <3> QED BY <1>9, <3>1, <3>2
    <2> DEFINE x == o[n]
               y == o[n + 1]
               z == Len(r.body)
               j == Len(t)
               l == Len(Left)
    <2>2. j = h + z /\ z \in Nat /\ h \in Nat
      BY <1>7
    <2>3. x \in Nat /\ y = x + j /\ d + l = y /\ l \in Nat
      BY <2>1
    <2> HIDE DEF h, x, y, z, j, l
    <2>4. (d - x) + l = h + z
      BY <2>2, <2>3
    <2> QED BY <2>3, <2>4 DEF l, z, x
  <1>12. r.length \in {-1, Len(r.body)}
    <2>1. n \in DOMAIN requests
      BY <1>6 DEF ContextTypes
    <2>2. Framed(r)
      BY <2>1 DEF Unframed
    <2> QED BY <1>8, <2>2 DEF Framed
  <1>13. CASE request_.length = 0
    <2>1. request_' = request_ /\ buf' = buf /\ parseState_' = "kGotAll"
      BY <1>13 DEF ParseBody
    <2>2. Len(b) = Len(r.body)
      <3> DEFINE q == d - o[n]
                 x == Len(b)
                 z == Len(r.body)
      <3>1. z = 0
        BY <1>8, <1>12, <1>13
      <3>2. q \in (h + x)..(h + z) /\ x \in Nat /\ h \in Nat
        <4>1. q \in (h + x)..(h + z)
          BY <1>8
        <4>2. x \in Nat
          BY <1>10
        <4> QED BY <1>7, <4>1, <4>2
      <3> HIDE DEF h, q, x, z
      <3>3. x = z
        BY <3>1, <3>2
      <3> QED BY <3>3 DEF x, z
    <2>3. InRequest(r, d - o[n])'
      BY <1>4, <1>8, <2>1, <2>2 DEF InRequest, InBody
    <2>4. Progress(d - o[Len(served) + 1])'
      BY <1>4, <1>5, <2>1, <2>3 DEF Progress
    <2>5. 0 \in 0..Len(buf) /\ buf' = Drop(buf, 0)
      BY <2>1, NothingTaken
    <2>6. d + 0 = d
      OBVIOUS
    <2>7. Progress((d + 0) - o[Len(served) + 1])'
      BY <2>4, <2>6
    <2> QED BY <1>2, <1>4, <2>5, <2>7, BufferTaken
  <1>14. CASE request_.length # 0
    <2>1. \A i \in 1..Len(t) : t[i][1] \in BodyByte <=> i > h
      BY <1>7, TokenTells
    <2>2. ASSUME NEW i \in 1..Len(buf) PROVE buf[i][1] \in BodyByte
      <3>1. i \in 1..Len(Left) /\ Left[i] = buf[i]
        BY LeftTells
      <3>2. (d - o[n]) + i \in 1..Len(t) /\ (d - o[n]) + i > h
        <4> DEFINE q == d - o[n]
        <4> DEFINE x == Len(b)
                   y == Len(Left)
                   z == Len(r.body)
                   w == Len(t)
        <4>1. q \in (h + x)..(h + z)
          BY <1>8
        <4>2. q + y = h + z /\ y \in Nat /\ i \in 1..y
          BY <1>11, <3>1
        <4>3. w = h + z /\ z \in Nat /\ h \in Nat
          BY <1>7
        <4>4. x \in Nat
          BY <1>10
        <4> HIDE DEF h, q, x, y, z, w
        <4>5. q + i \in 1..w /\ q + i > h
          BY <4>1, <4>2, <4>3, <4>4
        <4> QED BY <4>5 DEF q, w
      <3>3. (d - o[n]) + i <= Len(t)
        BY <1>7, <3>2
      <3>4. Left[i] = t[(d - o[n]) + i]
        BY <1>2, <1>5, <3>1, <3>3, NextTokens
      <3> HIDE DEF t, h
      <3>5. t[(d - o[n]) + i][1] \in BodyByte
        BY <2>1, <3>2
      <3> QED BY <3>1, <3>4, <3>5
    <2>6. Len(buf) \in Nat
      BY <1>3
    <2>3. /\ Rest \in Seq(Token) /\ Len(Rest) \in Nat /\ Len(Rest) <= Len(buf)
          /\ \A i \in 1..Len(Rest) : Rest[i][1] \in BodyByte
      <3>1. CASE ~HasLine
        <4>1. Rest = buf
          BY <3>1 DEF Rest
        <4> QED BY <1>3, <2>2, <2>6, <4>1
      <3>2. CASE HasLine
        <4> DEFINE s == Drop(buf, Crlf)
        <4>1. Crlf \in 0..Len(buf)
          BY <3>2, LineTells
        <4>2. /\ s \in Seq(Token) /\ Len(s) = Len(buf) - Crlf
              /\ \A i \in 1..(Len(buf) - Crlf) : s[i] = buf[Crlf + i]
          BY <1>3, <4>1, Dropped
        <4>3. Rest = s
          BY <3>2 DEF Rest
        <4> HIDE DEF s
        <4>4. Len(s) \in Nat /\ Len(s) <= Len(buf)
          BY <2>6, <4>1, <4>2
        <4>5. ASSUME NEW i \in 1..Len(s) PROVE s[i][1] \in BodyByte
          <5>1. i \in 1..(Len(buf) - Crlf) /\ Crlf + i \in 1..Len(buf)
            BY <2>6, <4>1, <4>2
          <5>2. s[i] = buf[Crlf + i]
            BY <4>2, <5>1
          <5> QED BY <2>2, <5>1, <5>2
        <4> QED BY <4>2, <4>3, <4>4, <4>5
      <3> QED BY <3>1, <3>2
    <2> DEFINE f == Rest
               e == b \o f
    <2>4. /\ request_' = [request_ EXCEPT !.body_ = e] /\ buf' = <<>>
          /\ parseState_' = IF Size(request_'.body_) = request_.length THEN "kGotAll"
                            ELSE parseState_
          /\ request_.length > 0
      BY <1>14 DEF ParseBody, AppendBody
    <2> HIDE DEF f
    <2>20. /\ f \in Seq(Token) /\ Len(f) \in Nat /\ Len(f) <= Len(buf)
           /\ \A i \in 1..Len(f) : f[i][1] \in BodyByte
      BY <2>3 DEF f
    <2>5. /\ e \in Seq(Token) /\ Len(e) = Len(b) + Len(f)
          /\ \A i \in 1..(Len(b) + Len(f)) : e[i] = IF i <= Len(b) THEN b[i] ELSE f[i - Len(b)]
      BY <1>10, <2>20, Concatenated
    <2> HIDE DEF e
    <2>7. ASSUME NEW i \in 1..Len(e) PROVE e[i][1] \in BodyByte
      <3> HIDE DEF b
      <3>1. e[i] = IF i <= Len(b) THEN b[i] ELSE f[i - Len(b)]
        BY <2>5
      <3>2. CASE i <= Len(b)
        <4>1. i \in 1..Len(b)
          BY <1>10, <3>2
        <4> QED BY <1>8, <3>1, <3>2, <4>1
      <3>3. CASE ~(i <= Len(b))
        <4>1. i - Len(b) \in 1..Len(f)
          BY <1>10, <2>5, <2>20, <3>3
        <4> QED BY <2>20, <3>1, <3>3, <4>1
      <3> QED BY <3>2, <3>3
    <2>8. Size(e) = Len(e)
      BY <2>5, <2>7, SizeTells
    <2>9. /\ request_'.body_ = e /\ request_'.connection = r.connection
          /\ request_'.length = r.length /\ request_'.method_ = SetMethod(r.word)
          /\ request_'.version_ = r.version
      BY <1>3, <1>8, <2>4 DEF Parsed
    <2>10. request_.length = Len(r.body)
      BY <1>8, <1>12, <2>4
    <2>11. parseState_' = IF Len(e) = Len(r.body) THEN "kGotAll" ELSE "kExpectBody"
      BY <1>4, <2>4, <2>8, <2>9, <2>10
    <2>12. (d + Len(buf)) - o[n] \in (h + Len(e))..(h + Len(r.body))
      <3> DEFINE x == o[n]
                 l == Len(buf)
                 m == Len(Left)
                 g == Len(f)
                 i == Len(b)
                 j == Len(e)
                 z == Len(r.body)
      <3>1. x \in Nat /\ m \in Nat /\ (d - x) + m = h + z
        BY <1>11
      <3>2. d - x \in (h + i)..(h + z)
        BY <1>8
      <3>3. j = i + g /\ g <= l /\ g \in Nat /\ l \in Nat
        BY <2>5, <2>6, <2>20
      <3>4. l <= m
        BY LeftTells
      <3>6. h \in Nat /\ z \in Nat
        BY <1>7
      <3>7. i \in Nat
        BY <1>10
      <3> HIDE DEF x, h, i, j, l, m, g, z
      <3>5. (d + l) - x \in (h + j)..(h + z)
        BY <3>1, <3>2, <3>3, <3>4, <3>6, <3>7
      <3> QED BY <3>5 DEF x, l, j, z
    <2>13. PICK p \in Int : p = (d + Len(buf)) - o[n]
      <3> HIDE DEF n
      <3> QED BY <1>11, <2>6
    <2>14. InBody(r, p)'
      BY <1>4, <2>7, <2>9, <2>12, <2>13 DEF InBody
    <2>15. InRequest(r, p)'
      BY <1>4, <1>8, <2>9, <2>11, <2>14 DEF InRequest
    <2>16. Progress(p)'
      BY <1>4, <1>5, <2>11, <2>15 DEF Progress
    <2>17. PICK m \in 0..Len(buf) : m = Len(buf) /\ buf' = Drop(buf, m)
      BY <1>3, <2>4, <2>6 DEF Drop
    <2>18. Progress((d + m) - o[Len(served) + 1])'
      BY <1>4, <2>13, <2>16, <2>17
    <2> QED BY <1>2, <1>4, <2>17, <2>18, BufferTaken
  <1> QED BY <1>13, <1>14

\* A complete request has been taken to its end.
LEMMA Complete ==
  ASSUME ContextTypes, NEW d \in Nat, NEW o \in [1..(Len(requests) + 1) -> Nat],
         StreamedAt(o, d), parseState_ = "kGotAll"
  PROVE  LET n == Len(served) + 1
             r == requests[n]
         IN /\ n \in 1..Len(requests) /\ o[n + 1] = d /\ o[n + 1] <= o[Len(requests) + 1]
            /\ request_.method_ = SetMethod(r.word) /\ request_.version_ = r.version
            /\ request_.connection = r.connection /\ Size(request_.body_) = Len(r.body)
            /\ r \in Request
  <1> DEFINE n == Len(served) + 1
             r == requests[n]
             h == HeadSize(r)
             t == Tokens(r, n)
             b == request_.body_
  <1>1. Len(served) < Len(requests) /\ InRequest(r, d - o[n])
    BY DEF StreamedAt, Progress
  <1>2. n \in 1..Len(requests) /\ n <= Len(requests)
    BY <1>1 DEF ContextTypes
  <1>3. r \in Request /\ Len(t) = h + Len(r.body) /\ h \in 2..4 /\ Len(r.body) \in Nat
    BY <1>2, RequestTells
  <1>4. /\ request_.connection = r.connection /\ \A i \in 1..Len(b) : b[i][1] \in BodyByte
        /\ d - o[n] \in (h + Len(b))..(h + Len(r.body)) /\ Len(b) = Len(r.body)
        /\ request_.method_ = SetMethod(r.word) /\ request_.version_ = r.version
    BY <1>1 DEF InRequest, InBody
  <1>5. /\ o[n] \in Nat /\ o[n + 1] = o[n] + Len(t)
        /\ o[n + 1] <= o[Len(requests) + 1]
    BY <1>2, StreamTells
  <1>6. o[n + 1] = d
    <2> DEFINE x == o[n]
               y == o[n + 1]
               l == Len(t)
               i == Len(b)
               z == Len(r.body)
    <2>3. d - x \in (h + i)..(h + z) /\ i = z
      BY <1>4
    <2>4. l = h + z /\ z \in Nat /\ h \in Nat
      BY <1>3
    <2>5. x \in Nat /\ y = x + l
      BY <1>5
    <2> HIDE DEF h, x, y, l, i, z
    <2>2. y = d
      BY <2>3, <2>4, <2>5
    <2> QED BY <2>2 DEF y
  <1>7. b \in Seq(Token)
    BY DEF ContextTypes, Parsed
  <1>8. Size(b) = Len(r.body)
    BY <1>4, <1>7, SizeTells
  <1> QED BY <1>2, <1>3, <1>4, <1>5, <1>6, <1>8

\* onRequest() is given the next request as it was sent, and the parser is at
\* the begin of the one after it.
LEMMA OnRequestStreams ==
  ASSUME ContextTypes, Streamed, OnRequest, ~shut
  PROVE  LET n == Len(served) + 1
             r == requests[n]
         IN /\ n \in 1..Len(requests) /\ served \in Seq(Answer)
            /\ \E a \in Answer : /\ served' = Append(served, a)
                                 /\ a.method = SetMethod(r.word) /\ a.size = Len(r.body)
                                 /\ a.close = ToClose(r)
            /\ Streamed'
  <1>1. PICK d \in Nat : \E o \in [1..(Len(requests) + 1) -> Nat] : StreamedAt(o, d)
    BY DEF Streamed
  <1>2. PICK o \in [1..(Len(requests) + 1) -> Nat] : StreamedAt(o, d)
    BY <1>1
  <1> DEFINE n == Len(served) + 1
             r == requests[n]
             k == Len(requests)
             a == [method |-> request_.method_, size |-> Size(request_.body_),
                   close |-> Closes(request_)]
  <1>3. /\ UNCHANGED <<buf, coming, requests>> /\ parseState_ = "kGotAll"
        /\ parseState_' = "kExpectRequestLine" /\ request_' = EmptyRequest
    BY DEF OnRequest, Reset, peerVars
  <1>4. /\ n \in 1..k /\ o[n + 1] = d /\ o[n + 1] <= o[k + 1]
        /\ request_.method_ = SetMethod(r.word) /\ request_.version_ = r.version
        /\ request_.connection = r.connection /\ Size(request_.body_) = Len(r.body)
        /\ r \in Request
    BY <1>2, <1>3, Complete
  <1>5. served' = Append(served, a) /\ a \in Answer /\ served \in Seq(Answer)
    BY AnswerTyped
  <1>6. a.method = SetMethod(r.word) /\ a.size = Len(r.body)
    BY <1>4
  <1>7. a.close = ToClose(r)
    <2>1. request_.version_ \in {"1.0", "1.1"}
      BY DEF ContextTypes, Parsed
    <2>2. Closes(request_) = ToClose(r)
      BY <1>4, <2>1 DEF Closes, ToClose
    <2> QED BY <2>2
  <1> HIDE DEF a
  <1>8. Len(served') = n /\ k \in Nat /\ n \in Nat
    BY <1>5, AppendProperties DEF ContextTypes
  <1>9. Left' = Left
    BY <1>3 DEF Left
  <1>10. /\ Offsets(o) /\ d + Len(Left) = o[k + 1]
         /\ \A m \in n..k : \A j \in 1..Len(Tokens(requests[m], m)) :
              o[m] + j > d => Left[(o[m] + j) - d] = Tokens(requests[m], m)[j]
    BY <1>2 DEF StreamedAt, Holds
  <1>11. Offsets(o)'
    BY <1>3, <1>10 DEF Offsets
  <1>12. Holds(o, d)'
    <2>1. o[Len(served') + 1] <= d /\ d + Len(Left') = o[Len(requests') + 1]
      BY <1>3, <1>4, <1>8, <1>9, <1>10
    <2>2. ASSUME NEW m \in (n + 1)..k PROVE m \in n..k
      BY <1>8
    <2>3. \A m \in (n + 1)..k : \A j \in 1..Len(Tokens(requests[m], m)) :
            o[m] + j > d => Left[(o[m] + j) - d] = Tokens(requests[m], m)[j]
      BY <1>10, <2>2
    <2> QED BY <1>3, <1>8, <1>9, <2>1, <2>3 DEF Holds
  <1>13. Progress(0)'
    BY <1>3 DEF Progress, AtRequestLine, EmptyRequest
  <1>14. d - o[Len(served') + 1] = 0
    BY <1>4, <1>8
  <1>15. StreamedAt(o, d)'
    BY <1>3, <1>4, <1>8, <1>11, <1>12, <1>13, <1>14 DEF StreamedAt
  <1>16. Streamed'
    BY <1>3, <1>15 DEF Streamed
  <1> QED BY <1>4, <1>5, <1>6, <1>7, <1>16

\* A request that is sent comes after all that is left.
LEMMA SendStreams ==
  ASSUME ContextTypes, Streamed, PeerSends
  PROVE  Streamed'
  <1>1. PICK d \in Nat : \E o \in [1..(Len(requests) + 1) -> Nat] : StreamedAt(o, d)
    BY DEF Streamed
  <1>2. PICK o \in [1..(Len(requests) + 1) -> Nat] : StreamedAt(o, d)
    BY <1>1
  <1> DEFINE k == Len(requests)
             c == Len(served) + 1
  <1>3. PICK r \in PeerRequests :
          requests' = Append(requests, r) /\ coming' = coming \o Tokens(r, k + 1)
    BY DEF PeerSends
  <1> DEFINE t == Tokens(r, k + 1)
  <1>4. UNCHANGED <<buf, served, parseState_, request_>>
    BY DEF PeerSends, parserVars, outcomeVars
  <1>5. /\ k \in Nat /\ Len(requests') = k + 1 /\ requests'[k + 1] = r /\ r \in Request
        /\ \A n \in 1..k : requests'[n] = requests[n]
    BY <1>3, Requested
  <1>6. k + 1 \in 1..MaxRequests
    BY <1>5, HttpContextAssumption DEF PeerSends, HttpContextAssumption
  <1>7. t \in Seq(Token) /\ Len(t) \in Nat
    BY <1>5, <1>6, TokenTells
  <1>8. /\ c \in 1..(k + 1) /\ o[c] \in Nat /\ o[k + 1] \in Nat
        /\ o[c] <= d /\ d + Len(Left) = o[k + 1] /\ Len(Left) \in Nat
        /\ Progress(d - o[c]) /\ \A n \in 1..k : o[n] \in Nat
    BY <1>2, StreamTells
  <1>9. /\ \A n \in 1..k : o[n + 1] = o[n] + Len(Tokens(requests[n], n))
        /\ \A m, n \in 1..(k + 1) : m <= n => o[m] <= o[n]
        /\ \A n \in c..k : \A j \in 1..Len(Tokens(requests[n], n)) :
             o[n] + j > d => Left[(o[n] + j) - d] = Tokens(requests[n], n)[j]
    BY <1>2 DEF StreamedAt, Offsets, Holds
  <1> HIDE DEF t
  <1>10. /\ Left' = Left \o t /\ Left \in Seq(Token)
    <2>1. buf \in Seq(Token) /\ coming \in Seq(Token)
      BY DEF ContextTypes
    <2>2. t \in Seq(Token)
      BY <1>7
    <2>3. (buf \o coming) \o t = buf \o (coming \o t)
      BY <2>1, <2>2, Regrouping
    <2>4. Left \in Seq(Token)
      BY LeftTells
    <2> QED BY <1>3, <1>4, <2>3, <2>4 DEF Left, t
  <1>11. /\ Len(Left') = Len(Left) + Len(t)
         /\ \A i \in 1..(Len(Left) + Len(t)) :
              Left'[i] = IF i <= Len(Left) THEN Left[i] ELSE t[i - Len(Left)]
    BY <1>7, <1>10, Concatenated
  <1> HIDE DEF k, c
  <1>12. PICK u \in [1..(k + 2) -> Nat] :
           /\ \A n \in 1..(k + 1) : u[n] = o[n] /\ u[n] \in Nat
           /\ u[k + 2] = o[k + 1] + Len(t) /\ u[k + 2] \in Nat
    <2> DEFINE u == [n \in 1..(k + 2) |-> IF n <= k + 1 THEN o[n] ELSE o[k + 1] + Len(t)]
    <2>1. \A n \in 1..(k + 1) : n \in 1..(k + 2) /\ n <= k + 1
      BY <1>5
    <2>2. k + 2 \in 1..(k + 2) /\ ~(k + 2 <= k + 1)
      BY <1>5
    <2>3. \A n \in 1..(k + 1) : o[n] \in Nat
      BY DEF k
    <2>4. /\ \A n \in 1..(k + 1) : u[n] = o[n] /\ u[n] \in Nat
          /\ u[k + 2] = o[k + 1] + Len(t) /\ u[k + 2] \in Nat
      BY <1>7, <1>8, <2>1, <2>2, <2>3
    <2>5. \A n \in 1..(k + 2) : n \in 1..(k + 1) \/ n = k + 2
      BY <1>5
    <2>6. u \in [1..(k + 2) -> Nat]
      <3>1. \A n \in 1..(k + 2) : u[n] \in Nat
        BY <2>4, <2>5
      <3> QED BY <3>1
    <2> HIDE DEF u
    <2> QED BY <2>4, <2>6
  <1>14. \A n \in 1..(k + 1) : u[n + 1] = u[n] + Len(Tokens(requests'[n], n))
    <2> SUFFICES ASSUME NEW n \in 1..(k + 1)
                 PROVE  u[n + 1] = u[n] + Len(Tokens(requests'[n], n))
      OBVIOUS
    <2>1. CASE n \in 1..k
      <3>1. n + 1 \in 1..(k + 1) /\ u[n] = o[n] /\ requests'[n] = requests[n]
        BY <1>5, <1>12, <2>1
      <3>2. u[n + 1] = o[n + 1]
        BY <1>12, <3>1
      <3> QED BY <1>9, <2>1, <3>1, <3>2
    <2>2. CASE n = k + 1
      <3>1. n + 1 = k + 2 /\ u[n] = o[k + 1] /\ Tokens(requests'[n], n) = t
        BY <1>5, <1>12, <2>2 DEF t, k
      <3> QED BY <1>12, <3>1
    <2> QED BY <1>5, <2>1, <2>2
  <1>15. \A m, n \in 1..(k + 2) : m <= n => u[m] <= u[n]
    <2> SUFFICES ASSUME NEW m \in 1..(k + 2), NEW n \in 1..(k + 2), m <= n
                 PROVE  u[m] <= u[n]
      OBVIOUS
    <2>1. CASE n \in 1..(k + 1)
      <3>1. m \in 1..(k + 1)
        BY <1>5, <2>1
      <3> QED BY <1>9, <1>12, <2>1, <3>1
    <2>2. CASE m = k + 2
      <3>1. n = m
        BY <1>5, <2>2
      <3> QED BY <1>12, <2>2, <3>1
    <2>3. CASE m \in 1..(k + 1) /\ n = k + 2
      <3>1. m <= k + 1 /\ k + 1 \in 1..(k + 1)
        BY <1>5, <2>3
      <3>2. u[m] = o[m] /\ o[m] <= o[k + 1] /\ u[m] \in Nat
        BY <1>9, <1>12, <2>3, <3>1
      <3> QED BY <1>7, <1>8, <1>12, <2>3, <3>2
    <2> QED BY <1>5, <2>1, <2>2, <2>3
  <1>16. Len(requests') + 1 = k + 2
    BY <1>5
  <1>17. Offsets(u)'
    BY <1>14, <1>15, <1>16, <1>5 DEF Offsets
  <1>18. u[c] = o[c] /\ u[k + 2] = d + Len(Left')
    BY <1>7, <1>8, <1>11, <1>12
  <1>19. ASSUME NEW n \in c..(k + 1), NEW j \in 1..Len(Tokens(requests'[n], n)), u[n] + j > d
         PROVE  Left'[(u[n] + j) - d] = Tokens(requests'[n], n)[j]
    <2>1. CASE n \in c..k
      <3>1. n \in 1..k /\ n \in 1..(k + 1) /\ n + 1 \in 1..(k + 1) /\ n + 1 <= k + 1 /\ k + 1 \in 1..(k + 1)
        BY <1>5, <1>8, <2>1
      <3>2. u[n] = o[n] /\ requests'[n] = requests[n] /\ o[n] \in Nat
        BY <1>5, <1>8, <1>12, <3>1
      <3> DEFINE s == Tokens(requests[n], n)
      <3>3. o[n + 1] = o[n] + Len(s) /\ o[n + 1] <= o[k + 1]
        BY <1>9, <3>1
      <3>4. Len(s) \in Nat
        BY <3>1, RequestTells DEF k
      <3>5. j \in 1..Len(s)
        BY <3>2
      <3>6. o[n] + j > d => Left[(o[n] + j) - d] = s[j]
        BY <1>9, <2>1, <3>5
      <3> HIDE DEF s
      <3> DEFINE i == (o[n] + j) - d
      <3>7. i \in 1..Len(Left)
        <4> DEFINE x == o[n]
                   y == o[k + 1]
                   l == Len(Left)
                   w == Len(s)
        <4>1. /\ x \in Nat /\ y \in Nat /\ l \in Nat /\ w \in Nat /\ x + w <= y /\ d + l = y
              /\ x + j > d /\ j \in 1..w
          BY <1>8, <1>19, <3>2, <3>3, <3>4, <3>5
        <4> HIDE DEF x, y, l, w
        <4>2. (x + j) - d \in 1..l
          BY <4>1
        <4> QED BY <4>2 DEF x, l
      <3>8. Left'[i] = Left[i]
        <4> HIDE DEF i
        <4>1. i \in 1..(Len(Left) + Len(t)) /\ i <= Len(Left)
          BY <1>7, <1>8, <3>7
        <4> QED BY <1>11, <4>1
      <3>9. Left[i] = s[j]
        BY <1>19, <3>2, <3>6
      <3> QED BY <3>2, <3>8, <3>9 DEF s
    <2>2. CASE n = k + 1
      <3>1. u[n] = o[k + 1] /\ requests'[n] = r /\ Tokens(requests'[n], n) = t
        BY <1>5, <1>12, <2>2 DEF t, k
      <3>2. j \in 1..Len(t)
        BY <3>1
      <3>3. (u[n] + j) - d = Len(Left) + j
        <4> DEFINE y == o[k + 1]
                   l == Len(Left)
        <4>1. y \in Nat /\ l \in Nat /\ d + l = y /\ j \in Int
          BY <1>7, <1>8, <3>2
        <4> HIDE DEF y, l
        <4>2. (y + j) - d = l + j
          BY <4>1
        <4> QED BY <3>1, <4>2 DEF y, l
      <3>4. Left'[Len(Left) + j] = t[j]
        <4> DEFINE i == Len(Left) + j
        <4>1. i \in 1..(Len(Left) + Len(t)) /\ ~(i <= Len(Left)) /\ i - Len(Left) = j
          BY <1>7, <1>8, <3>2
        <4> HIDE DEF i
        <4>2. Left'[i] = t[i - Len(Left)]
          BY <1>11, <4>1
        <4> QED BY <4>1, <4>2 DEF i
      <3> QED BY <3>1, <3>3, <3>4
    <2> QED BY <1>5, <1>8, <2>1, <2>2
  <1>20. Holds(u, d)'
    BY <1>4, <1>5, <1>8, <1>16, <1>18, <1>19 DEF Holds, c
  <1>21. Progress(d - u[Len(served) + 1])'
    <2>1. PICK p \in Int : p = d - o[c]
      BY <1>8
    <2>2. Progress(p)
      BY <1>8, <2>1
    <2>3. Len(served) < Len(requests) => Len(served) < Len(requests')
                                          /\ requests'[Len(served) + 1] = requests[Len(served) + 1]
      <3>1. Len(served) \in Nat
        BY DEF ContextTypes
      <3> QED BY <1>5, <3>1 DEF k
    <2>4. Progress(p)'
      BY <1>4, <2>2, <2>3 DEF Progress, AtRequestLine, InRequest, InHeaders, InBody
    <2>5. d - u[Len(served') + 1] = p
      BY <1>4, <1>18, <2>1 DEF c
    <2> QED BY <2>4, <2>5
  <1>22. Len(served') <= Len(requests')
    <2>1. Len(served) \in Nat /\ Len(served) <= k
      BY <1>5, <1>8 DEF ContextTypes, c
    <2> QED BY <1>4, <1>5, <2>1
  <1>23. StreamedAt(u, d)'
    BY <1>4, <1>17, <1>20, <1>21, <1>22 DEF StreamedAt
  <1>24. u \in [1..(Len(requests') + 1) -> Nat]
    BY <1>16
  <1> QED BY <1>23, <1>24 DEF Streamed

\* Every step keeps the place of the parser in what was sent.
LEMMA StreamStep ==
  ASSUME ContextTypes, Numbered, Straight => Streamed, [Next]_vars, Straight'
  PROVE  Straight /\ Streamed /\ Streamed'
  <1>1. ~BehindPost /\ ~Unframed /\ ~shut
    BY Remembered DEF Straight
  <1>2. Streamed
    BY <1>1 DEF Straight
  <1>3. CASE UNCHANGED vars
    <2>1. UNCHANGED <<buf, coming, requests, served, parseState_, request_>>
      BY <1>3 DEF vars, parserVars, peerVars, outcomeVars
    <2> QED BY <1>1, <1>2, <2>1, StaysStreamed DEF Straight
  <1>4. CASE ParseBodyWithoutLength \/ ParseStops \/ OnMessageReturns \/ BadRequest
    <2>1. UNCHANGED <<buf, coming, requests, served, parseState_, request_>>
      BY <1>4 DEF ParseBodyWithoutLength, ParseStops, OnMessageReturns, BadRequest,
         parserVars, peerVars, outcomeVars
    <2> QED BY <1>1, <1>2, <2>1, StaysStreamed DEF Straight
  <1>5. CASE OnRequest
    BY <1>1, <1>2, <1>5, OnRequestStreams DEF Straight
  <1>6. CASE PeerSends \/ OnMessage \/ ParseRequestLine \/ ParseHeaders \/ ParseBody
    BY <1>1, <1>2, <1>6, SendStreams, OnMessageStreams, LineStreams, HeadersStream, BodyStreams
       DEF Straight
  <1> QED BY <1>3, <1>4, <1>5, <1>6 DEF Next, IOStep

\* Every step keeps that what was served is what was sent.
LEMMA ServedStep ==
  ASSUME ContextTypes, Numbered, ServedAsSent, Straight => Streamed, [Next]_vars
  PROVE  ServedAsSent'
  <1> SUFFICES ASSUME ~BehindPost', ~Unframed'
               PROVE  /\ Len(served') <= Len(requests')
                      /\ \A n \in DOMAIN served' :
                           /\ served'[n].method = "POST" <=> requests'[n].word = "POST"
                           /\ served'[n].size = Len(requests'[n].body)
                           /\ served'[n].close = ToClose(requests'[n])
    BY DEF ServedAsSent, ToClose
  <1>1. ~BehindPost /\ ~Unframed
    BY Remembered
  <1>2. /\ Len(served) <= Len(requests) /\ Len(served) \in Nat /\ Len(requests) \in Nat
        /\ DOMAIN served = 1..Len(served) /\ requests \in Seq(PeerRequests)
    BY <1>1 DEF ServedAsSent, ContextTypes
  <1>3. \A n \in 1..Len(served) :
          /\ served[n].method = "POST" <=> requests[n].word = "POST"
          /\ served[n].size = Len(requests[n].body)
          /\ served[n].close = ToClose(requests[n])
    BY <1>1, <1>2 DEF ServedAsSent
  <1>4. CASE OnRequest /\ ~shut
    <2> DEFINE m == Len(served) + 1
    <2>1. requests' = requests
      BY <1>4 DEF OnRequest, peerVars
    <2>2. Streamed
      BY <1>1, <1>4 DEF Straight
    <2>3. /\ m \in 1..Len(requests) /\ served \in Seq(Answer)
          /\ \E a \in Answer : /\ served' = Append(served, a)
                               /\ a.method = SetMethod(requests[m].word)
                               /\ a.size = Len(requests[m].body) /\ a.close = ToClose(requests[m])
      BY <1>4, <2>2, OnRequestStreams
    <2>4. PICK a \in Answer : /\ served' = Append(served, a)
                              /\ a.method = SetMethod(requests[m].word)
                              /\ a.size = Len(requests[m].body) /\ a.close = ToClose(requests[m])
      BY <2>3
    <2>5. a.method = "POST" <=> requests[m].word = "POST"
      BY <2>4, SetMethodTells
    <2>6. /\ Len(served') = m /\ DOMAIN served' = 1..m /\ served'[m] = a
          /\ \A n \in 1..Len(served) : served'[n] = served[n]
      BY <2>3, <2>4, AppendProperties
    <2>7. ASSUME NEW n \in DOMAIN served'
          PROVE  /\ served'[n].method = "POST" <=> requests'[n].word = "POST"
                 /\ served'[n].size = Len(requests'[n].body)
                 /\ served'[n].close = ToClose(requests'[n])
      <3>1. n \in 1..Len(served) \/ n = m
        BY <1>2, <2>6
      <3>2. CASE n = m
        BY <2>1, <2>4, <2>5, <2>6, <3>2
      <3>3. CASE n \in 1..Len(served)
        BY <1>3, <2>1, <2>6, <3>3
      <3> QED BY <3>1, <3>2, <3>3
    <2>8. Len(served') <= Len(requests')
      BY <1>2, <2>1, <2>3, <2>6
    <2> QED BY <2>7, <2>8
  <1>5. CASE ~(OnRequest /\ ~shut)
    <2>1. served' = served
      BY <1>5 DEF Next, IOStep, PeerSends, OnMessage, ParseRequestLine, ParseHeaders, ParseBody,
         ParseBodyWithoutLength, ParseStops, BadRequest, OnRequest, OnMessageReturns,
         vars, outcomeVars
    <2>2. /\ Len(requests') \in Nat /\ Len(requests) <= Len(requests')
          /\ \A n \in 1..Len(requests) : requests'[n] = requests[n]
      <3>1. CASE PeerSends
        <4>1. PICK r \in PeerRequests : requests' = Append(requests, r)
          BY <3>1 DEF PeerSends
        <4> QED BY <1>2, <4>1, AppendProperties
      <3>2. CASE ~PeerSends
        <4>1. requests' = requests
          BY <3>2 DEF Next, IOStep, OnMessage, ParseRequestLine, ParseHeaders, ParseBody,
             ParseBodyWithoutLength, ParseStops, BadRequest, OnRequest, OnMessageReturns,
             vars, peerVars
        <4> QED BY <1>2, <4>1
      <3> QED BY <3>1, <3>2
    <2>3. ASSUME NEW n \in DOMAIN served'
          PROVE  /\ served'[n].method = "POST" <=> requests'[n].word = "POST"
                 /\ served'[n].size = Len(requests'[n].body)
                 /\ served'[n].close = ToClose(requests'[n])
      <3>1. n \in 1..Len(served) /\ n \in 1..Len(requests)
        BY <1>2, <2>1
      <3> QED BY <1>3, <2>1, <2>2, <3>1
    <2> QED BY <1>2, <2>1, <2>2, <2>3
  <1> QED BY <1>4, <1>5

\* Nothing is left when the request of a peer that waits has been answered,
\* or when the first bytes of the next one are missing.
LEMMA SettledStep ==
  ASSUME ContextTypes, Numbered, Settled, Straight => Streamed, [Next]_vars
  PROVE  Settled'
  <1>1. io' = "poll" => ok' \/ shut'
    <2>1. ok \in BOOLEAN /\ shut \in BOOLEAN
      BY DEF ContextTypes
    <2> QED BY <2>1 DEF Settled, Next, IOStep, PeerSends, OnMessage, ParseRequestLine,
         ParseHeaders, ParseBody, ParseBodyWithoutLength, ParseStops, BadRequest, OnRequest,
         OnMessageReturns, Turn, vars, outcomeVars
  <1> SUFFICES ASSUME io' \in {"poll", "parsed"}, ok', parseState_' = "kExpectRequestLine",
                      overlapped' = {}, ~Unframed', ~shut'
               PROVE  buf' = <<>>
    BY <1>1 DEF Settled
  <1>2. ~Unframed /\ ~shut
    BY Remembered
  <1>3. overlapped = {}
    BY DEF Next, IOStep, PeerSends, OnMessage, ParseRequestLine,
       ParseHeaders, ParseBody, ParseBodyWithoutLength, ParseStops, BadRequest, OnRequest,
       OnMessageReturns, vars, peerVars
  <1>4. Streamed
    BY <1>2, <1>3 DEF Straight, BehindPost
  <1>5. PICK d \in Nat : \E o \in [1..(Len(requests) + 1) -> Nat] : StreamedAt(o, d)
    BY <1>4 DEF Streamed
  <1>6. PICK o \in [1..(Len(requests) + 1) -> Nat] : StreamedAt(o, d)
    BY <1>5
  <1>7. CASE OnRequest
    <2> DEFINE n == Len(served) + 1
               k == Len(requests)
    <2>1. parseState_ = "kGotAll" /\ buf' = buf
      BY <1>7 DEF OnRequest
    <2>2. n \in 1..k /\ o[n + 1] = d
      BY <1>6, <2>1, Complete
    <2>3. Len(served) \in Nat /\ k \in Nat /\ (Len(served) + 2)..k = {}
      BY <1>3 DEF Numbered, ContextTypes
    <2>4. n = k
      <3>1. k \notin (Len(served) + 2)..k
        BY <2>3
      <3> QED BY <2>2, <2>3, <3>1
    <2>5. d + Len(Left) = d /\ Len(Left) \in Nat
      BY <1>6, <2>2, <2>4, StreamTells
    <2>6. Len(buf) = 0
      BY <2>5, LeftTells
    <2> QED BY <2>1, <2>6 DEF ContextTypes
  <1>8. CASE ParseStops /\ io = "parse" /\ parseState_ = "kExpectRequestLine"
    <2>1. ~HasLine /\ buf' = buf
      BY <1>8 DEF ParseStops, Turn
    <2>2. buf # <<>> => HasLine
      BY <1>6, <1>8, RequestLineFound
    <2> QED BY <2>1, <2>2
  <1>9. CASE BadRequest
    BY <1>9 DEF BadRequest
  <1>10. CASE ParseRequestLine \/ ParseHeaders \/ ParseBody \/ ParseBodyWithoutLength \/ OnMessage
    BY <1>10 DEF ParseRequestLine, ParseHeaders, ParseBody, ParseBodyWithoutLength, OnMessage, Turn
  <1>11. CASE PeerSends \/ OnMessageReturns \/ UNCHANGED vars
    <2>1. UNCHANGED <<buf, ok, parseState_>> /\ (io' = io \/ io = "parsed")
      BY <1>11 DEF PeerSends, OnMessageReturns, vars, parserVars
    <2> QED BY <1>2, <1>3, <2>1 DEF Settled
  <1>12. ParseStops => io = "parse" /\ parseState_' = parseState_
    BY DEF ParseStops, Turn, parserVars
  <1> QED BY <1>7, <1>8, <1>9, <1>10, <1>11, <1>12 DEF Next, IOStep

LEMMA ContextInit == Init => ContextIInv
  <1> SUFFICES ASSUME Init PROVE ContextIInv
    OBVIOUS
  <1> USE DEF Init
  <1>1. ContextTypes
    <2>1. <<>> \in Seq(Token) /\ <<>> \in Seq(Answer) /\ <<>> \in Seq(PeerRequests)
      OBVIOUS
    <2>2. Len(requests) = 0 /\ Len(requests) <= MaxRequests
      BY HttpContextAssumption DEF HttpContextAssumption
    <2> QED BY <2>1, <2>2, EmptyParsed DEF ContextTypes
  <1>2. Numbered
    BY DEF Numbered
  <1>3. Settled /\ ServedAsSent
    BY DEF Settled, ServedAsSent
  <1>4. Streamed
    <2>1. PICK o \in [1..1 -> Nat] : o[1] = 0
      <3> DEFINE o == [n \in 1..1 |-> 0]
      <3>1. o \in [1..1 -> Nat] /\ o[1] = 0
        OBVIOUS
      <3> QED BY <3>1
    <2>2. Len(served) = 0 /\ Len(requests) = 0 /\ Len(Left) = 0
      BY <1>1, LeftTells
    <2>3. Offsets(o)
      BY <2>1, <2>2 DEF Offsets
    <2>4. Holds(o, 0)
      BY <2>1, <2>2 DEF Holds
    <2>5. Progress(0 - o[1])
      BY <2>1 DEF Progress, AtRequestLine, EmptyRequest
    <2>6. StreamedAt(o, 0)
      BY <2>2, <2>3, <2>4, <2>5 DEF StreamedAt
    <2> QED BY <2>1, <2>2, <2>6 DEF Streamed
  <1> QED BY <1>1, <1>2, <1>3, <1>4 DEF ContextIInv

\* The inductive invariant holds in every behaviour.
LEMMA ContextInvariant == Spec => []ContextIInv
  <1>1. ContextIInv /\ [Next]_vars => ContextIInv'
    <2> SUFFICES ASSUME ContextIInv, [Next]_vars PROVE ContextIInv'
      OBVIOUS
    <2>1. ContextTypes /\ Numbered /\ Settled /\ ServedAsSent /\ (Straight => Streamed)
      BY DEF ContextIInv
    <2>2. ContextTypes' /\ Numbered'
      BY <2>1, ContextStepTyped
    <2>3. Settled' /\ ServedAsSent'
      BY <2>1, SettledStep, ServedStep
    <2>4. Straight' => Streamed'
      BY <2>1, StreamStep
    <2> QED BY <2>2, <2>3, <2>4 DEF ContextIInv
  <1> QED BY <1>1, ContextInit, PTL DEF Spec

\* The types of the parser, and that the buffer of a connection whose peer
\* waits for each answer is empty between two requests, for any requests.
THEOREM ContextTyping == Spec => []TypeOK
  BY ContextInvariant, ContextTyped, PTL

\* However the stream is cut into pieces, onRequest() is given what the peer
\* sent, in order and whole, for any number of requests of any size, if none
\* follows a POST that is not answered and each has the body it says it has.
THEOREM RequestsServedAsSent == Spec => []ServedAsSent
  <1>1. ContextIInv => ServedAsSent
    BY DEF ContextIInv
  <1> QED BY <1>1, ContextInvariant, PTL
=============================================================================
