----------------------------- MODULE HttpServer -----------------------------
(***************************************************************************)
(* Registration and login (http/HttpServer.cc, defaultHttpCallback): the   *)
(* I/O threads share the map users, without a lock, the user table of the  *)
(* database, and the connection_pool; a process that ends is started again *)
(* and loads users from the table (sql_pool_init).                         *)
(*                                                                         *)
(* A row is <<name, password>>; the database takes or refuses an INSERT.   *)
(* The map is searched and filled in steps of their own; two threads in it *)
(* at once, one of them inserting, is a data race that may end the process.*)
(* exit() destroys the static pool, but not users, under the I/O threads.  *)
(* A name or password goes unescaped into the text of the INSERT, which    *)
(* may then stand for another row.                                         *)
(***************************************************************************)
EXTENDS ConnectionPool

CONSTANTS
  Names, Passwords,
  Literal  \* the row that the text of the INSERT for a row stands for

VARIABLES
  users,       \* the rows in the map users, one per name
  rows,        \* the rows of the user table
  request,     \* per thread: the request it serves, and the row it names
  at,          \* per thread: where it is in defaultHttpCallback()
  welcomed,    \* history: rows whose login was answered with welcome.html
  registered,  \* history: rows whose registration was answered with log.html
  process      \* running, in exit(), or ended

historyVars == <<welcomed, registered>>
serverVars == <<users, rows, request, at, historyVars, process>>

Rows == Names \X Passwords
ASSUME HttpServerAssumption == Literal \in [Rows -> Rows]

Requests == {"register", "login"} \X Rows
NoRequest == <<"none", NULL>>
Op(t) == request[t][1]
Account(t) == request[t][2]

Known(n) == \E r \in users : r[1] = n
NameOf(r) == r[1]

\* users[name] = password for each row in turn: one row of each name is left.
Loads(table) ==
  {u \in SUBSET table : /\ \A r, s \in u : NameOf(r) = NameOf(s) => r = s
                        /\ \A r \in table : \E s \in u : NameOf(s) = NameOf(r)}

ServerInit ==
  /\ PoolInit
  /\ users = {} /\ rows = {}
  /\ request = [t \in Threads |-> NoRequest]
  /\ at = [t \in Threads |-> "idle"]
  /\ welcomed = {} /\ registered = {}
  /\ process = "running"

Alive == process # "dead" /\ ~Misused

Goto(t, label) == at' = [at EXCEPT ![t] = label]
-----------------------------------------------------------------------------
\* A request arrives; connectionRAII begins GetConnection().
Receive(t) ==
  /\ Alive /\ at[t] = "idle"
  /\ \E r \in Requests : request' = [request EXCEPT ![t] = r]
  /\ TestList(t)
  /\ Goto(t, "users")
  /\ UNCHANGED <<users, rows, historyVars, process>>

GetConnection(t) ==
  /\ Alive
  /\ TakeConnection(t) \/ WaitForConnection(t)
  /\ UNCHANGED serverVars

Looking(t) == at[t] = "users" /\ poolAt[t] = "using"

Login(t) ==
  /\ Alive /\ Looking(t) /\ Op(t) = "login"
  /\ welcomed' = IF Account(t) \in users THEN welcomed \cup {Account(t)} ELSE welcomed
  /\ Goto(t, "release")
  /\ UNCHANGED <<poolVars, users, rows, request, registered, process>>

FindName(t) ==
  /\ Alive /\ Looking(t) /\ Op(t) = "register"
  /\ Goto(t, IF Known(NameOf(Account(t))) THEN "release" ELSE "query")
  /\ UNCHANGED <<poolVars, users, rows, request, historyVars, process>>

\* Mutant: the result of mysql_query() is not looked at.
AfterQueryUnchecked(inserted) == "insert"

AfterQuery(inserted) == IF inserted THEN "insert" ELSE "release"

Query(t) ==
  /\ Alive /\ at[t] = "query" /\ conRAII[t] # NULL
  /\ \E inserted \in BOOLEAN :
       /\ rows' = IF inserted THEN rows \cup {Literal[Account(t)]} ELSE rows
       /\ Goto(t, AfterQuery(inserted))
  /\ UNCHANGED <<poolVars, users, request, historyVars, process>>

\* insert() leaves a name that has come meanwhile alone.
InsertUser(t) ==
  /\ Alive /\ at[t] = "insert"
  /\ users' = IF Known(NameOf(Account(t))) THEN users ELSE users \cup {Account(t)}
  /\ registered' = registered \cup {Account(t)}
  /\ Goto(t, "release")
  /\ UNCHANGED <<poolVars, rows, request, welcomed, process>>

\* The block of connectionRAII ends.
Release(t) ==
  /\ Alive /\ at[t] = "release"
  /\ ReleaseConnection(t)
  /\ Goto(t, "idle")
  /\ request' = [request EXCEPT ![t] = NoRequest]
  /\ UNCHANGED <<users, rows, historyVars, process>>

Signal(t) ==
  /\ Alive
  /\ WakeUpOne(t) \/ PoolSpuriousWakeup(t)
  /\ UNCHANGED serverVars
-----------------------------------------------------------------------------
Dies ==
  /\ process # "dead" /\ process' = "dead"
  /\ UNCHANGED <<poolVars, users, rows, request, at, historyVars>>

\* exit(), when a log file cannot be opened (LogFile.cc:95): the static
\* pool is destroyed while the I/O threads go on for a while.
Exits ==
  /\ process = "running" /\ process' = "exiting"
  /\ DestroyPool
  /\ UNCHANGED <<users, rows, request, at, historyVars>>

MembersGo == DestroyMembers /\ UNCHANGED serverVars

UsesDestroyed(t) == Alive /\ Misuse(t) /\ UNCHANGED serverVars

\* From then on anything may be done with the database.
WritesAnything ==
  /\ process # "dead" /\ Misused
  /\ \E r \in Rows : rows' = rows \cup {r}
  /\ UNCHANGED <<poolVars, users, request, at, historyVars, process>>

ExitEnds == process = "exiting" /\ Dies

\* mysql_query() with the NULL of a GetConnection() that found no connection.
QueryWithNull(t) == Alive /\ at[t] = "query" /\ conRAII[t] = NULL /\ Dies

MapRace(t, u) ==
  /\ Alive /\ t # u /\ at[t] = "insert" /\ (at[u] = "insert" \/ Looking(u))
  /\ Dies

Restart ==
  /\ process = "dead" /\ process' = "running"
  /\ users' \in Loads(rows)
  /\ connList' = [i \in 1..MaxConn |-> i] /\ m_FreeConn' = MaxConn /\ m_CurConn' = 0
  /\ conRAII' = [t \in Threads |-> NULL] /\ poolAt' = [t \in Threads |-> "out"]
  /\ closed' = {} /\ reserve' = {} /\ woken' = {} /\ pool' = "alive"
  /\ at' = [t \in Threads |-> "idle"]
  /\ request' = [t \in Threads |-> NoRequest]
  /\ UNCHANGED <<rows, historyVars>>

ServerNext ==
  \/ \E t \in Threads :
       \/ Receive(t) \/ GetConnection(t) \/ Login(t) \/ FindName(t) \/ Query(t)
       \/ InsertUser(t) \/ Release(t) \/ Signal(t) \/ QueryWithNull(t)
       \/ UsesDestroyed(t)
  \/ \E t, u \in Threads : MapRace(t, u)
  \/ Exits \/ MembersGo \/ WritesAnything \/ ExitEnds \/ Restart

ServerSpec == ServerInit /\ [][ServerNext]_<<poolVars, serverVars>>
-----------------------------------------------------------------------------
\* The types; the map holds one row per name.
ServerTypeOK ==
  /\ PoolTypeOK
  /\ users \subseteq Rows /\ \A r, s \in users : NameOf(r) = NameOf(s) => r = s
  /\ rows \subseteq Rows
  /\ request \in [Threads -> Requests \cup {NoRequest}]
  /\ at \in [Threads -> {"idle", "users", "query", "insert", "release"}]
  /\ welcomed \subseteq Rows /\ registered \subseteq Rows
  /\ process \in {"running", "exiting", "dead"}

\* The row, or what the text of its INSERT stood for, is in the table.
InTable(r) == r \in rows \/ Literal[r] \in rows

\* What was answered with success is in the table as its INSERT wrote it, so
\* that it survives the end of the process at any point: the map never knows
\* more than the table, though each registration writes both without a lock,
\* and a login is accepted only for a name and password that are there.
AnswersAreStored == \A r \in users \cup registered \cup welcomed : InTable(r)
=============================================================================
