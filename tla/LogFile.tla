------------------------------ MODULE LogFile ------------------------------
(***************************************************************************)
(* The LogFile (base/LogFile.cc).  Asynchronous: threads that log put      *)
(* their lines in g_bqueue, one thread takes them out and writes them;     *)
(* join() stops that thread once the loggers are done, as                  *)
(* base/test/test_for_asylog.cc does.  Synchronous: a logger writes its    *)
(* line under the mutex of the LogFile, one step.  A new file is opened    *)
(* when the old one is full or, synchronously, of another day.             *)
(*                                                                         *)
(* The queue is BlockQueue with the one consumer Writer.  A line has size  *)
(* 1, the empty string of setOver() size 0.  A file is named by the second *)
(* it is opened in, and opened for appending.  fopen() may fail: the       *)
(* thread that rolls logs that itself, as the producer Roller, and exits.  *)
(***************************************************************************)
EXTENDS BlockQueue, SequencesExt

CONSTANTS
  Main,         \* the thread that calls join(), one of Producers
  Roller,       \* Writer where it logs, one of Producers
  Writer,       \* the thread of asyWrite(), the one of Consumers
  RollSize,     \* rollSize_
  CheckEveryN,  \* checkEveryN_
  DayLength,    \* kRollPerSeconds_
  MaxSecond     \* bound of the model: the last second of the clock

ASSUME LogFileAssumption ==
  /\ {Main, Roller} \subseteq Producers /\ Main # Roller
  /\ Consumers = {Writer}
  /\ {RollSize, CheckEveryN, DayLength, MaxSecond} \subseteq Nat \ {0}

VARIABLES
  asylog_,      \* the mode
  over,         \* over
  writerAt,     \* where Writer is in asyWrite()
  joinAt,       \* where Main is in join()
  failure,      \* of fopen(): "none", "logging" while it is logged, "exited"
  second,       \* time(NULL)
  name,         \* the name of file_
  currentDay,   \* currentDay
  count_,       \* count_
  writenBytes,  \* writenBytes
  files,        \* what the files hold, by name
  appended      \* history: the lines appended in synchronous mode

controlVars == <<over, writerAt, joinAt>>
fileVars == <<name, currentDay, count_, writenBytes, files, failure>>
logVars == <<asylog_, controlVars, second, fileVars, appended>>

Loggers == Producers \ {Main, Roller}
Running == failure # "exited"
Day == second \div DayLength

LogInit ==
  /\ Init
  /\ asylog_ \in BOOLEAN
  /\ over = FALSE
  /\ writerAt = IF asylog_ THEN "test" ELSE "notStarted"
  /\ joinAt = "logging"
  /\ failure = "none"
  /\ second = 1 /\ name = 1 /\ currentDay = Day
  /\ count_ = 0 /\ writenBytes = 0
  /\ files = [s \in 1..MaxSecond |-> <<>>]
  /\ appended = <<>>

Tick ==
  /\ Running /\ second < MaxSecond
  /\ second' = second + 1
  /\ UNCHANGED <<vars, asylog_, controlVars, fileVars, appended>>
-----------------------------------------------------------------------------
(* The file.                                                               *)

Size(item) == IF item[1] = Main THEN 0 ELSE 1

\* Mutant: rollFile() opens the file with mode "w".
OpenTruncating(lines) == <<>>

\* fopen() with mode "a+".
Open(lines) == lines

\* rollFile(): all is reset before fopen().
RollFile(written) ==
  /\ name' = second /\ currentDay' = Day
  /\ count_' = 0 /\ writenBytes' = 0
  /\ \/ files' = [written EXCEPT ![second] = Open(@)] /\ UNCHANGED failure
     \/ files' = written /\ failure' = "logging"

\* fwrite() of a line, the n-th to be counted, and the tests that follow.
Write(line, n) ==
  LET written == [files EXCEPT ![name] = Append(@, line)]
      bytes == writenBytes + Size(line)
  IN  IF bytes >= RollSize \/ (n >= CheckEveryN /\ Day # currentDay)
      THEN RollFile(written)
      ELSE /\ count_' = n /\ writenBytes' = bytes /\ files' = written
           /\ UNCHANGED <<name, currentDay, failure>>

\* append_file() in asynchronous mode.
AppendFile(p) ==
  /\ asylog_ /\ Running
  /\ PushBack(p) \/ PushBackWaits(p)
  /\ UNCHANGED logVars

\* append_file() in synchronous mode.  LOG_ERROR() of a rollFile() that fails
\* locks the mutex its thread holds: nobody appends again.
AppendDirectly(p) ==
  /\ ~asylog_ /\ failure = "none"
  /\ \E n \in 1..MaxItems :
       /\ n = 1 + Len(SelectSeq(appended, LAMBDA line : line[1] = p))
       /\ Write(<<p, n>>, count_ + 1)
       /\ appended' = Append(appended, <<p, n>>)
  /\ UNCHANGED <<vars, asylog_, controlVars, second>>
-----------------------------------------------------------------------------
(* asyWrite()                                                              *)

WriterTests ==
  /\ writerAt = "test"
  /\ writerAt' = IF over THEN "exited" ELSE "pop"
  /\ UNCHANGED <<vars, asylog_, over, joinAt, second, fileVars, appended>>

WriterPops ==
  /\ writerAt = "pop"
  /\ \/ PopFront(Writer) /\ writerAt' = "write"
     \/ PopFrontWaits(Writer) /\ UNCHANGED writerAt
  /\ UNCHANGED <<asylog_, over, joinAt, second, fileVars, appended>>

\* count_ is not incremented in this mode.
WriterWrites ==
  /\ writerAt = "write"
  /\ Write(Last(popped), count_)
  /\ writerAt' = IF failure' = "logging" THEN "log" ELSE "test"
  /\ UNCHANGED <<vars, asylog_, over, joinAt, second, appended>>

\* LOG_ERROR() of a rollFile() that fails pushes a line into the queue that
\* only this thread empties, then exit(0).
WriterLogs ==
  /\ writerAt = "log" /\ Running
  /\ \/ PushBack(Roller) /\ failure' = "exited"
     \/ PushBackWaits(Roller) /\ UNCHANGED failure
  /\ UNCHANGED <<asylog_, controlVars, second, name, currentDay, count_,
                 writenBytes, files, appended>>
-----------------------------------------------------------------------------
(* join(): setOver(true), then the join of the thread.                     *)

SetOver ==
  /\ asylog_ /\ Running
  /\ joinAt = "logging"
  /\ \A p \in Loggers : pushed[p] = MaxItems
  /\ over' = TRUE
  /\ joinAt' = "setOver"
  /\ UNCHANGED <<vars, asylog_, writerAt, second, fileVars, appended>>

\* Mutant: setOver() pushes nothing.
SetOverSilently ==
  /\ joinAt = "setOver"
  /\ joinAt' = "join"
  /\ UNCHANGED <<vars, asylog_, over, writerAt, second, fileVars, appended>>

SetOverPushes ==
  /\ joinAt = "setOver" /\ Running
  /\ \/ PushBack(Main) /\ joinAt' = "join"
     \/ PushBackWaits(Main) /\ UNCHANGED joinAt
  /\ UNCHANGED <<asylog_, over, writerAt, second, fileVars, appended>>

JoinReturns ==
  /\ joinAt = "join" /\ writerAt = "exited"
  /\ joinAt' = "joined"
  /\ UNCHANGED <<vars, asylog_, over, writerAt, second, fileVars, appended>>
-----------------------------------------------------------------------------
WriterStep == WriterTests \/ WriterPops \/ WriterWrites \/ WriterLogs

LogNext ==
  \/ Tick
  \/ \E p \in Loggers : AppendFile(p) \/ AppendDirectly(p)
  \/ WriterStep
  \/ SetOver \/ SetOverPushes \/ JoinReturns
  \/ \E t \in Threads : Running /\ SpuriousWakeup(t) /\ UNCHANGED logVars

LogSpec == LogInit /\ [][LogNext]_<<vars, logVars>>

\* Writer runs, a woken logger gets the mutex, and join() goes on once it
\* has been called; nobody is made to log or to call join().
LogFairSpec ==
  /\ LogSpec
  /\ WF_<<vars, logVars>>(WriterStep)
  /\ \A p \in Loggers : WF_<<vars, logVars>>(p \in woken /\ AppendFile(p))
  /\ WF_<<vars, logVars>>(SetOverPushes \/ JoinReturns)
-----------------------------------------------------------------------------
\* The types of the file and of the two threads, on top of BlockQueue's.
LogTypeOK ==
  /\ TypeOK
  /\ asylog_ \in BOOLEAN
  /\ over \in BOOLEAN /\ (joinAt = "logging" <=> ~over)
  /\ writerAt \in {"notStarted", "test", "pop", "write", "log", "exited"}
  /\ writerAt = "notStarted" <=> ~asylog_
  /\ joinAt \in {"logging", "setOver", "join", "joined"}
  /\ failure \in {"none", "logging", "exited"}
  /\ second \in 1..MaxSecond /\ name \in 1..second
  /\ currentDay = name \div DayLength
  /\ count_ \in Nat /\ (asylog_ => count_ = 0)
  /\ writenBytes \in 0..(RollSize - 1)
  /\ files \in [1..MaxSecond -> Seq(Items)]
  /\ appended \in Seq(Items) /\ (asylog_ => appended = <<>>)

\* The files, read in the order of their names, hold every line taken from
\* the queue, or appended directly, once and in order, whatever was rolled,
\* also when a file is opened again in the second of its name, when fopen()
\* fails and when the writer is stopped.
FilesHoldTheLog ==
  FlattenSeq(files) =
    IF ~asylog_ THEN appended
    ELSE IF writerAt = "write" THEN Front(popped) ELSE popped

\* A line that was queued is taken to be written, until join() is called or a
\* new file cannot be opened.  Then the process ends, and the one thing that
\* keeps it from ending is a full queue, which its own consumer waits on.
LinesAreWritten ==
  \A p \in Loggers : \A n \in 1..MaxItems :
    (asylog_ /\ pushed[p] >= n)
      ~> (<<p, n>> \in ToSet(popped) \/ over \/ ~Running \/ Roller \in waitForEmpty)

\* join() returns, if at setOver() the queue has room for the string that
\* wakes the writer, wherever the writer is with its unlocked test of over,
\* and if every file can be opened.
JoinEnds ==
  (joinAt = "setOver" /\ used < Capacity) ~> (joinAt = "joined" \/ failure # "none")
=============================================================================
