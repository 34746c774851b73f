----------------------------- MODULE MCTcpServer -----------------------------
(* Instances of TcpServer for TLC: a pool of two threads, a descriptor used *)
(* by one connection after another, and a server without a pool, with hold  *)
(* times that start no Timer (-1) or leave it in timers_ at the removal (0). *)
EXTENDS TcpServer

CONSTANTS io1, io2, conn1, conn2

MCPoolThreads == <<io1, io2>>

MCConfig(num, mode, hold, fds, clients) ==
  [num_ |-> num, mode_ |-> mode, conn_hold_seconds |-> hold, fds |-> fds, clients |-> clients]

MCConfigs == {
  MCConfig(2, 1, 10, {1, 2}, {conn1, conn2}),
  MCConfig(1, 2, 10, {1}, {conn1, conn2}),
  MCConfig(0, 1, 0, {1, 2}, {conn1, conn2}),
  MCConfig(1, 2, -1, {1, 2}, {conn1, conn2}) }
=============================================================================
