---------------------------- MODULE MCHttpServer ----------------------------
(* More I/O threads than database connections, one name, two passwords, of *)
(* which the text of one stands for the other.                             *)
EXTENDS HttpServer, TLC

MCNull == 0
MCLiteral == [r \in Rows |-> <<r[1], "x">>]
MCSymmetry == Permutations(Threads)
=============================================================================
