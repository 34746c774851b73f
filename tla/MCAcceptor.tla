----------------------------- MODULE MCAcceptor -----------------------------
(* The instance of Acceptor for TLC: the constants are in MCAcceptor.cfg. *)
EXTENDS Acceptor
=============================================================================
