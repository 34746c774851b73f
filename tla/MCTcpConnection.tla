--------------------------- MODULE MCTcpConnection ---------------------------
(* TcpConnection with both modes, and level-triggered alone.               *)
EXTENDS TcpConnection

MCBothModes == {1, 2}
MCLevelTriggered == {1}
=============================================================================
