----------------------------- MODULE MCLogFile -----------------------------
(* The instance of LogFile, and of its BlockQueue, that TLC checks. *)
EXTENDS LogFile
=============================================================================
