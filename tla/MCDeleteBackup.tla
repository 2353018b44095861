--------------------------- MODULE MCDeleteBackup ---------------------------
(* The instances of DeleteBackup that TLC checks. *)
EXTENDS DeleteBackup

CONSTANTS d1, n1, n2
=============================================================================
