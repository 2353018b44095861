----------------------------- MODULE MCFpmMaster -----------------------------
(* The instances of FpmMaster that TLC checks: the constants are all values *)
(* of the configurations.                                                   *)
EXTENDS FpmMaster
=============================================================================
