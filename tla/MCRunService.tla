---------------------------- MODULE MCRunService ----------------------------
(* Instance of RunService for TLC: enough saves for one to arrive while an *)
(* earlier one is being picked up.                                         *)
EXTENDS RunService
=============================================================================
