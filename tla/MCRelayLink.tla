----------------------------- MODULE MCRelayLink -----------------------------
(* The link with the numbers of the code, in ticks of five seconds, or of  *)
(* one second where a property needs them.                                 *)
EXTENDS RelayLink
=============================================================================
