----------------------------- MODULE MCLdnGate ------------------------------
(* Model checking of LdnGate with seconds scaled down: the order of the    *)
(* periods is that of the code.                                            *)
EXTENDS LdnGate
=============================================================================
