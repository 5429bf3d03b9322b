--------------------------- MODULE MCRelayServer ----------------------------
(* Model checking of RelayServer: two clients and two virtual addresses.   *)
EXTENDS RelayServer, TLC

Symmetry == Permutations(Ips)
=============================================================================
