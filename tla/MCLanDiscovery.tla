--------------------------- MODULE MCLanDiscovery ---------------------------
(* LanDiscovery for TLC: connections are interchangeable.                  *)
EXTENDS LanDiscovery, TLC

Symmetry == Permutations(Conns)
=============================================================================
