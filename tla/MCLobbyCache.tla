---------------------------- MODULE MCLobbyCache ----------------------------
(* Two slots, three lobbies.  The intervals of the code at ten ticks a     *)
(* second; Expiry and IdleLimit are scaled down (see README.md).           *)
EXTENDS LobbyCache, TLC
Symmetry == Permutations(Lobbies)
=============================================================================
