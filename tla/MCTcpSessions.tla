--------------------------- MODULE MCTcpSessions ----------------------------
(* Two slots, so that a table can be full and a slot be reused; three      *)
(* connections over two runs, so that one arrives while another ends.      *)
EXTENDS TcpSessions
=============================================================================
