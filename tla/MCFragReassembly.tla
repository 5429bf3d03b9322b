-------------------------- MODULE MCFragReassembly --------------------------
(* Instances of FragReassembly for TLC: a receiver with two or three slots *)
(* and widths small enough for ids and local ids to wrap.                  *)
EXTENDS FragReassembly
=============================================================================
