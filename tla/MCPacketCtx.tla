---------------------------- MODULE MCPacketCtx -----------------------------
(* Two stations that may change MAC, three cache slots and time for an     *)
(* entry to expire, be overwritten and expire again.  Stations and MACs    *)
(* are interchangeable in the specification and in every property.         *)
EXTENDS PacketCtx, TLC

Symmetry == Permutations(Ips) \cup Permutations(Macs)
=============================================================================
