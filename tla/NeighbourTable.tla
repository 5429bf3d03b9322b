--------------------------- MODULE NeighbourTable ---------------------------
(***************************************************************************)
(* What the ARP cache of the PC client promises the rest of the program:   *)
(* an address resolves to the MAC it was last heard from, from the moment  *)
(* it is recorded until ArpTtl seconds after it was last heard, and no     *)
(* traffic of other stations removes it earlier.  An address that is not   *)
(* bound may be heard and still not recorded (the cache is finite).        *)
(***************************************************************************)
EXTENDS Integers

CONSTANTS Ips, Macs, NoMac, ArpTtl, StartTime

VARIABLES bind,   \* [Ips -> [mac, until]]: what a lookup of an address finds
          heard,  \* [Ips -> Macs \cup {NoMac}]: the MAC last heard for it
          now     \* time(NULL), in seconds

vars == <<bind, heard, now>>

Unbound == [mac |-> NoMac, until |-> 0]

Init == /\ bind = [ip \in Ips |-> Unbound]
        /\ heard = [ip \in Ips |-> NoMac]
        /\ now = StartTime

(* A frame from ip arrives with source MAC mac.                            *)
Hear(ip, mac) ==
    /\ heard' = [heard EXCEPT ![ip] = mac]
    /\ \/ bind' = [bind EXCEPT ![ip] = [mac |-> mac, until |-> now + ArpTtl]]
       \/ bind[ip] = Unbound /\ UNCHANGED bind
    /\ UNCHANGED now

Tick == /\ now' = now + 1
        /\ bind' = [ip \in Ips |->
                       IF bind[ip].until > now' THEN bind[ip] ELSE Unbound]
        /\ UNCHANGED heard

Next == Tick \/ \E ip \in Ips, mac \in Macs : Hear(ip, mac)

Spec == Init /\ [][Next]_vars
=============================================================================
