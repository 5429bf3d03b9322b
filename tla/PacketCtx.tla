----------------------------- MODULE PacketCtx ------------------------------
(***************************************************************************)
(* The packet context of the PC client (src/src: arp.c, packet.c,          *)
(* ipv4/ipv4.c, ipv4/icmp.c, and the delivery half of lan-client.c): the   *)
(* ARP cache and every handler that reads or writes it.  All of them run   *)
(* on the one libuv loop thread, so a handler is one action.  The frames   *)
(* a handler emits are the value of out; payloads are left out.            *)
(*                                                                         *)
(* A definition named Mut_X_Y is X with a slip of the kind Y; it is used   *)
(* only to see that a property notices the slip.                           *)
(***************************************************************************)
EXTENDS Integers

CONSTANTS
    ArpCacheLen,    \* ARP_CACHE_LEN, the number of cache slots
    ArpTtl,         \* packet_ctx.arp_ttl, 30 seconds in lan_play_init
    Ips,            \* addresses of stations of the virtual subnet
    ServerIp,       \* packet_ctx.ip, the client's own address
    BcastIp,        \* the subnet's broadcast address
    OutsideIp,      \* stands for every address outside the subnet
    NONE_IP,        \* 0.0.0.0
    Macs,           \* source MACs of received frames (the client's own is
                    \* filtered out by process_ether, packet.c:147)
    NoMac,          \* no MAC: cleared memory, or a frame without a station
    StartTime,      \* time(NULL) when the client starts
    MaxTime         \* bound on the clock

ASSUME PacketCtxAssumption ==
    /\ ArpCacheLen \in Nat \ {0}
    /\ ArpTtl \in Nat \ {0}
    /\ StartTime \in Nat \ {0}
    /\ MaxTime \in Nat
    /\ NoMac \notin Macs
    /\ {ServerIp, BcastIp, OutsideIp, NONE_IP} \cap Ips = {}
    /\ ServerIp \notin {BcastIp, OutsideIp} /\ BcastIp # OutsideIp

VARIABLES
    arp_list,             \* packet_ctx.arp_list
    now,                  \* time(NULL)
    next_real_broadcast,  \* lan_play.next_real_broadcast
    out,                  \* the frames emitted by the last handler
    heard                 \* history: the MAC last heard for each station

vars == <<arp_list, now, next_real_broadcast, out, heard>>

Slots == 0 .. ArpCacheLen - 1
ArpItem == [ip : Ips \cup {NONE_IP}, mac : Macs \cup {NoMac}, expire_at : Nat]

Frame(type, ip, mac) == [type |-> type, ip |-> ip, mac |-> mac]

TypeOK ==
    /\ arp_list \in [Slots -> ArpItem]
    /\ now \in Nat
    /\ next_real_broadcast \in BOOLEAN
    /\ heard \in [Ips -> Macs \cup {NoMac}]
    /\ out \subseteq [type : {"ipv4", "reflect", "fanout", "broadcast", "relay",
                              "gateway", "arp_request", "arp_reply"},
                      ip : Ips \cup {ServerIp, BcastIp, OutsideIp, NONE_IP},
                      mac : Macs \cup {NoMac}]
-----------------------------------------------------------------------------
(* The cache: arp_list_init, arp_has_ip, arp_get_mac_by_ip, arp_set.       *)

arp_list_init ==
    arp_list = [i \in Slots |-> [ip |-> NONE_IP, mac |-> NoMac, expire_at |-> 0]]

Live(list, i, ip) == list[i].ip = ip /\ list[i].expire_at > now

arp_has_ip(list, ip) == \E i \in Slots : Live(list, i, ip)

Mut_FirstLive_Last(list, i, ip) ==
    Live(list, i, ip) /\ \A k \in Slots : k > i => ~Live(list, k, ip)

FirstLive(list, i, ip) ==
    Live(list, i, ip) /\ \A k \in Slots : k < i => ~Live(list, k, ip)

Mut_Free_Early(i, ip) ==
    arp_list[i].ip \in {NONE_IP, ip} \/ arp_list[i].expire_at < now + 2

(* The slot arp_set may overwrite.  A slot whose entry expires exactly now *)
(* no longer resolves and is not yet free.                                 *)
Free(i, ip) ==
    arp_list[i].ip \in {NONE_IP, ip} \/ arp_list[i].expire_at < now

arp_set(mac, ip) ==
    \/ \E i \in Slots :
          /\ Free(i, ip)
          /\ \A k \in Slots : k < i => ~Free(k, ip)
          /\ arp_list' = [arp_list EXCEPT ![i] =
                [ip |-> ip, mac |-> mac, expire_at |-> now + ArpTtl]]
    \/ /\ \A i \in Slots : ~Free(i, ip)
       /\ UNCHANGED arp_list

(* arp_get_mac_by_ip followed by send_ether: an ARP request on a miss.     *)
SendIpv4To(list, ip) ==
    IF arp_has_ip(list, ip)
    THEN {Frame("ipv4", ip, list[i].mac) :
             i \in {j \in Slots : FirstLive(list, j, ip)}}
    ELSE {Frame("arp_request", ip, NoMac)}

(* History: a frame of a station was heard.                                *)
Hear(ip, mac) ==
    heard' = IF ip \in Ips THEN [heard EXCEPT ![ip] = mac] ELSE heard
-----------------------------------------------------------------------------
(* Frames received on the local interface.                                 *)

InSubnet(ip) == ip \in Ips \cup {ServerIp, BcastIp}

process_arp(op, smac, sip, tip) ==
    /\ arp_set(smac, sip)
    /\ out' = IF /\ op = "request" /\ InSubnet(tip)
                 /\ tip # sip /\ sip # NONE_IP /\ ~arp_has_ip(arp_list', tip)
              THEN {Frame("arp_reply", tip, smac)}
              ELSE {}
    /\ Hear(sip, smac)
    /\ UNCHANGED <<now, next_real_broadcast>>

process_ipv4(smac, sip, dip, icmp, toOurMac) ==
    /\ arp_set(smac, sip)
    /\ out' = CASE dip = ServerIp ->
                     IF icmp THEN SendIpv4To(arp_list', sip) ELSE {}
                [] dip = BcastIp ->
                     {Frame("relay", dip, NoMac), Frame("reflect", dip, smac)}
                [] dip \in Ips ->
                     IF arp_has_ip(arp_list', dip)
                     THEN SendIpv4To(arp_list', dip)
                     ELSE {Frame("relay", dip, NoMac)}
                [] dip = OutsideIp ->
                     IF toOurMac THEN {Frame("gateway", dip, NoMac)} ELSE {}
    /\ Hear(sip, smac)
    /\ UNCHANGED <<now, next_real_broadcast>>
-----------------------------------------------------------------------------
(* Packets for the local network: from the relay, and from the gateway.    *)

lan_client_on_broadcast ==
    /\ next_real_broadcast' = FALSE
    /\ out' = IF next_real_broadcast
              THEN {Frame("broadcast", BcastIp, NoMac)}
              ELSE {Frame("fanout", arp_list[i].ip, arp_list[i].mac) :
                       i \in {j \in Slots : arp_list[j].expire_at > now}}
    /\ UNCHANGED <<arp_list, now, heard>>

lan_client_process(dip) ==
    \/ dip = BcastIp /\ lan_client_on_broadcast
    \/ /\ dip # BcastIp
       /\ out' = SendIpv4To(arp_list, dip)
       /\ UNCHANGED <<arp_list, now, next_real_broadcast, heard>>

lan_play_gateway_send_packet(dip) ==
    /\ out' = SendIpv4To(arp_list, dip)
    /\ UNCHANGED <<arp_list, now, next_real_broadcast, heard>>

lan_client_real_broadcast_timer ==
    /\ next_real_broadcast' = TRUE
    /\ out' = {}
    /\ UNCHANGED <<arp_list, now, heard>>

Tick ==
    /\ now < MaxTime
    /\ now' = now + 1
    /\ out' = {}
    /\ UNCHANGED <<arp_list, next_real_broadcast, heard>>
-----------------------------------------------------------------------------
Init ==
    /\ arp_list_init
    /\ now = StartTime
    /\ next_real_broadcast = TRUE
    /\ out = {}
    /\ heard = [ip \in Ips |-> NoMac]

Next ==
    \/ \E op \in {"request", "reply"}, smac \in Macs, sip \in Ips \cup {NONE_IP},
          tip \in Ips \cup {ServerIp, OutsideIp} : process_arp(op, smac, sip, tip)
    \/ \E smac \in Macs, sip \in Ips,
          dip \in Ips \cup {ServerIp, BcastIp, OutsideIp},
          icmp, toOurMac \in BOOLEAN :
          process_ipv4(smac, sip, dip, icmp, toOurMac)
    \/ \E dip \in Ips \cup {BcastIp} : lan_client_process(dip)
    \/ \E dip \in Ips : lan_play_gateway_send_packet(dip)
    \/ lan_client_real_broadcast_timer
    \/ Tick

Spec == Init /\ [][Next]_vars
-----------------------------------------------------------------------------
(* Properties.                                                             *)

(* What a lookup of each station finds.                                    *)
Bound ==
    [ip \in Ips |->
        IF arp_has_ip(arp_list, ip)
        THEN LET i == CHOOSE j \in Slots : FirstLive(arp_list, j, ip)
             IN  [mac |-> arp_list[i].mac, until |-> arp_list[i].expire_at]
        ELSE [mac |-> NoMac, until |-> 0]]

Neighbours == INSTANCE NeighbourTable WITH bind <- Bound

(* The array of arp.c, in which one address can occupy several slots and a *)
(* slot is reused as soon as it has expired, behaves as a table with one   *)
(* binding per address: it resolves an address to the MAC last heard for   *)
(* it, for exactly arp_ttl seconds, whatever the other stations send.      *)
ImplementsNeighbourTable == Neighbours!Spec

(* Every IPv4 frame the client addresses to a station (relayed, local,     *)
(* gateway or ICMP traffic) carries the MAC that station last used, even   *)
(* when older entries of the same address are still live in later slots.   *)
UnicastToLatestMac ==
    \A f \in out : f.type = "ipv4" => f.mac = heard[f.ip] /\ f.mac # NoMac

(* The inductive strengthening: of two entries of one address the one in   *)
(* the lower slot was written later, no entry outlives arp_ttl, and the    *)
(* lowest entry of an address, until it expires, holds the MAC h records.  *)
Ordered(list, h) ==
    /\ \A i, j \in Slots :
          (i < j /\ list[i].ip = list[j].ip /\ list[i].ip \in Ips)
             => list[j].expire_at <= list[i].expire_at
    /\ \A i \in Slots : list[i].expire_at <= now + ArpTtl
    /\ \A i \in Slots :
          /\ list[i].ip \in Ips
          /\ list[i].expire_at >= now
          /\ \A k \in Slots : k < i => list[k].ip # list[i].ip
          => list[i].mac = h[list[i].ip] /\ list[i].mac \in Macs

(* arp_set always writes an address below every older entry it leaves      *)
(* behind, so the first match of a lookup is the newest one.               *)
NewestFirst == Ordered(arp_list, heard)
=============================================================================
