---------------------------- MODULE CacheProofs -----------------------------
(***************************************************************************)
(* Proofs about the tables in which the system keeps what it has heard;    *)
(* they share no state: the ARP cache of the PC client and the lobby cache *)
(* of the LDN bridge.                                                      *)
(*                                                                         *)
(* PacketCtx, for every number of slots, stations, MACs and every arp_ttl: *)
(* the cache resolves an address to the MAC last heard, and it implements  *)
(* the table of module NeighbourTable.                                     *)
(*                                                                         *)
(* LobbyCache, for every number of slots and of lobbies and for all        *)
(* intervals that satisfy LobbyCacheTiming: a lobby never has two slots, a *)
(* scan of the game sees every lobby that stays in the cache, and a lobby  *)
(* that is no longer heard of leaves it.                                   *)
(***************************************************************************)
EXTENDS PacketCtx, LobbyCache, WellFoundedInduction, TLAPS

(* Time limits of the provers, for the many facts in scope.                *)
USE SMTT(20), ZenonT(30)

USE PacketCtxAssumption

(* A nonempty set of naturals has a least element.                         *)
LEMMA LeastNat ==
    ASSUME NEW S \in SUBSET Nat, S # {}
    PROVE  \E x \in S : \A y \in S : x <= y
<1> DEFINE R == OpToRel(<, Nat)
<1>1. IsWellFoundedOn(R, Nat)
  BY NatLessThanWellFounded, Zenon
<1>2. \A x, y \in Nat : x < y => <<x, y>> \in R
  BY Zenon DEF OpToRel
<1> HIDE DEF R
<1>3. PICK x \in S : \A y \in S : ~ (<<y, x>> \in R)
  BY <1>1, WFMin, Zenon
<1>4. ASSUME NEW y \in S PROVE x <= y
  <2>1. ~(<<y, x>> \in R)
    BY <1>3, Zenon
  <2>2. x \in Nat /\ y \in Nat
    BY Zenon
  <2>3. ~(y < x)
    BY <1>2, <2>1, <2>2, Zenon
  <2> QED BY <2>2, <2>3
<1> QED BY <1>4, Zenon

(* A lookup that succeeds stops at some slot.                              *)
LEMMA FirstLiveExists ==
    ASSUME NEW list, NEW ip, arp_has_ip(list, ip)
    PROVE  \E i \in Slots : FirstLive(list, i, ip)
<1> DEFINE S == {i \in Slots : Live(list, i, ip)}
<1>1. S \in SUBSET Nat /\ S # {}
  BY DEF Slots, arp_has_ip
<1>2. PICK i \in S : \A k \in S : i <= k
  BY <1>1, LeastNat, Zenon
<1>3. \A k \in Slots : k < i => ~Live(list, k, ip)
  BY <1>2 DEF Slots
<1> QED BY <1>2, <1>3, Zenon DEF FirstLive

(* The slot at which a lookup stops holds the MAC last heard.              *)
LEMMA FirstLiveIsLatest ==
    ASSUME NEW list \in [Slots -> ArpItem], NEW h, Ordered(list, h), now \in Nat,
           NEW ip \in Ips, NEW i \in Slots, FirstLive(list, i, ip)
    PROVE  /\ list[i].mac = h[ip] /\ list[i].mac \in Macs
           /\ \A k \in Slots : k < i => list[k].ip # ip
<1>1. ASSUME NEW k \in Slots, k < i, list[k].ip = ip PROVE FALSE
  <2>1. list[i].expire_at <= list[k].expire_at
    BY <1>1, Zenon DEF Ordered, FirstLive, Live
  <2>2. list[k].expire_at \in Nat /\ list[i].expire_at \in Nat
    BY <1>1, Zenon DEF ArpItem
  <2>3. Live(list, k, ip)
    BY <1>1, <2>1, <2>2 DEF FirstLive, Live
  <2> QED BY <1>1, <2>3, Zenon DEF FirstLive
<1>2. list[i].ip = ip /\ list[i].expire_at > now /\ list[i].expire_at \in Nat
  BY Zenon DEF FirstLive, Live, ArpItem
<1> QED BY <1>1, <1>2 DEF Ordered

(* Every frame sent to a station carries the MAC h records for it.         *)
LEMMA SendToLatest ==
    ASSUME NEW list \in [Slots -> ArpItem], NEW h, Ordered(list, h), now \in Nat,
           NEW ip \in Ips
    PROVE  \A f \in SendIpv4To(list, ip) :
              f.type = "ipv4" => f.mac = h[f.ip] /\ f.mac \in Macs
<1> SUFFICES ASSUME NEW f \in SendIpv4To(list, ip), f.type = "ipv4"
             PROVE  f.mac = h[f.ip] /\ f.mac \in Macs
  BY Zenon
<1>1. PICK i \in Slots : FirstLive(list, i, ip) /\ f = Frame("ipv4", ip, list[i].mac)
  BY DEF SendIpv4To, Frame
<1>2. list[i].mac = h[ip] /\ list[i].mac \in Macs
  BY <1>1, FirstLiveIsLatest
<1> QED BY <1>1, <1>2, Zenon DEF Frame
-----------------------------------------------------------------------------
(* What arp_set does: it writes the first free slot or, when no slot is    *)
(* free, leaves the list alone, and then the address is in no slot.        *)
LEMMA ArpSetOrdered ==
    ASSUME TypeOK, NewestFirst, NEW mac \in Macs, NEW ip \in Ips \cup {NONE_IP},
           arp_set(mac, ip), Hear(ip, mac)
    PROVE  /\ arp_list' \in [Slots -> ArpItem]
           /\ heard' \in [Ips -> Macs \cup {NoMac}]
           /\ Ordered(arp_list', heard')
<1>1. heard' \in [Ips -> Macs \cup {NoMac}]
  BY Zenon DEF Hear, TypeOK
<1>2. \A x \in Ips : x # ip => heard'[x] = heard[x]
  BY Zenon DEF Hear, TypeOK
<1>3. ip \in Ips => heard'[ip] = mac
  BY Zenon DEF Hear, TypeOK
<1>4. ASSUME NEW s \in Slots, Free(s, ip),
             \A k \in Slots : k < s => ~Free(k, ip),
             arp_list' = [arp_list EXCEPT ![s] =
                [ip |-> ip, mac |-> mac, expire_at |-> now + ArpTtl]]
      PROVE  arp_list' \in [Slots -> ArpItem] /\ Ordered(arp_list', heard')
  <2>1. now \in Nat /\ arp_list \in [Slots -> ArpItem]
    BY Zenon DEF TypeOK
  <2>2. /\ arp_list' \in [Slots -> ArpItem]
        /\ arp_list'[s] = [ip |-> ip, mac |-> mac, expire_at |-> now + ArpTtl]
        /\ \A k \in Slots : k # s => arp_list'[k] = arp_list[k]
    BY <1>4, <2>1 DEF ArpItem
  <2>3. \A k \in Slots : /\ arp_list[k].expire_at \in Nat
                         /\ arp_list[k].expire_at <= now + ArpTtl
    BY <2>1, Zenon DEF ArpItem, NewestFirst, Ordered
  <2>4. \A k \in Slots : k < s =>
           arp_list[k].ip # ip /\ arp_list[k].ip # NONE_IP /\ arp_list[k].expire_at >= now
    BY <1>4, <2>1, <2>3 DEF Free
  <2>5. \A k \in Slots : arp_list'[k].expire_at <= now + ArpTtl
    BY <2>1, <2>2, <2>3
  <2>6. ASSUME NEW i \in Slots, NEW j \in Slots, i < j,
               arp_list'[i].ip = arp_list'[j].ip, arp_list'[i].ip \in Ips
        PROVE  arp_list'[j].expire_at <= arp_list'[i].expire_at
    <3>1. CASE i = s
      BY <2>1, <2>2, <2>5, <3>1
    <3>2. CASE j = s
      BY <2>2, <2>4, <2>6, <3>2 DEF Slots
    <3>3. CASE i # s /\ j # s
      BY <2>2, <2>6, <3>3, Zenon DEF NewestFirst, Ordered
    <3> QED BY <3>1, <3>2, <3>3, Zenon
  <2>7. ASSUME NEW i \in Slots, arp_list'[i].ip \in Ips, arp_list'[i].expire_at >= now,
               \A k \in Slots : k < i => arp_list'[k].ip # arp_list'[i].ip
        PROVE  arp_list'[i].mac = heard'[arp_list'[i].ip] /\ arp_list'[i].mac \in Macs
    <3>1. CASE i = s
      BY <1>3, <2>2, <2>7, <3>1
    <3>2. CASE i # s
      <4>1. arp_list'[i] = arp_list[i]
        BY <2>2, <3>2, Zenon
      <4>2. arp_list[i].ip # ip
        \* otherwise slot s, which now holds ip, is below i or i is below s
        BY <2>2, <2>4, <2>7, <3>2, <4>1 DEF Slots
      <4>3. ASSUME NEW k \in Slots, k < i, arp_list[k].ip = arp_list[i].ip PROVE FALSE
        <5>1. k = s
          BY <2>2, <2>7, <4>1, <4>3, Zenon
        <5>2. arp_list[s].ip \in Ips /\ arp_list[s].ip # ip
          BY <2>7, <4>1, <4>2, <4>3, <5>1, Zenon
        <5>3. arp_list[s].expire_at < now
          BY <1>4, <5>2, Zenon DEF Free
        <5>4. arp_list[i].expire_at <= arp_list[s].expire_at
          BY <4>3, <5>1, <5>2, Zenon DEF NewestFirst, Ordered
        <5> QED BY <2>1, <2>3, <2>7, <4>1, <5>3, <5>4
      <4>4. arp_list[i].mac = heard[arp_list[i].ip] /\ arp_list[i].mac \in Macs
        BY <2>7, <4>1, <4>3, Zenon DEF NewestFirst, Ordered
      <4> QED BY <1>2, <2>7, <4>1, <4>2, <4>4, Zenon
    <3> QED BY <3>1, <3>2, Zenon
  <2> QED BY <2>2, <2>5, <2>6, <2>7, Zenon DEF Ordered
<1>5. ASSUME \A i \in Slots : ~Free(i, ip), UNCHANGED arp_list
      PROVE  arp_list' \in [Slots -> ArpItem] /\ Ordered(arp_list', heard')
  <2>1. \A i \in Slots : arp_list[i].ip # ip
    BY <1>5, Zenon DEF Free
  <2> QED BY <1>2, <1>5, <2>1, Zenon DEF TypeOK, NewestFirst, Ordered
<1> QED BY <1>1, <1>4, <1>5, Zenon DEF arp_set
-----------------------------------------------------------------------------
Inv == TypeOK /\ NewestFirst /\ UnicastToLatestMac

(* The frames an IPv4 lookup emits are well typed.                         *)
LEMMA SendType ==
    ASSUME NEW list \in [Slots -> ArpItem], NEW ip \in Ips \cup {NONE_IP}
    PROVE  SendIpv4To(list, ip) \subseteq
             [type : {"ipv4", "arp_request"}, ip : Ips \cup {NONE_IP},
              mac : Macs \cup {NoMac}]
BY DEF SendIpv4To, Frame, ArpItem

(* An empty cache, as packet_init leaves it, satisfies the invariant.      *)
LEMMA InvInit == Init => Inv
<1> SUFFICES ASSUME Init PROVE Inv
  BY Zenon
<1>1. TypeOK
  BY Zenon DEF Init, arp_list_init, TypeOK, ArpItem
<1>2. NewestFirst
  BY DEF Init, arp_list_init, NewestFirst, Ordered
<1>3. UnicastToLatestMac
  BY Zenon DEF Init, UnicastToLatestMac
<1> QED BY <1>1, <1>2, <1>3, Zenon DEF Inv

(* Every handler and every tick of the clock preserves the invariant.      *)
LEMMA InvNext == Inv /\ [Next]_vars => Inv'
<1> SUFFICES ASSUME Inv, [Next]_vars PROVE Inv'
  BY Zenon
<1>0. /\ TypeOK /\ NewestFirst /\ UnicastToLatestMac
      /\ now \in Nat /\ arp_list \in [Slots -> ArpItem]
  BY Zenon DEF Inv, TypeOK
<1>1. ASSUME NEW op \in {"request", "reply"}, NEW smac \in Macs,
             NEW sip \in Ips \cup {NONE_IP}, NEW tip \in Ips \cup {ServerIp, OutsideIp},
             process_arp(op, smac, sip, tip)
      PROVE  Inv'
  <2>1. /\ arp_list' \in [Slots -> ArpItem]
        /\ heard' \in [Ips -> Macs \cup {NoMac}]
        /\ Ordered(arp_list', heard')
    BY <1>0, <1>1, ArpSetOrdered, Zenon DEF process_arp
  <2>2. out' \subseteq {Frame("arp_reply", tip, smac)}
    BY <1>1, Zenon DEF process_arp
  <2>3. TypeOK'
    BY <1>0, <1>1, <2>1, <2>2 DEF process_arp, TypeOK, Frame
  <2>4. NewestFirst'
    BY <1>1, <2>1, Zenon DEF process_arp, NewestFirst, Ordered
  <2>5. UnicastToLatestMac'
    BY <2>2 DEF UnicastToLatestMac, Frame
  <2> QED BY <2>3, <2>4, <2>5, Zenon DEF Inv
<1>2. ASSUME NEW smac \in Macs, NEW sip \in Ips,
             NEW dip \in Ips \cup {ServerIp, BcastIp, OutsideIp},
             NEW icmp \in BOOLEAN, NEW toOurMac \in BOOLEAN,
             process_ipv4(smac, sip, dip, icmp, toOurMac)
      PROVE  Inv'
  <2>1. /\ arp_list' \in [Slots -> ArpItem]
        /\ heard' \in [Ips -> Macs \cup {NoMac}]
        /\ Ordered(arp_list', heard')
    BY <1>0, <1>2, ArpSetOrdered, Zenon DEF process_ipv4
  <2>2. \/ \E ip \in Ips : out' = SendIpv4To(arp_list', ip)
        \/ out' \subseteq {Frame(t, dip, m) : t \in {"relay", "reflect", "gateway"},
                                           m \in Macs \cup {NoMac}}
    <3>1. CASE dip = ServerIp
      BY <1>2, <3>1 DEF process_ipv4
    <3>2. CASE dip = BcastIp /\ dip # ServerIp
      <4>1. out' = {Frame("relay", dip, NoMac), Frame("reflect", dip, smac)}
        BY <1>2, <3>2, Zenon DEF process_ipv4
      <4> QED BY <4>1
    <3>3. CASE dip \in Ips
      BY <1>2, <3>3 DEF process_ipv4
    <3>4. CASE dip = OutsideIp /\ dip # ServerIp /\ dip # BcastIp
      BY <1>2, <3>4 DEF process_ipv4
    <3> QED BY <3>1, <3>2, <3>3, <3>4
  <2>3. TypeOK'
    BY <1>0, <1>2, <2>1, <2>2, SendType DEF process_ipv4, TypeOK, Frame
  <2>4. NewestFirst'
    BY <1>2, <2>1, Zenon DEF process_ipv4, NewestFirst, Ordered
  <2>5. UnicastToLatestMac'
    BY <1>0, <2>1, <2>2, SendToLatest DEF UnicastToLatestMac, Frame
  <2> QED BY <2>3, <2>4, <2>5, Zenon DEF Inv
<1>3. ASSUME NEW dip \in Ips \cup {BcastIp}, lan_client_process(dip)
      PROVE  Inv'
  <2>1. CASE dip = BcastIp /\ lan_client_on_broadcast
    <3>1. out' \subseteq {Frame(t, ip, m) : t \in {"broadcast", "fanout"},
             ip \in Ips \cup {BcastIp, NONE_IP}, m \in Macs \cup {NoMac}}
      BY <1>0, <2>1 DEF lan_client_on_broadcast, ArpItem
    <3>2. TypeOK'
      <4>1. \A f \in out' : f \in [type : {"broadcast", "fanout"},
               ip : Ips \cup {BcastIp, NONE_IP}, mac : Macs \cup {NoMac}]
        BY <3>1 DEF Frame
      <4> QED BY <1>0, <2>1, <4>1, Zenon DEF lan_client_on_broadcast, TypeOK
    <3>3. NewestFirst'
      BY <1>0, <2>1, Zenon DEF lan_client_on_broadcast, NewestFirst, Ordered
    <3>4. UnicastToLatestMac'
      BY <3>1 DEF UnicastToLatestMac, Frame
    <3> QED BY <3>2, <3>3, <3>4, Zenon DEF Inv
  <2>2. CASE /\ dip \in Ips /\ out' = SendIpv4To(arp_list, dip)
             /\ UNCHANGED <<arp_list, now, next_real_broadcast, heard>>
    <3>1. TypeOK'
      BY <1>0, <2>2, SendType DEF TypeOK
    <3>2. NewestFirst'
      BY <1>0, <2>2, Zenon DEF NewestFirst, Ordered
    <3>3. UnicastToLatestMac'
      BY <1>0, <2>2, SendToLatest DEF UnicastToLatestMac, NewestFirst
    <3> QED BY <3>1, <3>2, <3>3, Zenon DEF Inv
  <2> QED BY <1>3, <2>1, <2>2, Zenon DEF lan_client_process
<1>4. ASSUME NEW dip \in Ips, lan_play_gateway_send_packet(dip)
      PROVE  Inv'
  <2>1. TypeOK'
    BY <1>0, <1>4, SendType DEF lan_play_gateway_send_packet, TypeOK
  <2>2. NewestFirst'
    BY <1>0, <1>4, Zenon DEF lan_play_gateway_send_packet, NewestFirst, Ordered
  <2>3. UnicastToLatestMac'
    BY <1>0, <1>4, SendToLatest DEF lan_play_gateway_send_packet, UnicastToLatestMac, NewestFirst
  <2> QED BY <2>1, <2>2, <2>3, Zenon DEF Inv
<1>5. CASE lan_client_real_broadcast_timer
  BY <1>0, <1>5, Zenon DEF lan_client_real_broadcast_timer, Inv, TypeOK, NewestFirst, Ordered,
                    UnicastToLatestMac
<1>6. CASE Tick
  <2>1. TypeOK'
    BY <1>0, <1>6 DEF Tick, TypeOK
  <2>2. \A i \in Slots : arp_list[i].expire_at \in Nat
    BY <1>0, Zenon DEF ArpItem
  <2>3. NewestFirst'
    BY <1>0, <1>6, <2>2 DEF Tick, NewestFirst, Ordered
  <2>4. UnicastToLatestMac'
    BY <1>6, Zenon DEF Tick, UnicastToLatestMac
  <2> QED BY <2>1, <2>3, <2>4, Zenon DEF Inv
<1>7. CASE UNCHANGED vars
  BY <1>0, <1>7, Zenon DEF vars, Inv, TypeOK, NewestFirst, Ordered, UnicastToLatestMac
<1>8. CASE \E op \in {"request", "reply"}, smac \in Macs, sip \in Ips \cup {NONE_IP},
          tip \in Ips \cup {ServerIp, OutsideIp} : process_arp(op, smac, sip, tip)
  BY <1>1, <1>8, Zenon
<1>9. CASE \E smac \in Macs, sip \in Ips,
          dip \in Ips \cup {ServerIp, BcastIp, OutsideIp}, icmp, toOurMac \in BOOLEAN :
          process_ipv4(smac, sip, dip, icmp, toOurMac)
  <2>1. PICK smac \in Macs, sip \in Ips, dip \in Ips \cup {ServerIp, BcastIp, OutsideIp},
             icmp \in BOOLEAN, toOurMac \in BOOLEAN :
             process_ipv4(smac, sip, dip, icmp, toOurMac)
    BY <1>9, Zenon
  <2> QED BY ONLY <1>2, <2>1, Zenon
<1> QED BY <1>3, <1>4, <1>5, <1>6, <1>7, <1>8, <1>9, Zenon DEF Next

(* The client's state stays in its type, the newest entry of every address *)
(* comes first in arp_list, and every unicast frame carries the MAC its    *)
(* station last used: for any cache length, stations, MACs and arp_ttl.    *)
THEOREM CacheInvariant == Spec => [](TypeOK /\ NewestFirst /\ UnicastToLatestMac)
<1>1. Inv => TypeOK /\ NewestFirst /\ UnicastToLatestMac
  BY Zenon DEF Inv
<1> QED BY <1>1, InvInit, InvNext, PTL DEF Spec
-----------------------------------------------------------------------------
(* The refinement.  BoundChar says what Bound is without CHOOSE.           *)
BoundChar ==
    /\ Bound = [x \in Ips |-> Bound[x]]
    /\ \A x \in Ips :
          /\ ~arp_has_ip(arp_list, x) => Bound[x] = [mac |-> NoMac, until |-> 0]
          /\ \A i \in Slots : FirstLive(arp_list, i, x) =>
                Bound[x] = [mac |-> arp_list[i].mac, until |-> arp_list[i].expire_at]

(* What an address is bound to: the first live entry of arp_list for it.   *)
LEMMA BoundIs == BoundChar
<1>1. Bound = [x \in Ips |-> Bound[x]]
  BY Zenon DEF Bound
<1>2. ASSUME NEW x \in Ips, ~arp_has_ip(arp_list, x)
      PROVE  Bound[x] = [mac |-> NoMac, until |-> 0]
  BY <1>2, Zenon DEF Bound
<1>3. ASSUME NEW x \in Ips, NEW i \in Slots, FirstLive(arp_list, i, x)
      PROVE  Bound[x] = [mac |-> arp_list[i].mac, until |-> arp_list[i].expire_at]
  <2>1. \A j \in Slots : FirstLive(arp_list, j, x) => j = i
    BY <1>3 DEF FirstLive, Slots
  <2>2. (CHOOSE j \in Slots : FirstLive(arp_list, j, x)) = i
    BY <1>3, <2>1, Zenon
  <2>3. arp_has_ip(arp_list, x)
    BY <1>3, Zenon DEF FirstLive, arp_has_ip
  <2> QED BY <2>2, <2>3, Zenon DEF Bound
<1> QED BY <1>1, <1>2, <1>3, Zenon DEF BoundChar

(* An empty cache is an empty table.                                       *)
LEMMA RefineInit == Init => Neighbours!Init
<1> SUFFICES ASSUME Init PROVE Neighbours!Init
  BY Zenon
<1>1. \A x \in Ips : ~arp_has_ip(arp_list, x)
  BY Zenon DEF Init, arp_list_init, arp_has_ip, Live
<1>2. Bound = [x \in Ips |-> [mac |-> NoMac, until |-> 0]]
  BY <1>1, BoundIs, Zenon DEF BoundChar
<1> QED BY <1>2, Zenon DEF Init, Neighbours!Init, Neighbours!Unbound

(* A call of arp_set rebinds its own address or, if that is unbound, may   *)
(* do nothing; it never changes what another address resolves to.          *)
LEMMA RefineArpSet ==
    ASSUME Inv, BoundChar', NEW mac \in Macs, NEW ip \in Ips \cup {NONE_IP},
           arp_set(mac, ip), Hear(ip, mac), now' = now
    PROVE  [Neighbours!Next]_(Neighbours!vars)
<1>1. now \in Nat /\ arp_list \in [Slots -> ArpItem] /\ heard \in [Ips -> Macs \cup {NoMac}]
  BY Zenon DEF Inv, TypeOK
<1>2. BoundChar
  BY BoundIs, Zenon
<1>3. ASSUME NEW s \in Slots, Free(s, ip),
             \A k \in Slots : k < s => ~Free(k, ip),
             arp_list' = [arp_list EXCEPT ![s] =
                [ip |-> ip, mac |-> mac, expire_at |-> now + ArpTtl]]
      PROVE  [Neighbours!Next]_(Neighbours!vars)
  <2>1. /\ arp_list'[s] = [ip |-> ip, mac |-> mac, expire_at |-> now + ArpTtl]
        /\ \A k \in Slots : k # s => arp_list'[k] = arp_list[k]
    BY <1>1, <1>3, Zenon
  <2>2. ASSUME NEW x \in Ips, x # ip PROVE Bound'[x] = Bound[x]
    <3>1. ~Live(arp_list, s, x) /\ ~Live(arp_list', s, x)
      <4>1. arp_list[s].expire_at \in Nat
        BY <1>1, Zenon DEF ArpItem
      <4>2. ~Live(arp_list, s, x)
        BY <1>1, <1>3, <2>2, <4>1 DEF Free, Live
      <4>3. ~Live(arp_list', s, x)
        BY <2>1, <2>2 DEF Live
      <4> QED BY <4>2, <4>3, Zenon
    <3>2. \A i \in Slots : Live(arp_list', i, x) <=> Live(arp_list, i, x)
      BY <2>1, <3>1, Zenon DEF Live
    <3>3. CASE arp_has_ip(arp_list, x)
      <4>1. PICK i \in Slots : FirstLive(arp_list, i, x)
        BY <3>3, FirstLiveExists, Zenon
      <4>2. i # s /\ arp_list'[i] = arp_list[i]
        BY <2>1, <3>1, <4>1, Zenon DEF FirstLive
      <4>3. FirstLive(arp_list, i, x)'
        BY <3>2, <4>1, Zenon DEF FirstLive, Live
      <4>4. Bound[x] = [mac |-> arp_list[i].mac, until |-> arp_list[i].expire_at]
        BY <1>2, <4>1, Zenon DEF BoundChar
      <4>5. Bound'[x] = [mac |-> arp_list'[i].mac, until |-> arp_list'[i].expire_at]
        BY <4>3, Zenon DEF BoundChar
      <4> QED BY <4>2, <4>4, <4>5, Zenon
    <3>4. CASE ~arp_has_ip(arp_list, x)
      <4>1. ~arp_has_ip(arp_list, x)'
        BY <3>2, <3>4, Zenon DEF arp_has_ip, Live
      <4> QED BY <1>2, <3>4, <4>1, Zenon DEF BoundChar
    <3> QED BY <3>3, <3>4, Zenon
  <2>3. CASE ip = NONE_IP
    <3>1. Bound' = Bound
      BY <1>2, <2>2, <2>3, Zenon DEF BoundChar
    <3>2. heard' = heard
      BY <2>3, Zenon DEF Hear
    <3> QED BY <3>1, <3>2, Zenon DEF Neighbours!vars
  <2>4. CASE ip \in Ips
    <3>1. FirstLive(arp_list, s, ip)'
      <4>1. Live(arp_list, s, ip)'
        BY <1>1, <2>1 DEF Live
      <4>2. \A k \in Slots : k < s => arp_list'[k].ip # ip
        BY <1>3, <2>1, Zenon DEF Free, Slots
      <4> QED BY <4>1, <4>2, Zenon DEF FirstLive, Live
    <3>2. Bound'[ip] = [mac |-> mac, until |-> now + ArpTtl]
      BY <2>1, <2>4, <3>1 DEF BoundChar
    <3>3. Bound' = [Bound EXCEPT ![ip] = [mac |-> mac, until |-> now + ArpTtl]]
      BY <1>2, <2>2, <2>4, <3>2, Zenon DEF BoundChar
    <3>4. Neighbours!Hear(ip, mac)
      BY <2>4, <3>3, Zenon DEF Neighbours!Hear, Hear
    <3> QED BY <2>4, <3>4, Zenon DEF Neighbours!Next
  <2> QED BY <2>3, <2>4, Zenon
<1>4. ASSUME \A i \in Slots : ~Free(i, ip), UNCHANGED arp_list
      PROVE  [Neighbours!Next]_(Neighbours!vars)
  <2>1. Bound' = Bound
    BY <1>4, Zenon DEF Bound, arp_has_ip, FirstLive, Live
  <2>2. CASE ip = NONE_IP
    <3>1. heard' = heard
      BY <2>2, Zenon DEF Hear
    <3> QED BY <2>1, <3>1, Zenon DEF Neighbours!vars
  <2>3. CASE ip \in Ips
    <3>1. ~arp_has_ip(arp_list, ip)
      BY <1>4, Zenon DEF arp_has_ip, Live, Free
    <3>2. Bound[ip] = Neighbours!Unbound
      BY <1>2, <2>3, <3>1, Zenon DEF BoundChar, Neighbours!Unbound
    <3>3. Neighbours!Hear(ip, mac)
      BY <2>1, <2>3, <3>2, Zenon DEF Neighbours!Hear, Hear
    <3> QED BY <2>3, <3>3, Zenon DEF Neighbours!Next
  <2> QED BY <2>2, <2>3, Zenon
<1> QED BY <1>3, <1>4, Zenon DEF arp_set

(* When the clock advances exactly the bindings that reach their time end. *)
LEMMA RefineTick ==
    ASSUME Inv, BoundChar', Tick
    PROVE  Neighbours!Tick
<1>1. now \in Nat /\ arp_list \in [Slots -> ArpItem]
  BY Zenon DEF Inv, TypeOK
<1>2. BoundChar
  BY BoundIs, Zenon
<1>3. now' = now + 1 /\ arp_list' = arp_list /\ heard' = heard
  BY Zenon DEF Tick
<1>4. ASSUME NEW x \in Ips
      PROVE  Bound'[x] = IF Bound[x].until > now' THEN Bound[x] ELSE Neighbours!Unbound
  <2>1. \A i \in Slots : /\ arp_list[i].expire_at \in Nat
                         /\ Live(arp_list, i, x)' => Live(arp_list, i, x)
                         /\ Live(arp_list, i, x)' <=> /\ arp_list[i].ip = x
                                                     /\ arp_list[i].expire_at > now + 1
    BY <1>1, <1>3 DEF Live, ArpItem
  <2>2. CASE ~arp_has_ip(arp_list, x)
    <3>1. ~arp_has_ip(arp_list, x)'
      BY <2>1, <2>2, Zenon DEF arp_has_ip
    <3> QED BY <1>1, <1>2, <1>3, <2>2, <3>1, Zenon DEF BoundChar, Neighbours!Unbound
  <2>3. CASE arp_has_ip(arp_list, x)
    <3>1. PICK i \in Slots : FirstLive(arp_list, i, x)
      BY <2>3, FirstLiveExists, Zenon
    <3>2. Bound[x] = [mac |-> arp_list[i].mac, until |-> arp_list[i].expire_at]
      BY <1>2, <3>1, Zenon DEF BoundChar
    <3>3. arp_list[i].ip = x
      BY <3>1, Zenon DEF FirstLive, Live
    <3>4. CASE arp_list[i].expire_at > now + 1
      <4>1. FirstLive(arp_list, i, x)'
        BY <2>1, <3>1, <3>3, <3>4, Zenon DEF FirstLive
      <4>2. Bound'[x] = [mac |-> arp_list'[i].mac, until |-> arp_list'[i].expire_at]
        BY <4>1, Zenon DEF BoundChar
      <4> QED BY <1>3, <3>2, <3>4, <4>2
    <3>5. CASE ~(arp_list[i].expire_at > now + 1)
      <4>1. ASSUME NEW j \in Slots, Live(arp_list, j, x)' PROVE FALSE
        <5>1. /\ Live(arp_list, j, x) /\ arp_list[j].ip = x
              /\ arp_list[j].expire_at > now + 1
          BY <2>1, <4>1, Zenon
        <5>2. arp_list[i].expire_at \in Nat /\ arp_list[j].expire_at \in Nat
          BY <2>1, <3>1, <4>1, Zenon
        <5>3. ~(j < i) /\ i # j
          BY <3>1, <3>5, <5>1, Zenon DEF FirstLive
        <5>4. i < j
          BY ONLY <5>3, i \in Slots, j \in Slots DEF Slots
        <5>5. arp_list[j].expire_at <= arp_list[i].expire_at
          BY <3>3, <5>1, <5>4, Zenon DEF Inv, NewestFirst, Ordered
        <5> QED BY ONLY <1>1, <3>5, <5>1, <5>2, <5>5
      <4>2. ~arp_has_ip(arp_list, x)'
        BY <4>1, Zenon DEF arp_has_ip
      <4>3. Bound'[x] = [mac |-> NoMac, until |-> 0]
        BY <4>2, Zenon DEF BoundChar
      <4>4. ~(Bound[x].until > now')
        BY ONLY <1>3, <3>2, <3>5
      <4> QED BY <4>3, <4>4, Zenon DEF Neighbours!Unbound
    <3> QED BY <3>4, <3>5, Zenon
  <2> QED BY <2>2, <2>3, Zenon
<1> QED BY <1>3, <1>4, Zenon DEF BoundChar, Neighbours!Tick

(* Every step of the client is a step of the table or leaves it alone.     *)
LEMMA RefineNext == Inv /\ BoundChar' /\ [Next]_vars => [Neighbours!Next]_(Neighbours!vars)
<1> SUFFICES ASSUME Inv, BoundChar', [Next]_vars
             PROVE  [Neighbours!Next]_(Neighbours!vars)
  BY Zenon
<1>1. CASE \E op \in {"request", "reply"}, smac \in Macs, sip \in Ips \cup {NONE_IP},
          tip \in Ips \cup {ServerIp, OutsideIp} : process_arp(op, smac, sip, tip)
  <2>1. PICK smac \in Macs, sip \in Ips \cup {NONE_IP} :
             arp_set(smac, sip) /\ Hear(sip, smac) /\ now' = now
    BY <1>1, Zenon DEF process_arp
  <2> QED BY <2>1, RefineArpSet, Zenon
<1>2. CASE \E smac \in Macs, sip \in Ips,
          dip \in Ips \cup {ServerIp, BcastIp, OutsideIp}, icmp, toOurMac \in BOOLEAN :
          process_ipv4(smac, sip, dip, icmp, toOurMac)
  <2>1. PICK smac \in Macs, sip \in Ips :
             arp_set(smac, sip) /\ Hear(sip, smac) /\ now' = now
    BY <1>2 DEF process_ipv4
  <2> QED BY <2>1, RefineArpSet, Zenon
<1>3. CASE Tick
  BY <1>3, RefineTick, Zenon DEF Neighbours!Next
<1>4. CASE UNCHANGED <<arp_list, now, heard>>
  BY <1>4 DEF Neighbours!vars, Bound, arp_has_ip, FirstLive, Live
<1> QED BY <1>1, <1>2, <1>3, <1>4, Zenon
           DEF Next, vars, lan_client_process, lan_client_on_broadcast,
          lan_play_gateway_send_packet, lan_client_real_broadcast_timer

(* The finite array of arp.c, with its duplicates and its lazy reuse of    *)
(* expired slots, implements one binding per address that lasts arp_ttl    *)
(* seconds and always names the MAC last heard.                            *)
THEOREM CacheRefinesTable == Spec => ImplementsNeighbourTable
<1> QED BY InvInit, InvNext, BoundIs, RefineInit, RefineNext, PTL
        DEF Spec, ImplementsNeighbourTable, Neighbours!Spec

HIDE PacketCtxAssumption

-----------------------------------------------------------------------------
(* The lobby cache.                                                        *)

(* A nonempty set of slots has a first one, which Least finds.             *)
LEMMA FirstSlot ==
  ASSUME NEW S \in SUBSET Nat, S # {}
  PROVE  Least(S) \in S
BY LeastNat, Zenon DEF Least

(* The cap on a counter.                                                   *)
LEMMA MinOfTwo ==
  ASSUME NEW a \in Int, NEW b \in Int
  PROVE  Least({a, b}) = IF a <= b THEN a ELSE b
<1>1. \E x \in {a, b} : \A y \in {a, b} : x <= y
  OBVIOUS
<1>2. /\ Least({a, b}) \in {a, b}
      /\ \A y \in {a, b} : Least({a, b}) <= y
  BY <1>1, Zenon DEF Least
<1>3. QED
  BY <1>2
-----------------------------------------------------------------------------
(* The lobbies of the slots are lobbies or None, and none has two slots.   *)
SlotInv == lobby \in [LobbySlots -> Lobbies \cup {None}] /\ OneSlotPerLobby

(* lobby_cache_store_if_scanresp takes the slot the lobby has already.     *)
LEMMA StoreKeepsSlots ==
  ASSUME SlotInv, NEW l \in Lobbies, Store(l)
  PROVE  SlotInv'
<1> DEFINE same == {i \in LobbySlots : lobby[i] = l}
<1>1. lobby' = [lobby EXCEPT ![StoreSlot(l)] = l]
  BY Zenon DEF Store
<1>2. lobby' \in [LobbySlots -> Lobbies \cup {None}]
  BY <1>1, Zenon DEF SlotInv
<1>3. CASE same # {}
  <2>1. same \in SUBSET Nat
    BY LobbyCacheAssumption DEF LobbySlots
  <2>2. StoreSlot(l) \in same
    BY <1>3, <2>1, FirstSlot, Zenon DEF StoreSlot
  <2>3. lobby' = lobby
    BY <1>1, <2>2, Zenon DEF SlotInv
  <2>4. QED
    BY <2>3, Zenon DEF SlotInv, OneSlotPerLobby
<1>4. CASE same = {}
  <2>1. \A i \in LobbySlots : lobby[i] # l
    BY <1>4, Zenon
  <2>2. \A i \in LobbySlots : lobby'[i] = lobby[i] \/ (lobby'[i] = l /\ i = StoreSlot(l))
    BY <1>1, Zenon DEF SlotInv
  <2>3. QED
    BY <1>2, <2>1, <2>2, Zenon DEF SlotInv, OneSlotPerLobby
<1>5. QED
  BY <1>3, <1>4, Zenon

(* Every step keeps SlotInv.                                               *)
LEMMA StepKeepsSlots == SlotInv /\ [LobbyNext]_lobbyVars => SlotInv'
<1> SUFFICES ASSUME SlotInv, [LobbyNext]_lobbyVars PROVE SlotInv'
  BY Zenon
<1>1. ASSUME NEW l \in Lobbies, ldn_bridge_inject(l) PROVE SlotInv'
  BY <1>1, StoreKeepsSlots, Zenon DEF ldn_bridge_inject
<1>2. CASE Reinject
  <2>1. \A i \in LobbySlots : lobby'[i] \in {None, lobby[i]}
    BY <1>2, Zenon DEF Reinject
  <2>2. lobby' \in [LobbySlots -> Lobbies \cup {None}]
    BY <1>2, Zenon DEF Reinject, SlotInv
  <2>3. QED
    BY <2>1, <2>2, Zenon DEF SlotInv, OneSlotPerLobby
<1>3. CASE lobby' = lobby
  BY <1>3, Zenon DEF SlotInv, OneSlotPerLobby
<1>4. QED
  BY <1>1, <1>2, <1>3, Zenon
     DEF LobbyNext, PollTimeout, CaptureOther, CaptureJunk, ScanBegins, Capture, ScanEnds,
         LobbyTick, lobbyVars, cacheVars

(* For every number of slots: no lobby gets two of them.                   *)
THEOREM NoLobbyTwice == LobbySpec => []OneSlotPerLobby
<1>1. LobbyInit => SlotInv
  BY Zenon DEF LobbyInit, SlotInv, OneSlotPerLobby
<1>2. SlotInv => OneSlotPerLobby
  BY Zenon DEF SlotInv
<1>3. QED
  BY <1>1, <1>2, StepKeepsSlots, PTL DEF LobbySpec
-----------------------------------------------------------------------------
(* The counters of the two threads are numbers in their ranges.            *)
ScanType ==
    /\ since \in Int /\ since >= -1 /\ left \in Nat /\ next \in Nat /\ idle \in Nat
    /\ junk \in 0 .. MaxJunk /\ scan \in -1 .. Window /\ pc \in {"poll", "inject"}

(* How far the injection may be behind, with the packets discarded so far. *)
Behind == Interval - 1 + ShortPoll + junk * BusyPoll

(* While the scan is owed a lobby, the last injection was before it began, *)
(* the capture thread was busy since, and its poll ends in time.           *)
ScanInv ==
    /\ ScanType
    /\ owed # {} => scan > 0
    /\ owed # {} /\ pc = "poll" =>
          /\ Window - scan <= since /\ idle <= Window - scan
          /\ since + left <= Behind

(* Discarded packets put the injection off by a short poll each.           *)
LEMMA JunkBound ==
  ASSUME NEW n \in 0 .. MaxJunk
  PROVE  /\ n * BusyPoll \in Nat /\ n * BusyPoll <= MaxJunk * BusyPoll
         /\ (n + 1) * BusyPoll = n * BusyPoll + BusyPoll
         /\ MaxJunk * BusyPoll \in Nat
<1>1. BusyPoll \in Nat /\ MaxJunk \in Nat /\ n \in Nat /\ MaxJunk - n \in Nat
  BY LobbyCacheAssumption
<1>2. \A a, b, c \in Nat : a * c \in Nat /\ (a + b) * c = a * c + b * c
  OBVIOUS
<1>3. MaxJunk = n + (MaxJunk - n)
  BY <1>1
<1>4. MaxJunk * BusyPoll = n * BusyPoll + (MaxJunk - n) * BusyPoll
  BY <1>1, <1>2, <1>3
<1>5. (MaxJunk - n) * BusyPoll \in Nat /\ n * BusyPoll \in Nat /\ MaxJunk * BusyPoll \in Nat
  BY <1>1, <1>2, Zenon
<1>6. (n + 1) * BusyPoll = n * BusyPoll + 1 * BusyPoll
  BY <1>1, <1>2
<1>7. QED
  BY <1>1, <1>4, <1>5, <1>6

(* lobby_cache_reinject_if_due after a packet or a short poll.             *)
LEMMA ReinjectInTime ==
  ASSUME ScanType, pc = "poll", NEW t \in Nat, t <= ShortPoll, ReinjectIfDue(t)
  PROVE  /\ pc' \in {"poll", "inject"} /\ left' \in Nat /\ next' \in Nat
         /\ since' \in Int /\ since' >= -1
         /\ pc' = "poll" => /\ since' = since /\ since \in 0 .. Interval - 1
                            /\ since' + left' <= Behind
<1>1. junk * BusyPoll \in Nat
  BY JunkBound, Zenon DEF ScanType
<1>2. QED
  BY <1>1, LobbyCacheAssumption DEF ScanType, ReinjectIfDue, Due, Behind

(* ReinjectIfDue keeps the counters in their ranges whatever the poll is.  *)
LEMMA ReinjectTyped ==
  ASSUME ScanType, pc = "poll", NEW t \in Nat, ReinjectIfDue(t)
  PROVE  pc' \in {"poll", "inject"} /\ left' \in Nat /\ next' \in Nat
         /\ since' \in Int /\ since' >= -1
BY DEF ScanType, ReinjectIfDue

(* Every step keeps ScanInv.                                               *)
LEMMA StepKeepsScan == ScanInv /\ [LobbyNext]_lobbyVars => ScanInv'
<1> SUFFICES ASSUME ScanInv, [LobbyNext]_lobbyVars PROVE ScanInv'
  BY Zenon
<1> USE LobbyCacheAssumption, LobbyCacheTiming
<1>0. /\ junk * BusyPoll \in Nat /\ junk * BusyPoll <= MaxJunk * BusyPoll
      /\ (junk + 1) * BusyPoll = junk * BusyPoll + BusyPoll
      /\ MaxJunk * BusyPoll \in Nat
  BY JunkBound, Zenon DEF ScanInv, ScanType
<1>1. ASSUME NEW l \in Lobbies, ldn_bridge_inject(l) PROVE ScanInv'
  <2>1. owed' \subseteq owed /\ UNCHANGED <<since, pc, left, idle, next, junk, scan>>
    BY <1>1, Zenon DEF ldn_bridge_inject
  <2>2. QED
    BY <2>1, Zenon DEF ScanInv, ScanType, Behind
<1>2. CASE Reinject
  <2>1. /\ owed' = {} /\ pc' = "poll" /\ left' = next /\ next' = ShortPoll
        /\ UNCHANGED <<since, idle, junk, scan>>
    BY <1>2, Zenon DEF Reinject
  <2>2. QED
    BY <2>1, Zenon DEF ScanInv, ScanType
<1>3. CASE PollTimeout
  <2> DEFINE t == IF idle > IdleLimit THEN LongPoll ELSE ShortPoll
  <2>1. pc = "poll" /\ ReinjectIfDue(t) /\ UNCHANGED <<idle, junk, scan, owed>>
    BY <1>3, Zenon DEF PollTimeout, scanVars
  <2>2. t \in Nat
    BY Zenon
  <2>3. ScanType'
    <3> HIDE DEF t
    <3>1. /\ pc' \in {"poll", "inject"} /\ left' \in Nat /\ next' \in Nat
          /\ since' \in Int /\ since' >= -1
      BY <2>1, <2>2, ReinjectTyped, Zenon DEF ScanInv
    <3>2. QED
      BY <2>1, <3>1, Zenon DEF ScanInv, ScanType
  <2>4. CASE owed # {} /\ pc' = "poll"
    <3>1. since < Interval /\ since' = since
      BY <2>1, <2>4 DEF ReinjectIfDue, Due, ScanInv, ScanType
    <3>2. t = ShortPoll
      BY <2>1, <2>4, <3>1 DEF ScanInv, ScanType
    <3>3. since' + left' <= Behind
      BY <2>1, <2>4, <3>1, <3>2, <1>0 DEF ReinjectIfDue, ScanInv, ScanType, Behind
    <3>4. Behind' = Behind
      BY <2>1, Zenon DEF Behind
    <3>5. QED
      BY <2>1, <2>3, <2>4, <3>1, <3>3, <3>4, Zenon DEF ScanInv
  <2>5. QED
    BY <2>1, <2>3, <2>4, Zenon DEF ScanInv
<1>4. CASE CaptureOther
  <2>1. /\ pc = "poll" /\ ReinjectIfDue(BusyPoll) /\ idle' = 0
        /\ UNCHANGED <<junk, scan, owed>>
    BY <1>4, Zenon DEF CaptureOther, Capture, scanVars
  <2>2. /\ pc' \in {"poll", "inject"} /\ left' \in Nat /\ next' \in Nat
        /\ since' \in Int /\ since' >= -1
        /\ pc' = "poll" => since' = since /\ since' + left' <= Behind
    BY <2>1, ReinjectInTime, Zenon DEF ScanInv
  <2>3. QED
    BY <2>1, <2>2 DEF ScanInv, ScanType, Behind
<1>5. CASE CaptureJunk
  <2>1. /\ junk < MaxJunk /\ junk' = junk + 1 /\ idle' = 0 /\ left' = BusyPoll
        /\ UNCHANGED <<since, pc, next, scan, owed>>
    BY <1>5, Zenon DEF CaptureJunk, scanVars
  <2>2. Behind' = Behind + BusyPoll /\ Behind \in Int
    BY <1>0, <2>1 DEF Behind
  <2>3. QED
    BY <2>1, <2>2 DEF ScanInv, ScanType
<1>6. CASE ScanBegins
  <2>1. /\ pc = "poll" /\ ReinjectIfDue(BusyPoll) /\ idle' = 0 /\ scan' = Window
        /\ UNCHANGED junk
    BY <1>6, Zenon DEF ScanBegins, Capture
  <2>2. /\ pc' \in {"poll", "inject"} /\ left' \in Nat /\ next' \in Nat
        /\ since' \in Int /\ since' >= -1
        /\ pc' = "poll" => since' = since /\ since >= 0 /\ since' + left' <= Behind
    BY <2>1, ReinjectInTime DEF ScanInv
  <2>3. QED
    BY <2>1, <2>2 DEF ScanInv, ScanType, Behind
<1>7. CASE ScanEnds
  BY <1>7 DEF ScanEnds, ScanInv, ScanType
<1>8. CASE LobbyTick
  <2>1. /\ pc = "poll" /\ left > 0 /\ scan # 0 /\ left' = left - 1
        /\ idle' = Least({idle + 1, IdleLimit + 1})
        /\ since' = (IF since = -1 THEN -1 ELSE Least({since + 1, MaxAge}))
        /\ scan' = (IF scan = -1 THEN -1 ELSE scan - 1)
        /\ UNCHANGED <<pc, next, junk, owed>>
    BY <1>8, Zenon DEF LobbyTick
  <2>2. idle' \in Nat /\ idle' <= idle + 1
    BY <2>1, MinOfTwo DEF ScanInv, ScanType
  <2>3. MaxAge \in Nat
    BY <1>0 DEF MaxAge
  <2>4. since' \in Int /\ since' >= -1 /\ (since \in 0 .. MaxAge - 1 => since' = since + 1)
    BY <2>1, <2>3, MinOfTwo DEF ScanInv, ScanType
  <2>5. CASE owed # {}
    <3>1. since \in 0 .. MaxAge - 1 /\ Behind \in Int
      BY <1>0, <2>1, <2>5 DEF ScanInv, ScanType, Behind, MaxAge
    <3>2. since' + left' <= Behind /\ Window - scan' <= since' /\ scan' = scan - 1
      BY <2>1, <2>4, <2>5, <3>1 DEF ScanInv, ScanType
    <3>3. Behind < Window /\ Behind' = Behind
      BY <1>0, <2>1 DEF Behind
    <3>4. QED
      BY <1>0, <2>1, <2>2, <2>4, <2>5, <3>2, <3>3 DEF ScanInv, ScanType, Behind
  <2>6. QED
    BY <2>1, <2>2, <2>4, <2>5 DEF ScanInv, ScanType
<1>9. CASE UNCHANGED lobbyVars
  BY <1>9, Zenon DEF lobbyVars, scanVars, ScanInv, ScanType, Behind
<1>10. QED
  BY <1>1, <1>2, <1>3, <1>4, <1>5, <1>6, <1>7, <1>8, <1>9, Zenon DEF LobbyNext

(* For all intervals that LobbyCacheTiming allows: no scan of the game     *)
(* ends with a cached lobby unseen, whatever the phase of the poll.        *)
THEOREM EveryScanSees == LobbySpec => []ScanSeesLobbies
<1>1. LobbyInit => ScanInv
  BY LobbyCacheAssumption DEF LobbyInit, ScanInv, ScanType
<1>2. ScanInv => ScanSeesLobbies
  BY DEF ScanInv, ScanSeesLobbies
<1>3. QED
  BY <1>1, <1>2, StepKeepsScan, PTL DEF LobbySpec
-----------------------------------------------------------------------------
(* How long the capture thread may take from one injection to the next.    *)
Overdue == Interval - 1 + LongPoll + junk * BusyPoll

(* After an injection no slot is older than Expiry; from then on ages grow *)
(* with `since', which the polls bound.  Before the first injection the    *)
(* first poll bounds them.                                                 *)
AgeInv ==
    /\ age \in [LobbySlots -> Nat] /\ next <= LongPoll
    /\ pc = "inject" => since = 0 /\ \A i \in LobbySlots : age[i] <= MaxAge
    /\ pc = "poll" /\ since = -1 => \A i \in LobbySlots : age[i] + left <= Overdue
    /\ pc = "poll" /\ since # -1 => /\ since + left <= Overdue
                                    /\ \A i \in LobbySlots : age[i] <= Expiry + since

(* That time is within what MaxAge allows.                                 *)
LEMMA OverdueBound ==
  ASSUME junk \in 0 .. MaxJunk
  PROVE  Overdue \in Nat /\ Overdue + Expiry <= MaxAge /\ MaxAge \in Nat /\ LongPoll <= Overdue
<1> DEFINE j == junk * BusyPoll
           m == MaxJunk * BusyPoll
<1>1. j \in Nat /\ j <= m /\ m \in Nat
  BY JunkBound, Zenon
<1>2. Overdue = Interval - 1 + LongPoll + j /\ MaxAge = Expiry + Interval + LongPoll + m
  BY Zenon DEF Overdue, MaxAge
<1>3. Interval \in Nat \ {0} /\ LongPoll \in Nat /\ Expiry \in Nat
  BY LobbyCacheAssumption, Zenon
<1> HIDE DEF j, m
<1>4. QED
  BY <1>1, <1>2, <1>3

(* What a poll of the capture thread leads to.                             *)
LEMMA AgeOfPoll ==
  ASSUME ScanType, AgeInv, pc = "poll", NEW t \in Nat, t <= LongPoll, ReinjectIfDue(t),
         UNCHANGED <<age, junk>>
  PROVE  AgeInv'
<1> USE LobbyCacheAssumption
<1>1. /\ junk * BusyPoll \in Nat /\ junk * BusyPoll <= MaxJunk * BusyPoll
      /\ MaxJunk * BusyPoll \in Nat
  BY JunkBound, Zenon DEF ScanType
<1>2. Overdue \in Nat /\ Overdue + Expiry <= MaxAge /\ Overdue' = Overdue /\ MaxAge \in Nat
  <2>1. Overdue' = Overdue
    BY Zenon DEF Overdue
  <2>2. QED
    BY <1>1, <2>1, OverdueBound, Zenon DEF ScanType
<1>3. CASE Due
  <2>1. pc' = "inject" /\ since' = 0 /\ next' = t
    BY <1>3, Zenon DEF ReinjectIfDue
  <2>2. ASSUME NEW i \in LobbySlots PROVE age[i] <= MaxAge
    <3>1. age[i] \in Nat
      BY Zenon DEF AgeInv
    <3>2. CASE since = -1
      BY <1>2, <3>1, <3>2 DEF AgeInv, ScanType
    <3>3. CASE since # -1
      BY <1>2, <3>1, <3>3 DEF AgeInv, ScanType
    <3>4. QED
      BY <3>2, <3>3, Zenon
  <2>3. QED
    BY <2>1, <2>2, Zenon DEF AgeInv
<1>4. CASE ~Due
  <2>1. left' = t /\ UNCHANGED <<pc, since, next>>
    BY <1>4, Zenon DEF ReinjectIfDue
  <2>2. since # -1 /\ since <= Interval - 1
    BY <1>4 DEF Due, ScanType
  <2>3. since + t <= Overdue
    BY <1>1, <2>2 DEF Overdue, ScanType
  <2>4. QED
    BY <1>2, <2>1, <2>2, <2>3, Zenon DEF AgeInv
<1>5. QED
  BY <1>3, <1>4, Zenon

(* Every step keeps AgeInv.                                                *)
LEMMA StepKeepsAges == ScanType /\ AgeInv /\ [LobbyNext]_lobbyVars => AgeInv'
<1> SUFFICES ASSUME ScanType, AgeInv, [LobbyNext]_lobbyVars PROVE AgeInv'
  BY Zenon
<1> USE LobbyCacheAssumption, LobbyCacheTiming
<1>1. /\ junk * BusyPoll \in Nat /\ junk * BusyPoll <= MaxJunk * BusyPoll
      /\ (junk + 1) * BusyPoll = junk * BusyPoll + BusyPoll
      /\ MaxJunk * BusyPoll \in Nat
  BY JunkBound, Zenon DEF ScanType
<1>2. Overdue \in Nat /\ Overdue + Expiry <= MaxAge /\ MaxAge \in Nat /\ LongPoll <= Overdue
  BY OverdueBound, Zenon DEF ScanType
<1>3. ASSUME NEW l \in Lobbies, ldn_bridge_inject(l) PROVE AgeInv'
  <2>1. UNCHANGED <<since, pc, left, next, junk>>
    BY <1>3, Zenon DEF ldn_bridge_inject
  <2>2. age' = [age EXCEPT ![StoreSlot(l)] = 0]
    BY <1>3, Zenon DEF ldn_bridge_inject, Store
  <2>3. age' \in [LobbySlots -> Nat] /\ \A i \in LobbySlots : age'[i] = age[i] \/ age'[i] = 0
    BY <2>2, Zenon DEF AgeInv
  <2>4. \A i \in LobbySlots : age[i] \in Nat /\ age'[i] \in Nat /\ age'[i] <= age[i]
    BY <2>3 DEF AgeInv
  <2>5. Overdue' = Overdue
    BY <2>1, Zenon DEF Overdue
  <2>6. QED
    BY <1>2, <2>1, <2>3, <2>4, <2>5 DEF AgeInv, ScanType
<1>4. CASE Reinject
  <2>1. /\ pc = "inject" /\ pc' = "poll" /\ left' = next /\ next' = ShortPoll
        /\ UNCHANGED <<since, junk>>
        /\ age' = [i \in LobbySlots |-> IF lobby'[i] = None THEN 0 ELSE age[i]]
    BY <1>4, Zenon DEF Reinject
  <2>2. ASSUME NEW i \in LobbySlots PROVE age'[i] \in Nat /\ age'[i] <= Expiry
    <3>1. age[i] \in Nat /\ (age[i] > Expiry => lobby'[i] = None)
      BY <1>4, Zenon DEF Reinject, Expired, AgeInv
    <3>2. QED
      BY <2>1, <3>1
  <2>3. age' \in [LobbySlots -> Nat]
    BY <2>1, <2>2, Zenon
  <2>4. Overdue' = Overdue /\ since = 0 /\ next <= LongPoll
    BY <2>1, Zenon DEF Overdue, AgeInv
  <2>5. QED
    BY <1>2, <2>1, <2>2, <2>3, <2>4 DEF AgeInv, ScanType
<1>5. CASE PollTimeout
  <2> DEFINE t == IF idle > IdleLimit THEN LongPoll ELSE ShortPoll
  <2>1. pc = "poll" /\ ReinjectIfDue(t) /\ UNCHANGED <<age, junk>>
    BY <1>5, Zenon DEF PollTimeout, cacheVars
  <2>2. t \in Nat /\ t <= LongPoll
    OBVIOUS
  <2> HIDE DEF t
  <2>3. QED
    BY <2>1, <2>2, AgeOfPoll, Zenon
<1>6. CASE CaptureOther \/ ScanBegins
  <2>1. pc = "poll" /\ ReinjectIfDue(BusyPoll) /\ UNCHANGED <<age, junk>>
    BY <1>6, Zenon DEF CaptureOther, ScanBegins, Capture, cacheVars
  <2>2. BusyPoll \in Nat /\ BusyPoll <= LongPoll
    OBVIOUS
  <2>3. QED
    BY <2>1, <2>2, AgeOfPoll, Zenon
<1>7. CASE CaptureJunk
  <2>1. /\ pc = "poll" /\ junk' = junk + 1 /\ left' = BusyPoll
        /\ UNCHANGED <<age, since, pc, next>>
    BY <1>7, Zenon DEF CaptureJunk, cacheVars
  <2>2. Overdue' = Overdue + BusyPoll
    BY <1>1, <2>1 DEF Overdue
  <2>3. \A i \in LobbySlots : age[i] \in Nat
    BY Zenon DEF AgeInv
  <2>4. QED
    BY <1>2, <2>1, <2>2, <2>3 DEF AgeInv, ScanType
<1>8. CASE ScanEnds \/ UNCHANGED lobbyVars
  <2>1. UNCHANGED <<age, since, pc, left, next, junk>>
    BY <1>8, Zenon DEF ScanEnds, lobbyVars, cacheVars
  <2>2. QED
    BY <2>1, Zenon DEF AgeInv, Overdue
<1>9. CASE LobbyTick
  <2>1. /\ pc = "poll" /\ left > 0 /\ left' = left - 1 /\ UNCHANGED <<pc, next, junk>>
        /\ since' = (IF since = -1 THEN -1 ELSE Least({since + 1, MaxAge}))
        /\ age' = [i \in LobbySlots |-> IF lobby[i] = None THEN 0 ELSE age[i] + 1]
    BY <1>9, Zenon DEF LobbyTick
  <2>2. \A i \in LobbySlots : age[i] \in Nat /\ age'[i] \in Nat /\ age'[i] <= age[i] + 1
    BY <2>1 DEF AgeInv
  <2>3. age' \in [LobbySlots -> Nat]
    BY <2>1, <2>2, Zenon
  <2>4. since # -1 => since' = since + 1
    <3>1. since # -1 => since + 1 <= MaxAge /\ since + 1 \in Nat
      BY <1>2, <2>1 DEF AgeInv, ScanType
    <3>2. QED
      BY <1>2, <2>1, <3>1, MinOfTwo
  <2>5. Overdue' = Overdue
    BY <2>1, Zenon DEF Overdue
  <2>6. left \in Nat /\ since \in Int /\ since >= -1 /\ left' = left - 1
    BY <2>1, Zenon DEF ScanType
  <2>7. since = -1 => \A i \in LobbySlots : age'[i] + left' <= Overdue
    BY <1>2, <2>1, <2>2, <2>6 DEF AgeInv
  <2>8. since # -1 => /\ since' + left' <= Overdue
                      /\ \A i \in LobbySlots : age'[i] <= Expiry + since'
    <3>1. since # -1 => since + left <= Overdue /\ \A i \in LobbySlots : age[i] <= Expiry + since
      BY <2>1, Zenon DEF AgeInv
    <3>2. since # -1 => since' + left' <= Overdue
      BY <1>2, <2>4, <2>6, <3>1
    <3>3. ASSUME since # -1, NEW i \in LobbySlots PROVE age'[i] <= Expiry + since'
      BY <2>2, <2>4, <2>6, <3>1, <3>3
    <3>4. QED
      BY <3>2, <3>3, Zenon
  <2>9. since' = -1 <=> since = -1
    BY <2>1, <2>4, <2>6
  <2>10. QED
    BY <2>1, <2>3, <2>5, <2>7, <2>8, <2>9, Zenon DEF AgeInv
<1>10. QED
  BY <1>3, <1>4, <1>5, <1>6, <1>7, <1>8, <1>9, Zenon DEF LobbyNext

(* A lobby that has ended leaves the cache, for all intervals that         *)
(* LobbyCacheTiming allows.                                                *)
THEOREM EndedLobbiesLeave == LobbySpec => []ExpiredLeaves
<1> USE LobbyCacheAssumption, LobbyCacheTiming
<1>1. LobbyInit => ScanInv /\ AgeInv
  <2> SUFFICES ASSUME LobbyInit PROVE ScanInv /\ AgeInv
    BY Zenon
  <2>1. ScanInv
    BY DEF LobbyInit, ScanInv, ScanType
  <2>2. junk * BusyPoll \in Nat
    BY <2>1, JunkBound, Zenon DEF ScanInv, ScanType
  <2>3. ShortPoll <= Overdue
    BY <2>2 DEF Overdue
  <2>4. /\ pc = "poll" /\ since = -1 /\ left = ShortPoll /\ next = ShortPoll
        /\ age = [i \in LobbySlots |-> 0]
    BY Zenon DEF LobbyInit
  <2>5. \A i \in LobbySlots : age[i] + left <= Overdue
    BY <2>3, <2>4
  <2>6. AgeInv
    BY <2>4, <2>5, Zenon DEF AgeInv
  <2>7. QED
    BY <2>1, <2>6, Zenon
<1>2. ScanInv => ScanType
  BY Zenon DEF ScanInv
<1>3. ScanInv /\ AgeInv => ExpiredLeaves
  <2> SUFFICES ASSUME ScanInv, AgeInv, NEW i \in LobbySlots PROVE age[i] <= MaxAge
    BY Zenon DEF ExpiredLeaves
  <2>1. /\ junk * BusyPoll \in Nat /\ junk * BusyPoll <= MaxJunk * BusyPoll
        /\ MaxJunk * BusyPoll \in Nat
    BY JunkBound, Zenon DEF ScanInv, ScanType
  <2>2. Overdue \in Nat /\ Overdue + Expiry <= MaxAge /\ MaxAge \in Nat /\ age[i] \in Nat
    BY <2>1 DEF Overdue, MaxAge, AgeInv
  <2>3. QED
    BY <2>2 DEF AgeInv, ScanInv, ScanType
<1>4. QED
  BY <1>1, <1>2, <1>3, StepKeepsScan, StepKeepsAges, PTL DEF LobbySpec
=============================================================================
