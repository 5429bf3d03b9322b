---------------------------- MODULE StationTunnel ----------------------------
(***************************************************************************)
(* How a console that has found a lobby through the relay joins it: the    *)
(* station's ldn_mitm (LANDiscovery::connect in lan_discovery.cpp), the    *)
(* TCP proxy of its bridge (ldn_bridge.cpp), the relay (udpserver.ts), and *)
(* the receive path, the bridge and the ldn_mitm of the other consoles.    *)
(* Consoles are named by their virtual addresses 10.13.x.x; every console  *)
(* runs the same code.  A stream is a sequence of words of four bytes, and *)
(* a word is the address of a console or one of the words of a LAN packet. *)
(* The best case is assumed: the relay has a route to every console, and   *)
(* the arp_list of a console holds its own virtual address.                *)
(***************************************************************************)
EXTENDS Integers, Sequences, FiniteSets

CONSTANTS
    Consoles,   \* virtual addresses of the consoles
    Hosts       \* the consoles whose lobby others may join

VARIABLES
    wants,      \* [Consoles -> the host it has called connect for, or itself]
    stream,     \* [Consoles -> words ldn_mitm sent on 127.0.0.1:11453, unread]
    session,    \* [Consoles -> target_ip of its bridge session, "none"]
    net,        \* packets from the relay: [to, src, dst, data]
    heard       \* [Consoles -> words that reached its ldn_mitm over TCP]

vars == <<wants, stream, session, net, heard>>

(* sendPacket(LANPacketType::Connect, &myNode): header, then the body.     *)
ConnectPacket == <<"magic", "type", "length", "node">>

Init ==
    /\ wants = [c \in Consoles |-> c] /\ stream = [c \in Consoles |-> <<>>]
    /\ session = [c \in Consoles |-> "none"]
    /\ net = {} /\ heard = [c \in Consoles |-> <<>>]
-----------------------------------------------------------------------------
(* LANDiscovery::connect: the host's address is in 10.13.0.0/16, so the    *)
(* connection goes to the bridge, and the Connect packet is sent on it.    *)
connect(c, h) ==
    /\ wants[c] = c /\ c # h
    /\ wants' = [wants EXCEPT ![c] = h]
    /\ stream' = [stream EXCEPT ![c] = ConnectPacket]
    /\ UNCHANGED <<session, net, heard>>

(* ldn_bridge_tcp_thread_fn: the first four bytes are the target.          *)
Accept(c) ==
    /\ session[c] = "none" /\ stream[c] # <<>>
    /\ session' = [session EXCEPT ![c] = Head(stream[c])]
    /\ stream' = [stream EXCEPT ![c] = Tail(@)]
    /\ UNCHANGED <<wants, net, heard>>

(* tcp_session_thread_fn: what follows is sent to the relay, which sends   *)
(* it to the route of dst, or to everyone else (onIpv4).                   *)
Forward(c) ==
    /\ session[c] # "none" /\ stream[c] # <<>>
    /\ LET dst == session[c]
           tos == IF dst \in Consoles THEN {dst} ELSE Consoles \ {c}
       IN  net' = net \cup [to : tos, src : {c}, dst : {dst}, data : {stream[c]}]
    /\ stream' = [stream EXCEPT ![c] = <<>>]
    /\ UNCHANGED <<wants, session, heard>>

(* lan_client_process: a unicast packet goes on only if its destination is *)
(* in the arp_list.  Then tap_send_packet sees the port of the tunnel, and *)
(* ldn_bridge_tcp_inject_from_relay writes into the session of its sender. *)
Receive(p) ==
    /\ p \in net /\ net' = net \ {p}
    /\ heard' = IF p.dst = p.to /\ session[p.to] = p.src
                THEN [heard EXCEPT ![p.to] = @ \o p.data] ELSE heard
    /\ UNCHANGED <<wants, stream, session>>

Bridge(c) == Accept(c) \/ Forward(c)

Next ==
    \/ \E c \in Consoles : Bridge(c) \/ \E h \in Hosts : connect(c, h)
    \/ \E p \in net : Receive(p)

Spec ==
    /\ Init /\ [][Next]_vars
    /\ \A c \in Consoles : WF_vars(Bridge(c))
    /\ WF_vars(\E p \in net : Receive(p))
-----------------------------------------------------------------------------
(* ldn_bridge.cpp: "Read 4-byte target IP sent by ldn_mitm before the      *)
(* stream starts": the target of a session is the host ldn_mitm joins.     *)
TargetIsHost == \A c \in Consoles : session[c] \in {"none", wants[c]}

(* README.md: the "TCP proxy en el puerto 11453 maneja las conexiones      *)
(* Station->AccessPoint a traves del relay": the Connect packet of a       *)
(* station reaches the ldn_mitm of the host.                               *)
StationReachesHost ==
    \A c \in Consoles, h \in Hosts : wants[c] = h /\ c # h ~> heard[h] # <<>>
=============================================================================
