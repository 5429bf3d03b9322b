---------------------------- MODULE RelayServer -----------------------------
(***************************************************************************)
(* The relay server (server/src/udpserver.ts): the peers it knows          *)
(* (PeerManager), the routes it has learnt (ipCache), and the login        *)
(* dialogue, whose handler is suspended at two awaits.  Handlers run to    *)
(* completion or to an await on the one Node thread, so each piece between *)
(* awaits is an action.  Packets are relayed whole; their payload is left  *)
(* out.                                                                    *)
(*                                                                         *)
(* A Peer is an object, and a suspended handler may hold one the manager   *)
(* has forgotten: such a handler is old.  Of a Peer object in a route only *)
(* rinfo and user matter.  An expireAt is modelled by the seconds left; it *)
(* is -1 once Date.now() has passed it.                                    *)
(*                                                                         *)
(* A definition named Mut_X_Y is X with a slip of the kind Y; it is used   *)
(* only to see that a property notices the slip.                           *)
(***************************************************************************)
EXTENDS Integers, FiniteSets

CONSTANTS
    Addrs,      \* address:port of clients
    Ips,        \* virtual addresses
    BcastIp,    \* a virtual address nobody sends from
    Timeout,    \* Timeout, in seconds
    AuthAddrs   \* bound: the clients of a server with an authProvider

ASSUME RelayServerAssumption ==
    /\ Timeout \in Nat \ {0} /\ Addrs # {} /\ AuthAddrs \subseteq Addrs /\ BcastIp \notin Ips

VARIABLES
    authProvider, \* one was given when the server was started
    manager,   \* manager.map: [Addrs -> known, left, user, challenge]
    ipCache,   \* [Ips -> known, left, rinfo, user]
    filling,   \* handlers suspended in randomFill: set of rinfo, old
    verifying, \* handlers suspended in verify: set of rinfo, old, ok
    inflight,  \* addresses with a send whose callback has not run
    out,       \* what the last step sent
    swept,     \* the interval callback of this second has run
    lastSender,\* history: [Ips -> the client that last sent from the address]
    dropped    \* history: clients deleted on a send error and silent since

vars == <<authProvider, manager, ipCache, filling, verifying, inflight, out, swept, lastSender,
          dropped>>

NoPeer  == [known |-> FALSE, left |-> -1, user |-> FALSE, challenge |-> "none"]
NewPeer == [known |-> TRUE, left |-> Timeout, user |-> FALSE, challenge |-> "none"]
AnyAddr == CHOOSE a \in Addrs : TRUE
NoRoute == [known |-> FALSE, left |-> -1, rinfo |-> AnyAddr, user |-> FALSE]

TypeOK ==
    /\ manager \in [Addrs -> [known : BOOLEAN, left : -1 .. Timeout, user : BOOLEAN,
                              challenge : {"none", "filling", "ready"}]]
    /\ ipCache \in [Ips -> [known : BOOLEAN, left : -1 .. Timeout, rinfo : Addrs,
                            user : BOOLEAN]]
    /\ filling \subseteq [rinfo : Addrs, old : BOOLEAN]
    /\ verifying \subseteq [rinfo : Addrs, old : BOOLEAN, ok : BOOLEAN]
    /\ inflight \subseteq Addrs /\ dropped \subseteq Addrs
    /\ swept \in BOOLEAN /\ authProvider \in BOOLEAN
    /\ lastSender \in [Ips -> Addrs]
-----------------------------------------------------------------------------
(* Sends of one step: set of to, type, dst.                                *)
Send(msgs) ==
    /\ out' = msgs
    /\ inflight' = inflight \cup {m.to : m \in msgs}

Msg(to, type, dst) == [to |-> to, type |-> type, dst |-> dst]

(* Handlers that hold the Peer of an address the manager forgets are old.  *)
Forget(addrs) ==
    /\ filling' = {[h EXCEPT !.old = @ \/ h.rinfo \in addrs] : h \in filling}
    /\ verifying' = {[h EXCEPT !.old = @ \/ h.rinfo \in addrs] : h \in verifying}

(* PeerManager.get.                                                        *)
get(a) == IF manager[a].known THEN [manager[a] EXCEPT !.left = Timeout] ELSE NewPeer
-----------------------------------------------------------------------------
(* onIpv4 and onIpv4Frag: learn the source, then send to the peer the      *)
(* destination was learnt from, or to everyone else.  An expired route is  *)
(* used until it is swept.                                                 *)
Route(a, peer) == [known |-> TRUE, left |-> Timeout, rinfo |-> a, user |-> peer.user]

Mut_Learn_KeepsOld(a, peer, src) ==
    IF ipCache[src].known THEN ipCache ELSE [ipCache EXCEPT ![src] = Route(a, peer)]

Learn(a, peer, src) == [ipCache EXCEPT ![src] = Route(a, peer)]

onIpv4(a, peer, src, dst) ==
    LET routes == Learn(a, peer, src)
        to == IF dst \in Ips /\ routes[dst].known THEN {routes[dst].rinfo}
              ELSE {b \in Addrs \ {a} : manager[b].known}
    IN  /\ ipCache' = routes
        /\ Send({Msg(b, "relay", dst) : b \in to})
        /\ manager' = [manager EXCEPT ![a] = peer]
        /\ lastSender' = [lastSender EXCEPT ![src] = a]
        /\ UNCHANGED <<filling, verifying>>

(* onNeedAuth for an AuthMe, up to its await: ok says whether the response *)
(* fits the challenge and the password.                                    *)
onAuthMe(a, peer, ok) ==
    /\ verifying' = IF peer.challenge = "none" THEN verifying
                    ELSE verifying \cup {[rinfo |-> a, old |-> FALSE, ok |-> ok]}
    /\ manager' = [manager EXCEPT ![a] = peer]
    /\ Send({})
    /\ UNCHANGED <<ipCache, filling, lastSender>>

(* onNeedAuth for any other packet, up to its await.                       *)
Mut_onNeedAuth_NoFillCheck(a, peer) ==
    /\ IF peer.challenge = "none"
       THEN /\ manager' = [manager EXCEPT ![a] = [peer EXCEPT !.challenge = "filling"]]
            /\ filling' = filling \cup {[rinfo |-> a, old |-> FALSE]}
            /\ Send({})
       ELSE /\ manager' = [manager EXCEPT ![a] = peer]
            /\ Send({Msg(a, "AuthMe", BcastIp)})
            /\ UNCHANGED filling
    /\ UNCHANGED <<ipCache, verifying, lastSender>>

onNeedAuth(a, peer) ==
    /\ IF peer.challenge = "none"
       THEN /\ manager' = [manager EXCEPT ![a] = [peer EXCEPT !.challenge = "filling"]]
            /\ filling' = filling \cup {[rinfo |-> a, old |-> FALSE]}
            /\ Send({})
       ELSE /\ manager' = [manager EXCEPT ![a] = peer]
            /\ Send(IF peer.challenge = "ready" THEN {Msg(a, "AuthMe", BcastIp)} ELSE {})
            /\ UNCHANGED filling
    /\ UNCHANGED <<ipCache, verifying, lastSender>>

Ignore(a, peer) ==
    /\ manager' = [manager EXCEPT ![a] = peer] /\ Send({})
    /\ UNCHANGED <<ipCache, filling, verifying, lastSender>>

Mut_NeedsAuth_NotForData(peer, type) == authProvider /\ ~peer.user /\ type # "Ipv4"

NeedsAuth(peer, type) == authProvider /\ ~peer.user

(* A datagram of client a that is not a ping.                              *)
onMessage(a, type, src, dst, ok) ==
    LET peer == get(a)
    IN  /\ CASE NeedsAuth(peer, type) /\ type = "AuthMe" -> onAuthMe(a, peer, ok)
              [] NeedsAuth(peer, type) /\ type # "AuthMe" -> onNeedAuth(a, peer)
              [] ~NeedsAuth(peer, type) /\ type = "Ipv4" -> onIpv4(a, peer, src, dst)
              [] OTHER -> Ignore(a, peer)
        /\ dropped' = dropped \ {a}
        /\ UNCHANGED swept

onPing(a) ==
    /\ Send({Msg(a, "Ping", BcastIp)})
    /\ UNCHANGED <<manager, ipCache, filling, verifying, swept, lastSender, dropped>>

(* randomFill is done.                                                     *)
FillDone(h) ==
    /\ h \in filling /\ filling' = filling \ {h}
    /\ manager' = IF h.old THEN manager
                  ELSE [manager EXCEPT ![h.rinfo].challenge = "ready"]
    /\ Send({Msg(h.rinfo, "AuthMe", BcastIp)})
    /\ UNCHANGED <<ipCache, verifying, swept, lastSender, dropped>>

(* verify is done, or withTimeout gave it up.                              *)
VerifyDone(h, late) ==
    /\ h \in verifying /\ verifying' = verifying \ {h}
    /\ IF h.ok /\ ~late
       THEN /\ manager' = IF h.old THEN manager
                          ELSE [manager EXCEPT ![h.rinfo].user = TRUE]
            /\ Send({})
       ELSE UNCHANGED manager /\ Send({Msg(h.rinfo, "Info", BcastIp)})
    /\ UNCHANGED <<ipCache, filling, swept, lastSender, dropped>>

(* randomFill is rejected: the challenge keeps its 0xFF.                   *)
FillFails(h) ==
    /\ h \in filling /\ filling' = filling \ {h}
    /\ Send({})
    /\ UNCHANGED <<manager, ipCache, verifying, swept, lastSender, dropped>>

(* The callback of a send; another send to the client may be outstanding.  *)
SendDone(a, error) ==
    /\ a \in inflight /\ inflight' \in {inflight, inflight \ {a}}
    /\ IF error
       THEN /\ manager' = [manager EXCEPT ![a] = NoPeer] /\ Forget({a})
            /\ dropped' = dropped \cup {a}
       ELSE UNCHANGED <<manager, filling, verifying, dropped>>
    /\ out' = {}
    /\ UNCHANGED <<ipCache, swept, lastSender>>
-----------------------------------------------------------------------------
(* setInterval: clearExpire.                                               *)
Expired(map) == {k \in DOMAIN map : map[k].known /\ map[k].left < 0}

clearExpire ==
    /\ ~swept /\ swept' = TRUE
    /\ manager' = [a \in Addrs |-> IF a \in Expired(manager) THEN NoPeer ELSE manager[a]]
    /\ Forget(Expired(manager))
    /\ ipCache' = [i \in Ips |-> IF i \in Expired(ipCache) THEN NoRoute ELSE ipCache[i]]
    /\ out' = {}
    /\ UNCHANGED <<inflight, lastSender, dropped>>

Older(map) == [k \in DOMAIN map |->
                  IF map[k].left >= 0 THEN [map[k] EXCEPT !.left = @ - 1] ELSE map[k]]

Tick ==
    /\ swept /\ swept' = FALSE
    /\ manager' = Older(manager) /\ ipCache' = Older(ipCache)
    /\ out' = {}
    /\ UNCHANGED <<filling, verifying, inflight, lastSender, dropped>>
-----------------------------------------------------------------------------
Init ==
    /\ authProvider \in BOOLEAN
    /\ manager = [a \in Addrs |-> NoPeer] /\ ipCache = [i \in Ips |-> NoRoute]
    /\ filling = {} /\ verifying = {} /\ inflight = {} /\ out = {} /\ swept = TRUE
    /\ lastSender = [i \in Ips |-> AnyAddr] /\ dropped = {}

Clients == IF authProvider THEN AuthAddrs ELSE Addrs

(* Every datagram, callback and timer.                                     *)
Server ==
    \/ \E a \in Clients :
          \/ \E src \in Ips, dst \in Ips \cup {BcastIp} : onMessage(a, "Ipv4", src, dst, FALSE)
          \/ \E ok \in BOOLEAN : onMessage(a, "AuthMe", BcastIp, BcastIp, ok)
          \/ onMessage(a, "Keepalive", BcastIp, BcastIp, FALSE)
          \/ onPing(a)
          \/ \E error \in BOOLEAN : SendDone(a, error)
    \/ \E h \in filling : FillDone(h) \/ FillFails(h)
    \/ \E h \in verifying, late \in BOOLEAN : VerifyDone(h, late)
    \/ clearExpire \/ Tick

Next == Server /\ UNCHANGED authProvider

Spec == Init /\ [][Next]_vars
-----------------------------------------------------------------------------
(* Properties.                                                             *)

(* A packet for an address somebody has sent from goes to the client that  *)
(* did so last, and to no other, though peers and routes were forgotten    *)
(* and learnt again in between.                                            *)
RouteToLatestSender ==
    \A m \in out : m.type = "relay" /\ m.dst \in Ips /\ ipCache[m.dst].known =>
       m.to = lastSender[m.dst]

(* A route never outlives the peer it leads to: the client of every route  *)
(* is known to the manager, and so gets broadcasts too, unless it was      *)
(* deleted because a send to it failed and has not been heard since.       *)
RouteHasPeer ==
    \A i \in Ips : ipCache[i].known =>
       LET a == ipCache[i].rinfo
       IN  a \in dropped \/ (manager[a].known /\ manager[a].left >= ipCache[i].left)

(* The awaits of onNeedAuth harm nobody, whatever arrives or expires while *)
(* a handler is suspended: a client that has logged in stays so until its  *)
(* Peer expires or is dropped on a send error, and none gets a challenge   *)
(* that randomFill has not finished.  While the manager's Peer is filling, *)
(* only a handler of a forgotten Peer sends one.                           *)
AwaitsAreHarmless ==
    [][/\ \A a \in Addrs :
             manager[a].user => \/ manager'[a].user
                                \/ ~manager'[a].known /\ (manager[a].left < 0 \/ a \in dropped')
       /\ \A m \in out' : m.type = "AuthMe" =>
             manager'[m.to].challenge = "ready" \/ \E h \in filling \ filling' : h.old]_vars

(* With an authProvider, only addresses of a client whose login succeeded  *)
(* are learnt, and so only its packets are relayed.                        *)
RoutesAreOfUsers == authProvider => \A i \in Ips : ipCache[i].known => ipCache[i].user
=============================================================================
