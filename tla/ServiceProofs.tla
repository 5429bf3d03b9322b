--------------------------- MODULE ServiceProofs ----------------------------
(***************************************************************************)
(* Proofs about the relay and about the runtime that talks to it: the      *)
(* relay server, for any clients, virtual addresses and timeout; the link  *)
(* of a console to it, for all periods that are no longer than the         *)
(* relay's timeout; and the life cycle of the sysmodule's runtime, for     *)
(* any number of saved configurations.                                     *)
(*                                                                         *)
(* A route and its peer expire by clocks of their own, and either may be   *)
(* swept first.  RouteHasPeer is inductive once the clocks are known to    *)
(* stay between -1 and Timeout: every datagram gives the peer the greatest *)
(* value there is, and a tick takes the same from both.                    *)
(*                                                                         *)
(* Neither property of RunService is inductive: that a run holds nothing   *)
(* when it is over follows from what it may hold at each of its steps      *)
(* (Held), and that no reload is lost from how the two files and the       *)
(* application's progress belong together (Files).                         *)
(***************************************************************************)
EXTENDS RelayServer, RelayLink, RunService, TLAPS

(* Time limits of the provers, for the many facts in scope.                *)
USE SMTT(20), ZenonT(30)

Peers == [known : BOOLEAN, left : -1 .. Timeout, user : BOOLEAN,
          challenge : {"none", "filling", "ready"}]
Routes == [known : BOOLEAN, left : -1 .. Timeout, rinfo : Addrs, user : BOOLEAN]

Tables == manager \in [Addrs -> Peers] /\ ipCache \in [Ips -> Routes]

IInv == Tables /\ RouteHasPeer /\ RoutesAreOfUsers

USE RelayServerAssumption

(* The records that the tables start from have their types.                *)
LEMMA Constants == NoPeer \in Peers /\ NewPeer \in Peers /\ NoRoute \in Routes /\ AnyAddr \in Addrs
<1>1. AnyAddr \in Addrs  BY Zenon DEF AnyAddr
<1>2. NoPeer \in Peers /\ NewPeer \in Peers  BY DEF NoPeer, NewPeer, Peers
<1>3. NoRoute \in Routes  BY <1>1 DEF NoRoute, Routes
<1> QED  BY <1>1, <1>2, <1>3, Zenon

(* The server starts with no route.                                        *)
LEMMA InvInit == Init => IInv
<1> SUFFICES ASSUME Init PROVE IInv
  BY Zenon
<1>1. Tables  BY Constants, Zenon DEF Init, Tables
<1>2. \A i \in Ips : ~ipCache[i].known  BY Zenon DEF Init, NoRoute
<1> QED  BY <1>1, <1>2, Zenon DEF IInv, RouteHasPeer, RoutesAreOfUsers

(* PeerManager.get gives a peer with the whole timeout left.               *)
LEMMA GetFresh ==
  ASSUME Tables, NEW a \in Addrs
  PROVE  get(a) \in Peers /\ get(a).known /\ get(a).left = Timeout
<1>1. CASE manager[a].known
  BY <1>1 DEF get, Tables, Peers
<1>2. CASE ~manager[a].known
  BY <1>2, Constants, Zenon DEF get, NewPeer
<1> QED  BY <1>1, <1>2, Zenon

(* A client that was heard has all the time left, so its routes are safe.  *)
LEMMA Refreshed ==
  ASSUME IInv, NEW a \in Addrs, NEW peer \in Peers, peer.known, peer.left = Timeout,
         manager' = [manager EXCEPT ![a] = peer], dropped' = dropped \ {a},
         UNCHANGED <<ipCache, authProvider>>
  PROVE  IInv'
<1>1. Tables'
  BY Zenon DEF IInv, Tables
<1>2. RoutesAreOfUsers'
  BY Zenon DEF IInv, RoutesAreOfUsers
<1>3. ASSUME NEW i \in Ips, ipCache[i].known, ipCache[i].rinfo \notin dropped'
      PROVE  /\ manager'[ipCache[i].rinfo].known
             /\ manager'[ipCache[i].rinfo].left >= ipCache[i].left
  <2> DEFINE b == ipCache[i].rinfo
  <2>1. b \in Addrs /\ ipCache[i].left \in -1 .. Timeout
    BY Zenon DEF IInv, Tables, Routes
  <2>2. CASE b = a
    BY <2>1, <2>2 DEF IInv, Tables
  <2>3. CASE b # a
    BY <1>3, <2>1, <2>3, Zenon DEF IInv, Tables, RouteHasPeer
  <2> QED  BY <2>2, <2>3, Zenon
<1> QED  BY <1>1, <1>2, <1>3, Zenon DEF IInv, RouteHasPeer

(* onIpv4 learns a route to a client it has just heard.                    *)
LEMMA Learnt ==
  ASSUME IInv, NEW a \in Addrs, NEW peer \in Peers, peer.known, peer.left = Timeout,
         authProvider => peer.user, NEW src \in Ips,
         manager' = [manager EXCEPT ![a] = peer], dropped' = dropped \ {a},
         ipCache' = Learn(a, peer, src), UNCHANGED authProvider
  PROVE  IInv'
<1>1. Route(a, peer) \in Routes
  BY Zenon DEF Route, Routes, Peers
<1>2. Tables'
  BY <1>1, Zenon DEF IInv, Tables, Learn
<1>3. ASSUME NEW i \in Ips
      PROVE  ipCache'[i] = IF i = src THEN Route(a, peer) ELSE ipCache[i]
  BY Zenon DEF IInv, Tables, Learn
<1>4. RoutesAreOfUsers'
  <2>1. Route(a, peer).user = peer.user
    BY Zenon DEF Route
  <2> SUFFICES ASSUME authProvider, NEW i \in Ips, ipCache'[i].known PROVE ipCache'[i].user
    BY Zenon DEF RoutesAreOfUsers
  <2>2. CASE i = src  BY <1>3, <2>1, <2>2, Zenon
  <2>3. CASE i # src  BY <1>3, <2>3, Zenon DEF IInv, RoutesAreOfUsers
  <2> QED  BY <2>2, <2>3, Zenon
<1>5. ASSUME NEW i \in Ips, ipCache'[i].known, ipCache'[i].rinfo \notin dropped'
      PROVE  /\ manager'[ipCache'[i].rinfo].known
             /\ manager'[ipCache'[i].rinfo].left >= ipCache'[i].left
  <2> DEFINE b == ipCache'[i].rinfo
  <2>1. b \in Addrs /\ ipCache'[i].left \in -1 .. Timeout
    BY <1>2, Zenon DEF Tables, Routes
  <2>2. CASE b = a
    BY <2>1, <2>2 DEF IInv, Tables
  <2>3. CASE b # a
    <3>1. i # src /\ ipCache'[i] = ipCache[i]
      BY <1>3, <2>3 DEF Route
    <3> QED  BY <1>5, <2>1, <2>3, <3>1, Zenon DEF IInv, Tables, RouteHasPeer
  <2> QED  BY <2>2, <2>3, Zenon
<1> QED  BY <1>2, <1>4, <1>5, Zenon DEF IInv, RouteHasPeer

(* Whatever a datagram is, the invariant holds after its handler.          *)
LEMMA MessageStep ==
  ASSUME IInv, NEW a \in Addrs, NEW type, NEW src, NEW dst, NEW ok, type = "Ipv4" => src \in Ips,
         onMessage(a, type, src, dst, ok), UNCHANGED authProvider
  PROVE  IInv'
<1> DEFINE peer == get(a)
<1>1. peer \in Peers /\ peer.known /\ peer.left = Timeout
  BY GetFresh, Zenon DEF IInv
<1>2. dropped' = dropped \ {a}
  BY Zenon DEF onMessage
<1> HIDE DEF peer
<1>3. CASE onAuthMe(a, peer, ok)
  BY <1>1, <1>2, <1>3, Refreshed, Zenon DEF onAuthMe
<1>4. CASE onNeedAuth(a, peer)
  <2>1. CASE manager' = [manager EXCEPT ![a] = peer]
    BY <1>1, <1>2, <1>4, <2>1, Refreshed, Zenon DEF onNeedAuth
  <2>2. CASE manager' = [manager EXCEPT ![a] = [peer EXCEPT !.challenge = "filling"]]
    <3> DEFINE new == [peer EXCEPT !.challenge = "filling"]
    <3>1. new \in Peers /\ new.known /\ new.left = Timeout
      BY <1>1, Zenon DEF Peers
    <3>2. manager' = [manager EXCEPT ![a] = new] /\ UNCHANGED ipCache
      BY <1>4, <2>2, Zenon DEF onNeedAuth
    <3> HIDE DEF new
    <3> QED  BY <1>2, <3>1, <3>2, Refreshed, Zenon
  <2> QED  BY <1>4, <2>1, <2>2, Zenon DEF onNeedAuth
<1>5. CASE onIpv4(a, peer, src, dst) /\ ~NeedsAuth(peer, type) /\ type = "Ipv4"
  <2>1. authProvider => peer.user
    BY <1>5, Zenon DEF NeedsAuth
  <2>2. manager' = [manager EXCEPT ![a] = peer] /\ ipCache' = Learn(a, peer, src)
    BY <1>5, Zenon DEF onIpv4
  <2> QED  BY <1>1, <1>2, <1>5, <2>1, <2>2, Learnt, Zenon
<1>6. CASE Ignore(a, peer)
  BY <1>1, <1>2, <1>6, Refreshed, Zenon DEF Ignore
<1> QED  BY <1>3, <1>4, <1>5, <1>6, Zenon DEF onMessage, peer

(* A step that leaves every peer its time and forgets none that was not    *)
(* dropped, and learns nothing, preserves the invariant: the two awaits of *)
(* onNeedAuth and the callbacks of sends are such steps.                   *)
LEMMA PeersKept ==
  ASSUME IInv, Tables', dropped \subseteq dropped', UNCHANGED <<ipCache, authProvider>>,
         \A a \in Addrs \ dropped' :
            manager'[a].known = manager[a].known /\ manager'[a].left = manager[a].left
  PROVE  IInv'
<1>1. RoutesAreOfUsers'
  BY Zenon DEF IInv, RoutesAreOfUsers
<1>2. ASSUME NEW i \in Ips, ipCache[i].known, ipCache[i].rinfo \notin dropped'
      PROVE  /\ manager'[ipCache[i].rinfo].known
             /\ manager'[ipCache[i].rinfo].left >= ipCache[i].left
  <2>1. ipCache[i].rinfo \in Addrs
    BY Zenon DEF IInv, Tables, Routes
  <2> QED  BY <1>2, <2>1, Zenon DEF IInv, RouteHasPeer
<1> QED  BY <1>1, <1>2, Zenon DEF IInv, RouteHasPeer

(* The second halves of the login handlers.                                *)
LEMMA AwaitStep ==
  ASSUME IInv, UNCHANGED authProvider,
         \/ \E h \in filling : FillDone(h) \/ FillFails(h)
         \/ \E h \in verifying, late \in BOOLEAN : VerifyDone(h, late)
  PROVE  IInv'
<1> DEFINE ready(a) == [manager EXCEPT ![a].challenge = "ready"]
           login(a) == [manager EXCEPT ![a].user = TRUE]
<1>1. ASSUME NEW h, FillDone(h) \/ FillFails(h)
      PROVE  manager' \in {manager, ready(h.rinfo)} /\ UNCHANGED <<ipCache, dropped>>
  BY <1>1, Zenon DEF FillDone, FillFails
<1>2. ASSUME NEW h, NEW late, VerifyDone(h, late)
      PROVE  manager' \in {manager, login(h.rinfo)} /\ UNCHANGED <<ipCache, dropped>>
  BY <1>2, Zenon DEF VerifyDone
<1>3. /\ UNCHANGED <<ipCache, dropped>>
      /\ manager' = manager \/ \E a : manager' = ready(a) \/ manager' = login(a)
  <2> HIDE DEF ready, login
  <2> QED  BY <1>1, <1>2, Zenon
<1> DEFINE Kept == \A b \in Addrs : /\ manager'[b].known = manager[b].known
                                    /\ manager'[b].left = manager[b].left
<1>4. Tables' /\ Kept
  <2>1. CASE manager' = manager
    BY <1>3, <2>1, Zenon DEF IInv, Tables
  <2>2. ASSUME NEW a, manager' = ready(a) PROVE Tables' /\ Kept
    <3>1. \A b \in Addrs : manager'[b] = IF b = a THEN [manager[b] EXCEPT !.challenge = "ready"]
                                         ELSE manager[b]
      BY <2>2, Zenon DEF IInv, Tables
    <3>2. \A b \in Addrs : [manager[b] EXCEPT !.challenge = "ready"] \in Peers
      BY DEF IInv, Tables, Peers
    <3>3. manager' = [b \in Addrs |-> manager'[b]]
      BY <2>2, Zenon DEF IInv, Tables
    <3>4. Tables'
      BY <1>3, <3>1, <3>2, <3>3 DEF IInv, Tables
    <3> QED  BY <3>1, <3>4 DEF IInv, Tables, Peers
  <2>3. ASSUME NEW a, manager' = login(a) PROVE Tables' /\ Kept
    <3>1. \A b \in Addrs : manager'[b] = IF b = a THEN [manager[b] EXCEPT !.user = TRUE]
                                         ELSE manager[b]
      BY <2>3, Zenon DEF IInv, Tables
    <3>2. \A b \in Addrs : [manager[b] EXCEPT !.user = TRUE] \in Peers
      BY Zenon DEF IInv, Tables, Peers
    <3>3. manager' = [b \in Addrs |-> manager'[b]]
      BY <2>3, Zenon DEF IInv, Tables
    <3>4. Tables'
      BY <1>3, <3>1, <3>2, <3>3 DEF IInv, Tables
    <3> QED  BY <3>1, <3>4 DEF IInv, Tables, Peers
  <2> QED  BY <1>3, <2>1, <2>2, <2>3, Zenon
<1> QED  BY <1>3, <1>4, PeersKept, Zenon

(* A send is done or has failed.                                           *)
LEMMA SendStep ==
  ASSUME IInv, NEW a \in Addrs, NEW error \in BOOLEAN, SendDone(a, error), UNCHANGED authProvider
  PROVE  IInv'
<1>1. CASE error
  <2>1. /\ manager' = [manager EXCEPT ![a] = NoPeer] /\ dropped' = dropped \cup {a}
        /\ UNCHANGED ipCache
    BY <1>1, Zenon DEF SendDone
  <2>2. Tables'
    BY <2>1, Constants, Zenon DEF IInv, Tables
  <2> QED  BY <2>1, <2>2, PeersKept, Zenon DEF IInv, Tables
<1>2. CASE ~error
  <2>1. UNCHANGED <<manager, dropped, ipCache>>
    BY <1>2, Zenon DEF SendDone
  <2> QED  BY <2>1, PeersKept, Zenon DEF IInv, Tables
<1> QED  BY <1>1, <1>2, Zenon

(* The sweep: a peer that has expired has no route that has not.           *)
LEMMA SweepStep ==
  ASSUME IInv, clearExpire, UNCHANGED authProvider
  PROVE  IInv'
<1>1. \A a \in Addrs : manager'[a] = IF manager[a].known /\ manager[a].left < 0 THEN NoPeer
                                     ELSE manager[a]
  BY Zenon DEF IInv, Tables, clearExpire, Expired
<1>2. \A i \in Ips : ipCache'[i] = IF ipCache[i].known /\ ipCache[i].left < 0 THEN NoRoute
                                   ELSE ipCache[i]
  BY Zenon DEF IInv, Tables, clearExpire, Expired
<1>3. Tables'
  <2>1. manager' \in [Addrs -> Peers]
    BY Constants, Zenon DEF IInv, Tables, clearExpire
  <2>2. ipCache' \in [Ips -> Routes]
    BY Constants, Zenon DEF IInv, Tables, clearExpire
  <2> QED  BY <2>1, <2>2, Zenon DEF Tables
<1>4. ASSUME NEW i \in Ips, ipCache'[i].known
      PROVE  ipCache'[i] = ipCache[i] /\ ipCache[i].known /\ ~(ipCache[i].left < 0)
  BY <1>2, <1>4 DEF NoRoute
<1>5. RoutesAreOfUsers'
  <2> SUFFICES ASSUME authProvider, NEW i \in Ips, ipCache'[i].known PROVE ipCache'[i].user
    BY Zenon DEF RoutesAreOfUsers
  <2> QED  BY <1>4, Zenon DEF IInv, RoutesAreOfUsers
<1>6. ASSUME NEW i \in Ips, ipCache'[i].known, ipCache'[i].rinfo \notin dropped'
      PROVE  /\ manager'[ipCache'[i].rinfo].known
             /\ manager'[ipCache'[i].rinfo].left >= ipCache'[i].left
  <2> DEFINE b == ipCache[i].rinfo
  <2>1. b \in Addrs /\ ipCache[i].left \in -1 .. Timeout /\ manager[b].left \in -1 .. Timeout
    BY Zenon DEF IInv, Tables, Routes, Peers
  <2>2. ipCache'[i] = ipCache[i] /\ ipCache[i].known /\ ipCache[i].left >= 0 /\ b \notin dropped
    BY <1>4, <1>6, <2>1 DEF clearExpire
  <2>3. manager[b].known /\ manager[b].left >= ipCache[i].left
    BY <2>1, <2>2, Zenon DEF IInv, RouteHasPeer
  <2>4. manager'[b] = manager[b]
    BY <1>1, <2>1, <2>2, <2>3
  <2> QED  BY <2>2, <2>3, <2>4, Zenon
<1> QED  BY <1>3, <1>5, <1>6, Zenon DEF IInv, RouteHasPeer

(* A second passes for peers and routes alike.                             *)
LEMMA TickStep ==
  ASSUME IInv, Tick, UNCHANGED authProvider
  PROVE  IInv'
<1>1. manager' = Older(manager) /\ ipCache' = Older(ipCache) /\ dropped' = dropped
  BY Zenon DEF Tick
<1>2. ASSUME NEW a \in Addrs
      PROVE  /\ manager'[a] \in Peers /\ manager'[a].known = manager[a].known
             /\ manager'[a].left = IF manager[a].left >= 0 THEN manager[a].left - 1
                                   ELSE manager[a].left
  BY <1>1 DEF IInv, Tables, Older, Peers
<1>3. ASSUME NEW i \in Ips
      PROVE  /\ ipCache'[i] \in Routes /\ ipCache'[i].known = ipCache[i].known
             /\ ipCache'[i].rinfo = ipCache[i].rinfo /\ ipCache'[i].user = ipCache[i].user
             /\ ipCache'[i].left = IF ipCache[i].left >= 0 THEN ipCache[i].left - 1
                                   ELSE ipCache[i].left
  BY <1>1 DEF IInv, Tables, Older, Routes
<1>4. Tables'
  <2>1. manager' = [a \in Addrs |-> manager'[a]]
    BY <1>1, Zenon DEF IInv, Tables, Older
  <2>2. ipCache' = [i \in Ips |-> ipCache'[i]]
    BY <1>1, Zenon DEF IInv, Tables, Older
  <2> QED  BY <1>2, <1>3, <2>1, <2>2, Zenon DEF Tables
<1>5. RoutesAreOfUsers'
  BY <1>3, Zenon DEF IInv, RoutesAreOfUsers
<1>6. ASSUME NEW i \in Ips, ipCache'[i].known, ipCache'[i].rinfo \notin dropped'
      PROVE  /\ manager'[ipCache'[i].rinfo].known
             /\ manager'[ipCache'[i].rinfo].left >= ipCache'[i].left
  <2> DEFINE b == ipCache[i].rinfo
  <2>1. b \in Addrs /\ ipCache[i].left \in -1 .. Timeout /\ manager[b].left \in -1 .. Timeout
    BY Zenon DEF IInv, Tables, Routes, Peers
  <2>2. manager[b].known /\ manager[b].left >= ipCache[i].left
    BY <1>1, <1>3, <1>6, <2>1, Zenon DEF IInv, RouteHasPeer
  <2> QED  BY <1>2, <1>3, <2>1, <2>2
<1> QED  BY <1>4, <1>5, <1>6, Zenon DEF IInv, RouteHasPeer

(* The invariant is preserved by every step of the server.                 *)
LEMMA InvNext == IInv /\ [Next]_vars => IInv'
<1> SUFFICES ASSUME IInv, [Next]_vars PROVE IInv'
  BY Zenon
<1>1. Clients \subseteq Addrs
  BY Zenon DEF Clients
<1>2. CASE UNCHANGED vars
  BY <1>2, Zenon DEF vars, IInv, Tables, RouteHasPeer, RoutesAreOfUsers
<1>3. CASE Next
  <2>1. UNCHANGED authProvider
    BY <1>3, Zenon DEF Next
  <2>2. ASSUME NEW a \in Clients, NEW src \in Ips, NEW dst, onMessage(a, "Ipv4", src, dst, FALSE)
        PROVE  IInv'
    BY <1>1, <2>1, <2>2, MessageStep, Zenon
  <2>3. ASSUME NEW a \in Clients, NEW type \in {"AuthMe", "Keepalive"}, NEW ok \in BOOLEAN,
               onMessage(a, type, BcastIp, BcastIp, ok)
        PROVE  IInv'
    BY <1>1, <2>1, <2>3, MessageStep, Zenon
  <2>4. ASSUME NEW a \in Clients, onPing(a) PROVE IInv'
    BY <2>1, <2>4, PeersKept, Zenon DEF onPing, IInv, Tables
  <2>5. ASSUME NEW a \in Clients, NEW error \in BOOLEAN, SendDone(a, error) PROVE IInv'
    BY <1>1, <2>1, <2>5, SendStep, Zenon
  <2> QED
    BY <1>3, <2>1, <2>2, <2>3, <2>4, <2>5, AwaitStep, SweepStep, TickStep, Zenon DEF Next, Server
<1> QED  BY <1>2, <1>3, Zenon
-----------------------------------------------------------------------------
(* A route of ipCache never outlives the peer it leads to, unless that     *)
(* peer was deleted on a send error and has been silent since.             *)
THEOREM RoutesHavePeers == Spec => []RouteHasPeer
<1>1. IInv => RouteHasPeer
  BY Zenon DEF IInv
<1> QED  BY InvInit, InvNext, <1>1, PTL DEF Spec

(* With an authProvider only addresses of clients that have logged in are  *)
(* ever learnt, also across the awaits of the login.                       *)
THEOREM RoutesOnlyOfUsers == Spec => []RoutesAreOfUsers
<1>1. IInv => RoutesAreOfUsers
  BY Zenon DEF IInv
<1> QED  BY InvInit, InvNext, <1>1, PTL DEF Spec
-----------------------------------------------------------------------------
(* A route leads to the client that last sent from the address, whatever   *)
(* was forgotten in between; what the last step relayed followed a route.  *)
LastInv ==
    /\ lastSender \in [Ips -> Addrs]
    /\ \A i \in Ips : ipCache[i].known => ipCache[i].rinfo = lastSender[i]
    /\ RouteToLatestSender

(* A step that learns nothing and relays nothing keeps LastInv.            *)
LEMMA NothingRelayed ==
  ASSUME LastInv, UNCHANGED lastSender, \A m \in out' : m.type # "relay",
         \A i \in Ips : ipCache'[i].known =>
            ipCache[i].known /\ ipCache'[i].rinfo = ipCache[i].rinfo
  PROVE  LastInv'
BY Zenon DEF LastInv, RouteToLatestSender

(* onIpv4 follows the route it finds after learning the source.            *)
LEMMA Relayed ==
  ASSUME Tables, LastInv, NEW a \in Addrs, NEW peer \in Peers, NEW src \in Ips, NEW dst,
         onIpv4(a, peer, src, dst)
  PROVE  LastInv'
<1>1. /\ ipCache'[src] = Route(a, peer) /\ lastSender'[src] = a
      /\ \A i \in Ips : i # src => ipCache'[i] = ipCache[i] /\ lastSender'[i] = lastSender[i]
      /\ lastSender' \in [Ips -> Addrs]
  BY Zenon DEF onIpv4, Learn, Tables, LastInv
<1>2. \A i \in Ips : ipCache'[i].known => ipCache'[i].rinfo = lastSender'[i]
  BY <1>1 DEF Route, LastInv
<1>3. ASSUME NEW m \in out', m.dst \in Ips, ipCache'[m.dst].known
      PROVE  m.to = lastSender'[m.dst]
  <2>1. PICK b : /\ m = Msg(b, "relay", dst)
                 /\ dst \in Ips /\ ipCache'[dst].known => b = ipCache'[dst].rinfo
    BY <1>3, Zenon DEF onIpv4, Send
  <2>2. m.dst = dst /\ m.to = b
    BY <2>1, Zenon DEF Msg
  <2> QED  BY <1>2, <1>3, <2>1, <2>2, Zenon
<1> QED  BY <1>1, <1>2, <1>3, Zenon DEF LastInv, RouteToLatestSender

(* Every step of the server keeps LastInv.                                 *)
LEMMA LastNext == IInv /\ LastInv /\ [Next]_vars => LastInv'
<1> SUFFICES ASSUME IInv, LastInv, [Next]_vars PROVE LastInv'
  BY Zenon
<1>1. Clients \subseteq Addrs
  BY Zenon DEF Clients
<1>2. ASSUME NEW a, NEW type PROVE Msg(a, type, BcastIp).type = type
  BY Zenon DEF Msg
<1>3. CASE UNCHANGED vars
  BY <1>3, Zenon DEF vars, LastInv, RouteToLatestSender
<1>4. ASSUME NEW a \in Clients, NEW type, NEW src, NEW dst, NEW ok, type = "Ipv4" => src \in Ips,
             onMessage(a, type, src, dst, ok)
      PROVE  LastInv'
  <2> DEFINE peer == get(a)
  <2>1. peer \in Peers
    BY <1>1, GetFresh, Zenon DEF IInv
  <2> HIDE DEF peer
  <2>2. CASE onIpv4(a, peer, src, dst) /\ type = "Ipv4"
    BY <1>1, <1>4, <2>1, <2>2, Relayed, Zenon DEF IInv
  <2>3. CASE onAuthMe(a, peer, ok)
    BY <2>3, NothingRelayed, Zenon DEF onAuthMe, Send
  <2>4. CASE onNeedAuth(a, peer)
    <3>1. \A m \in out' : m.type # "relay"
      BY <1>2, <2>4 DEF onNeedAuth, Send
    <3> QED  BY <2>4, <3>1, NothingRelayed, Zenon DEF onNeedAuth
  <2>5. CASE Ignore(a, peer)
    BY <2>5, NothingRelayed, Zenon DEF Ignore, Send
  <2> QED  BY <1>4, <2>2, <2>3, <2>4, <2>5, Zenon DEF onMessage, peer
<1>5. ASSUME NEW a, onPing(a) PROVE LastInv'
  BY <1>2, <1>5, NothingRelayed DEF onPing, Send
<1>6. ASSUME NEW a, NEW error, SendDone(a, error) PROVE LastInv'
  BY <1>6, NothingRelayed, Zenon DEF SendDone
<1>7. ASSUME NEW h, FillDone(h) \/ FillFails(h) PROVE LastInv'
  BY <1>2, <1>7, NothingRelayed, Zenon DEF FillDone, FillFails, Send
<1>8. ASSUME NEW h, NEW late, VerifyDone(h, late) PROVE LastInv'
  BY <1>2, <1>8, NothingRelayed DEF VerifyDone, Send
<1>9. CASE clearExpire
  <2>1. \A i \in Ips : ipCache'[i] = NoRoute \/ ipCache'[i] = ipCache[i]
    BY <1>9, Zenon DEF clearExpire
  <2> QED  BY <1>9, <2>1, NothingRelayed, Zenon DEF clearExpire, NoRoute
<1>10. CASE Tick
  <2>1. \A i \in Ips : ipCache'[i].known = ipCache[i].known /\ ipCache'[i].rinfo = ipCache[i].rinfo
    BY <1>10, Zenon DEF Tick, Older, IInv, Tables, Routes
  <2> QED  BY <1>10, <2>1, NothingRelayed, Zenon DEF Tick
<1> QED
  BY <1>3, <1>4, <1>5, <1>6, <1>7, <1>8, <1>9, <1>10, Zenon DEF Next, Server

(* A packet for a virtual address goes to the client that last sent from   *)
(* it and to no other, for any number of clients and addresses.            *)
THEOREM RoutesToLatest == Spec => []RouteToLatestSender
<1>1. Init => LastInv
  BY Constants DEF Init, LastInv, RouteToLatestSender, NoRoute
<1>2. LastInv => RouteToLatestSender
  BY Zenon DEF LastInv
<1> QED  BY InvInit, InvNext, LastNext, <1>1, <1>2, PTL DEF Spec
-----------------------------------------------------------------------------
(* The awaits of the login.  A handler that is suspended holds a Peer the  *)
(* manager may have forgotten; one that is not old holds the manager's.    *)
Fills == [rinfo : Addrs, old : BOOLEAN]
Verifies == [rinfo : Addrs, old : BOOLEAN, ok : BOOLEAN]

AwaitInv ==
    /\ Tables
    /\ filling \subseteq Fills /\ verifying \subseteq Verifies
    /\ \A a \in Addrs : manager[a].user => manager[a].known
    /\ \A h \in verifying : ~h.old => manager[h.rinfo].known

(* What the property says of one client, and of what is sent.              *)
StaysIn(a) ==
    manager[a].user => \/ manager'[a].user
                       \/ ~manager'[a].known /\ (manager[a].left < 0 \/ a \in dropped')

ChallengeIsReady(m) ==
    m.type = "AuthMe" => manager'[m.to].challenge = "ready" \/ \E h \in filling \ filling' : h.old

Harmless == (\A a \in Addrs : StaysIn(a)) /\ (\A m \in out' : ChallengeIsReady(m))

(* A datagram changes the Peer of its sender only, which stays known and   *)
(* keeps its login.                                                        *)
LEMMA HeardInv ==
  ASSUME AwaitInv, NEW a \in Addrs, NEW peer \in Peers, peer.known,
         manager[a].user => peer.user, manager' = [manager EXCEPT ![a] = peer],
         ipCache' \in [Ips -> Routes],
         filling' \subseteq Fills, verifying' \subseteq Verifies,
         \A h \in verifying' : h \in verifying \/ h.rinfo = a
  PROVE  AwaitInv' /\ \A b \in Addrs : StaysIn(b)
<1>1. \A b \in Addrs : manager'[b] = IF b = a THEN peer ELSE manager[b]
  BY Zenon DEF AwaitInv, Tables
<1>2. Tables'
  BY Zenon DEF AwaitInv, Tables
<1>3. \A b \in Addrs : manager'[b].user => manager'[b].known
  BY <1>1 DEF AwaitInv
<1>4. \A h \in verifying' : ~h.old => manager'[h.rinfo].known
  BY <1>1 DEF AwaitInv, Verifies
<1>5. \A b \in Addrs : StaysIn(b)
  BY <1>1, Zenon DEF StaysIn
<1> QED  BY <1>2, <1>3, <1>4, <1>5, Zenon DEF AwaitInv

(* Whatever a datagram is.                                                 *)
LEMMA MessageHarmless ==
  ASSUME AwaitInv, NEW a \in Addrs, NEW type, NEW src, NEW dst, NEW ok \in BOOLEAN,
         type = "Ipv4" => src \in Ips, onMessage(a, type, src, dst, ok)
  PROVE  AwaitInv' /\ Harmless
<1> DEFINE peer == get(a)
<1>0. Tables /\ filling \subseteq Fills /\ verifying \subseteq Verifies
  BY Zenon DEF AwaitInv
<1>1. peer \in Peers /\ peer.known
  BY <1>0, GetFresh, Zenon
<1>2. manager[a].user => peer.user
  <2> SUFFICES ASSUME manager[a].user PROVE get(a).user
    BY Zenon
  <2>1. manager[a].known
    BY Zenon DEF AwaitInv
  <2> QED  BY <1>0, <2>1, Zenon DEF get, Tables, Peers
<1> HIDE DEF peer
<1>3. ASSUME NEW b, NEW t, NEW d PROVE Msg(b, t, d).type = t /\ Msg(b, t, d).to = b
  BY Zenon DEF Msg
<1>4. CASE onAuthMe(a, peer, ok)
  <2> DEFINE new == [rinfo |-> a, old |-> FALSE, ok |-> ok]
  <2>1. new \in Verifies /\ new.rinfo = a
    BY Zenon DEF Verifies
  <2>2. verifying' \subseteq Verifies /\ \A h \in verifying' : h \in verifying \/ h.rinfo = a
    <3>1. verifying' \subseteq verifying \cup {new}
      BY <1>4, Zenon DEF onAuthMe
    <3> HIDE DEF new
    <3> QED  BY <1>0, <2>1, <3>1, Zenon
  <2>3. /\ manager' = [manager EXCEPT ![a] = peer] /\ out' = {}
        /\ UNCHANGED <<ipCache, filling>>
    BY <1>4, Zenon DEF onAuthMe, Send
  <2> QED  BY <1>0, <1>1, <1>2, <2>2, <2>3, HeardInv, Zenon DEF Harmless, Tables
<1>5. CASE onNeedAuth(a, peer)
  <2> DEFINE now == [peer EXCEPT !.challenge = "filling"]
  <2>1. /\ UNCHANGED <<ipCache, verifying>> /\ ipCache' \in [Ips -> Routes]
        /\ verifying' \subseteq Verifies /\ \A h \in verifying' : h \in verifying
    BY <1>0, <1>5, Zenon DEF onNeedAuth, Tables
  <2>2. CASE peer.challenge = "none"
    <3>1. /\ manager' = [manager EXCEPT ![a] = now] /\ out' = {}
          /\ filling' = filling \cup {[rinfo |-> a, old |-> FALSE]}
      BY <1>5, <2>2, Zenon DEF onNeedAuth, Send
    <3>2. now \in Peers /\ now.known /\ (manager[a].user => now.user)
      BY <1>1, <1>2, Zenon DEF Peers
    <3>3. filling' \subseteq Fills
      <4>1. [rinfo |-> a, old |-> FALSE] \in Fills
        BY Zenon DEF Fills
      <4> QED  BY <1>0, <3>1, <4>1, Zenon
    <3> HIDE DEF now
    <3>4. AwaitInv' /\ \A b \in Addrs : StaysIn(b)
      BY <2>1, <3>1, <3>2, <3>3, HeardInv, Zenon
    <3> QED  BY <3>1, <3>4, Zenon DEF Harmless
  <2>3. CASE peer.challenge # "none"
    <3>1. /\ manager' = [manager EXCEPT ![a] = peer] /\ UNCHANGED filling
          /\ out' = IF peer.challenge = "ready" THEN {Msg(a, "AuthMe", BcastIp)} ELSE {}
      BY <1>5, <2>3, Zenon DEF onNeedAuth, Send
    <3>2. AwaitInv' /\ \A b \in Addrs : StaysIn(b)
      BY <1>0, <1>1, <1>2, <2>1, <3>1, HeardInv, Zenon
    <3>3. manager'[a] = peer
      BY <1>0, <3>1, Zenon DEF Tables
    <3>4. \A m \in out' : ChallengeIsReady(m)
      BY <1>3, <3>1, <3>3 DEF ChallengeIsReady
    <3> QED  BY <3>2, <3>4, Zenon DEF Harmless
  <2> QED  BY <2>2, <2>3, Zenon
<1>6. CASE onIpv4(a, peer, src, dst) /\ src \in Ips
  <2>1. Route(a, peer) \in Routes
    BY <1>1 DEF Route, Routes, Peers
  <2>2. ipCache' \in [Ips -> Routes]
    BY <1>0, <1>6, <2>1, Zenon DEF onIpv4, Learn, Tables
  <2>3. manager' = [manager EXCEPT ![a] = peer] /\ UNCHANGED <<filling, verifying>>
    BY <1>6, Zenon DEF onIpv4
  <2>4. \A m \in out' : m.type = "relay"
    BY <1>3, <1>6 DEF onIpv4, Send
  <2>5. AwaitInv' /\ \A b \in Addrs : StaysIn(b)
    BY <1>0, <1>1, <1>2, <2>2, <2>3, HeardInv, Zenon
  <2> QED  BY <2>4, <2>5, Zenon DEF Harmless, ChallengeIsReady
<1>7. CASE Ignore(a, peer)
  <2>1. /\ manager' = [manager EXCEPT ![a] = peer] /\ out' = {}
        /\ UNCHANGED <<ipCache, filling, verifying>>
    BY <1>7, Zenon DEF Ignore, Send
  <2> QED  BY <1>0, <1>1, <1>2, <2>1, HeardInv, Zenon DEF Harmless, Tables
<1> QED  BY <1>4, <1>5, <1>6, <1>7, Zenon DEF onMessage, peer

(* The manager forgets the peers of an address: their handlers are old     *)
(* from then on, and nothing is sent.                                      *)
LEMMA ForgetHarmless ==
  ASSUME AwaitInv, NEW addrs \in SUBSET Addrs, Forget(addrs), Tables',
         \A a \in addrs : manager'[a] = NoPeer /\ (manager[a].left < 0 \/ a \in dropped'),
         \A a \in Addrs \ addrs : manager'[a] = manager[a], out' = {}
  PROVE  AwaitInv' /\ Harmless
<1>1. filling \subseteq Fills /\ verifying \subseteq Verifies
  BY Zenon DEF AwaitInv
<1>2. filling' \subseteq Fills
  <2> SUFFICES ASSUME NEW h \in filling
               PROVE  [h EXCEPT !.old = h.old \/ h.rinfo \in addrs] \in Fills
    BY Zenon DEF Forget
  <2> QED  BY <1>1, Zenon DEF Fills
<1>3. ASSUME NEW k \in verifying'
      PROVE  k \in Verifies /\ (~k.old => k.rinfo \notin addrs /\ manager[k.rinfo].known)
  <2>1. PICK h \in verifying : k = [h EXCEPT !.old = h.old \/ h.rinfo \in addrs]
    BY <1>3, Zenon DEF Forget
  <2>2. h \in Verifies /\ (h.old \/ h.rinfo \in addrs) \in BOOLEAN
    BY <1>1, Zenon
  <2>3. k \in Verifies /\ k.rinfo = h.rinfo /\ (k.old <=> h.old \/ h.rinfo \in addrs)
    BY <2>1, <2>2, Zenon DEF Verifies
  <2> QED  BY <2>1, <2>3, Zenon DEF AwaitInv
<1>4. ~NoPeer.known /\ ~NoPeer.user
  BY Zenon DEF NoPeer
<1>5. \A a \in Addrs : manager'[a].user => manager'[a].known
  BY <1>4, Zenon DEF AwaitInv
<1>6. \A h \in verifying' : ~h.old => manager'[h.rinfo].known
  BY <1>3, Zenon DEF Verifies
<1>7. \A a \in Addrs : StaysIn(a)
  BY <1>4, Zenon DEF StaysIn
<1> QED  BY <1>2, <1>3, <1>5, <1>6, <1>7, Zenon DEF AwaitInv, Harmless

(* A step that changes of the manager no more than what is known, and      *)
(* wakes no handler.                                                       *)
LEMMA RestHarmless ==
  ASSUME AwaitInv, Tables', UNCHANGED <<filling, verifying>>, \A m \in out' : m.type # "AuthMe",
         \A a \in Addrs : /\ manager'[a].known <=> manager[a].known
                          /\ manager'[a].user <=> manager[a].user
  PROVE  AwaitInv' /\ Harmless
<1>1. \A h \in verifying : h.rinfo \in Addrs
  BY Zenon DEF AwaitInv, Verifies
<1> QED  BY <1>1, Zenon DEF AwaitInv, Harmless, StaysIn, ChallengeIsReady

(* Every step of the server keeps AwaitInv and is harmless.                *)
LEMMA AwaitNext == AwaitInv /\ IInv /\ [Next]_vars => AwaitInv' /\ [Harmless]_vars
<1> SUFFICES ASSUME AwaitInv, IInv, [Next]_vars PROVE AwaitInv' /\ [Harmless]_vars
  BY Zenon
<1>1. Clients \subseteq Addrs /\ Tables' /\ Tables
  BY InvNext, Zenon DEF Clients, IInv
<1>2. ASSUME NEW b, NEW t, NEW d PROVE Msg(b, t, d).type = t /\ Msg(b, t, d).to = b
  BY Zenon DEF Msg
<1>3. CASE UNCHANGED vars
  BY <1>3, Zenon DEF vars, AwaitInv, Tables
<1>4. ASSUME NEW a \in Clients, NEW type, NEW src, NEW dst, NEW ok \in BOOLEAN,
             type = "Ipv4" => src \in Ips, onMessage(a, type, src, dst, ok)
      PROVE  AwaitInv' /\ Harmless
  BY <1>1, <1>4, MessageHarmless, Zenon
<1>5. ASSUME NEW a \in Clients, onPing(a) PROVE AwaitInv' /\ Harmless
  <2>1. UNCHANGED <<manager, filling, verifying>> /\ \A m \in out' : m.type = "Ping"
    BY <1>2, <1>5 DEF onPing, Send
  <2> QED  BY <1>1, <2>1, RestHarmless, Zenon
<1>6. ASSUME NEW a \in Clients, NEW error \in BOOLEAN, SendDone(a, error)
      PROVE  AwaitInv' /\ Harmless
  <2>1. CASE error
    <3>1. /\ manager' = [manager EXCEPT ![a] = NoPeer] /\ Forget({a})
          /\ a \in dropped' /\ out' = {}
      BY <1>6, <2>1, Zenon DEF SendDone
    <3>2. manager'[a] = NoPeer /\ \A b \in Addrs \ {a} : manager'[b] = manager[b]
      BY <1>1, <3>1, Zenon DEF Tables
    <3> QED  BY <1>1, <3>1, <3>2, ForgetHarmless, Zenon
  <2>2. CASE ~error
    <3>1. UNCHANGED <<manager, filling, verifying>> /\ out' = {}
      BY <1>6, <2>2, Zenon DEF SendDone
    <3> QED  BY <1>1, <3>1, RestHarmless, Zenon
  <2> QED  BY <2>1, <2>2, Zenon
<1>7. ASSUME NEW h \in filling, FillDone(h) PROVE AwaitInv' /\ Harmless
  <2>1. h \in Fills /\ filling' = filling \ {h} /\ UNCHANGED verifying
    BY <1>7, Zenon DEF FillDone, AwaitInv
  <2>2. \A m \in out' : m.type = "AuthMe" /\ m.to = h.rinfo
    BY <1>2, <1>7 DEF FillDone, Send
  <2>3. \A a \in Addrs : /\ manager'[a].known <=> manager[a].known
                         /\ manager'[a].user <=> manager[a].user
    BY <1>1, <1>7 DEF FillDone, Tables, Peers
  <2>4. h.old \/ manager'[h.rinfo].challenge = "ready"
    BY <1>1, <1>7, <2>1 DEF FillDone, Tables, Peers, Fills
  <2>5. \A m \in out' : ChallengeIsReady(m)
    BY <2>1, <2>2, <2>4, Zenon DEF ChallengeIsReady
  <2>6. \A g \in verifying : g.rinfo \in Addrs
    BY Zenon DEF AwaitInv, Verifies
  <2>7. AwaitInv'
    BY <1>1, <2>1, <2>3, <2>6, Zenon DEF AwaitInv
  <2> QED  BY <2>3, <2>5, <2>7, Zenon DEF Harmless, StaysIn
<1>8. ASSUME NEW h \in filling, FillFails(h) PROVE AwaitInv' /\ Harmless
  <2>1. filling' \subseteq filling /\ UNCHANGED <<manager, verifying>> /\ out' = {}
    BY <1>8, Zenon DEF FillFails, Send
  <2> QED  BY <1>1, <2>1, Zenon DEF AwaitInv, Harmless, StaysIn
<1>9. ASSUME NEW h \in verifying, NEW late \in BOOLEAN, VerifyDone(h, late)
      PROVE  AwaitInv' /\ Harmless
  <2>1. /\ h \in Verifies /\ verifying' \subseteq verifying /\ UNCHANGED filling
        /\ \A m \in out' : m.type # "AuthMe"
    BY <1>2, <1>9 DEF VerifyDone, AwaitInv, Send
  <2>2. \A a \in Addrs : /\ manager'[a].known <=> manager[a].known
                         /\ manager[a].user => manager'[a].user
                         /\ manager'[a].user => manager[a].user \/ (~h.old /\ a = h.rinfo)
    BY <1>1, <1>9 DEF VerifyDone, Tables, Peers
  <2>3. \A a \in Addrs : manager'[a].user => manager'[a].known
    BY <2>2, Zenon DEF AwaitInv
  <2>4. \A g \in verifying : g.rinfo \in Addrs
    BY Zenon DEF AwaitInv, Verifies
  <2>5. AwaitInv'
    BY <1>1, <2>1, <2>2, <2>3, <2>4, Zenon DEF AwaitInv
  <2> QED  BY <2>1, <2>2, <2>5, Zenon DEF Harmless, StaysIn, ChallengeIsReady
<1>10. CASE clearExpire
  <2>1. /\ Expired(manager) \subseteq Addrs
        /\ \A a \in Expired(manager) : manager[a].left < 0
    BY <1>1, Zenon DEF Expired, Tables
  <2>2. /\ \A a \in Expired(manager) : manager'[a] = NoPeer
        /\ \A a \in Addrs \ Expired(manager) : manager'[a] = manager[a]
        /\ Forget(Expired(manager)) /\ out' = {}
    BY <1>10, <2>1, Zenon DEF clearExpire
  <2> QED  BY <1>1, <2>1, <2>2, ForgetHarmless, Zenon
<1>11. CASE Tick
  <2>1. \A a \in Addrs : /\ manager'[a].known <=> manager[a].known
                         /\ manager'[a].user <=> manager[a].user
    BY <1>1, <1>11 DEF Tick, Older, Tables, Peers
  <2>2. UNCHANGED <<filling, verifying>> /\ out' = {}
    BY <1>11, Zenon DEF Tick
  <2> QED  BY <1>1, <2>1, <2>2, RestHarmless, Zenon
<1> QED
  BY <1>3, <1>4, <1>5, <1>6, <1>7, <1>8, <1>9, <1>10, <1>11, Zenon DEF Next, Server

(* Whatever arrives, expires or fails while onNeedAuth is suspended, a     *)
(* client that has logged in stays so until its Peer expires or is dropped *)
(* on a send error, and is sent no challenge that is not filled, for any   *)
(* number of clients and handlers.                                         *)
THEOREM AwaitsDoNoHarm == Spec => AwaitsAreHarmless
<1>1. Init => AwaitInv
  <2> SUFFICES ASSUME Init PROVE AwaitInv
    BY Zenon
  <2>1. Tables
    BY InvInit, Zenon DEF IInv
  <2>2. \A a \in Addrs : ~manager[a].user
    BY Zenon DEF Init, NoPeer
  <2>3. filling = {} /\ verifying = {}
    BY Zenon DEF Init
  <2> QED  BY <2>1, <2>2, <2>3, Zenon DEF AwaitInv
<1>2. AwaitInv /\ IInv /\ [Next]_vars => [Harmless]_vars
  BY AwaitNext, Zenon
<1>3. AwaitInv /\ IInv /\ [Next]_vars => AwaitInv'
  BY AwaitNext, Zenon
<1> QED
  BY <1>1, <1>2, <1>3, InvInit, InvNext, PTL
     DEF Spec, AwaitsAreHarmless, Harmless, StaysIn, ChallengeIsReady
-----------------------------------------------------------------------------
(* The link of a console to the relay.                                     *)

(* The part of LinkTypeOK the argument needs.                              *)
LinkType ==
    /\ kpc \in {"send", "sleep", "route", "exited"}
    /\ sleep \in Nat /\ quiet \in Int /\ quiet >= -1

(* Since the relay last heard of the console, with nothing lost since, the *)
(* thread has been in one sleep: what is over of it and what is left of it *)
(* are together no longer than the sleep.                                  *)
LinkInv ==
    /\ LinkType
    /\ kpc = "send" => sleep = 0
    /\ kpc = "exited" => ~running
    /\ kpc = "sleep" => sleep <= Period
    /\ kpc = "route" => sleep <= RouteWait
    /\ running /\ ~missed /\ quiet # -1 => quiet + sleep <= RelayTimeout

(* lan_client_init leaves the relay without an entry to forget.            *)
LEMMA InitLink == LinkInit => LinkInv
BY RelayLinkAssumption DEF LinkInit, LinkInv, LinkType

(* What a datagram that was sent does to what the relay knows.             *)
LEMMA SentLink ==
  ASSUME LinkType, Sent
  PROVE  /\ quiet' \in Int /\ quiet' >= -1
         /\ ~missed' => quiet' = 0
  BY DEF LinkType, Sent, Heard

(* Every step of the link keeps LinkInv, and forgets a console only after  *)
(* something was missed.                                                   *)
LEMMA StepLink ==
  ASSUME LinkInv, [LinkNext]_linkVars
  PROVE  LinkInv' /\ (running /\ quiet = RelayTimeout /\ quiet' = -1 => missed)
<1> USE RelayLinkAssumption
<1>1. CASE KeepaliveSent
  <2>1. /\ quiet' \in Int /\ quiet' >= -1
        /\ ~missed' => quiet' = 0
    BY <1>1, SentLink, Zenon DEF KeepaliveSent, LinkInv
  <2>2. quiet' = quiet \/ quiet' = 0
    BY <1>1, Zenon DEF KeepaliveSent, Sent, Heard
  <2>3. QED
    BY <1>1, <2>1, <2>2 DEF KeepaliveSent, Sleep, LinkInv, LinkType
<1>2. CASE KeepaliveNoRoute
  BY <1>2 DEF KeepaliveNoRoute, LinkInv, LinkType
<1>3. CASE KeepaliveHardError
  <2>1. ~running'
    BY <1>3, Zenon DEF KeepaliveHardError
  <2>2. QED
    BY <1>3, <2>1 DEF KeepaliveHardError, LinkInv, LinkType
<1>4. CASE KeepaliveFails
  <2>1. missed' /\ quiet' = quiet
    BY <1>4, Zenon DEF KeepaliveFails
  <2>2. \/ kpc' = "exited" /\ sleep' = sleep /\ ~running'
        \/ kpc' = "sleep" /\ sleep' = Period
    BY <1>4, Zenon DEF KeepaliveFails, Sleep
  <2>3. QED
    BY <2>1, <2>2 DEF LinkInv, LinkType
<1>5. CASE KeepaliveWakes
  BY <1>5 DEF KeepaliveWakes, LinkInv, LinkType
<1>6. CASE KeepaliveStops
  BY <1>6, Zenon DEF KeepaliveStops, LinkInv, LinkType
<1>7. CASE RecvBroadcast \/ \E h \in LanHosts : LearnHost(h) \/ ForgetHost(h)
  BY <1>7 DEF RecvBroadcast, LearnHost, ForgetHost, keepVars, LinkInv, LinkType
<1>8. CASE RecvHardError
  <2>1. ~running'
    BY <1>8, Zenon DEF RecvHardError
  <2>2. QED
    <3>1. kpc' = kpc /\ sleep' = sleep /\ quiet' = quiet
      BY <1>8, Zenon DEF RecvHardError, keepVars
    <3> QED  BY <2>1, <3>1 DEF LinkInv, LinkType
<1>9. CASE SendData \/ Verify
  <2>1. kpc' = kpc /\ sleep' = sleep /\ quiet' = 0
    BY <1>9, Zenon DEF SendData, Verify, Heard, keepVars
  <2>2. running' => running
    BY <1>9, Zenon DEF SendData, Verify
  <2>3. CASE kpc \in {"sleep", "route"}
    BY <2>1, <2>3 DEF LinkInv, LinkType
  <2>4. CASE kpc \in {"send", "exited"}
    BY <2>1, <2>2, <2>4 DEF LinkInv, LinkType
  <2>5. QED
    BY <2>3, <2>4, Zenon DEF LinkInv, LinkType
<1>10. CASE LinkTick
  <2>1. quiet # RelayTimeout \/ missed
    BY <1>10 DEF LinkTick, LinkInv, LinkType
  <2>2. QED
    BY <1>10, <2>1 DEF LinkTick, LinkInv, LinkType
<1>11. CASE RecvAuthMe \/ \E d \in net : AuthMeLost(d)
  BY <1>11 DEF RecvAuthMe, AuthMeLost, keepVars, LinkInv, LinkType
<1>12. CASE \/ \E now \in {"whole", "half"} : FileChanges(now)
            \/ \E r \in reads : ReadDone(r)
  BY <1>12 DEF FileChanges, ReadDone, keepVars, LinkInv, LinkType
<1>13. CASE UNCHANGED linkVars
  BY <1>13 DEF linkVars, keepVars, LinkInv, LinkType
<1>14. QED
  BY <1>1, <1>2, <1>3, <1>4, <1>5, <1>6, <1>7, <1>8, <1>9, <1>10, <1>11, <1>12, <1>13, Zenon
     DEF LinkNext, Keepalive

(* For every period, wait and timeout of the assumption: while the run     *)
(* lasts the relay forgets the console only after a datagram failed or was *)
(* lost.                                                                   *)
THEOREM RegistrationIsKept == LinkSpec => RegistrationKept
<1>1. LinkInv /\ [LinkNext]_linkVars => LinkInv'
  BY StepLink, Zenon
<1>2. LinkInv /\ [LinkNext]_linkVars =>
         [running /\ quiet = RelayTimeout /\ quiet' = -1 => missed]_linkVars
  BY StepLink, Zenon
<1>3. QED
  BY <1>1, <1>2, InitLink, PTL DEF LinkSpec, RegistrationKept

-----------------------------------------------------------------------------
(* The life cycle of the runtime.                                          *)

WithLp == {"dns", "setup", "tap_init", "client_init", "bridge_init", "start", "loop", "cleanup",
           "join"}
WithSockets == {"client_init", "bridge_init", "start", "loop", "cleanup"}
WithThreads == {"loop", "cleanup", "join"}

(* What run_service may hold where it is.                                  *)
Held ==
    /\ lp <=> main \in WithLp
    /\ main \notin WithSockets => fds = {}
    /\ main = "client_init" => fds \subseteq {"bpf", "inject"}
    /\ main \notin WithThreads => \A t \in Threads : thread[t] = "none"

(* The configuration file is the last one saved, or cut short.             *)
Files ==
    /\ config \in {0, saves}
    /\ triggered <= saves
    /\ hb = "writing" => saves < MaxSaves
    /\ NoReloadLost

ServiceInv == ServiceTypeOK /\ Held /\ Files

USE RunServiceAssumption

(* main starts in a state that satisfies the invariant.                    *)
LEMMA InitService == ServiceInit => ServiceInv
<1> SUFFICES ASSUME ServiceInit PROVE ServiceInv
  BY Zenon
<1>1. ServiceTypeOK
  <2>1. /\ allowed \in BOOLEAN /\ wifi \in BOOLEAN /\ lp \in BOOLEAN
        /\ lp_running \in BOOLEAN /\ reload \in BOOLEAN /\ fresh \in BOOLEAN
    BY Zenon DEF ServiceInit
  <2>2. thread \in [Threads -> {"none", "running", "exited"}]
    BY Zenon DEF ServiceInit
  <2>3. /\ main = "gate" /\ services = {} /\ fds = {} /\ config = 0 /\ cfg = 0 /\ hb = "idle"
        /\ saves = 0 /\ triggered = 0 /\ restart_count = 0 /\ delay = 0
    BY Zenon DEF ServiceInit
  <2> QED  BY ONLY <2>1, <2>2, <2>3, RunServiceAssumption DEF ServiceTypeOK, Waiting
<1>2. Held
  BY Zenon DEF ServiceInit, Held, WithLp, WithSockets, WithThreads
<1>3. Files
  BY DEF ServiceInit, Files, NoReloadLost, Using
<1> QED  BY <1>1, <1>2, <1>3, Zenon DEF ServiceInv

(* The backoff main computes is at most a minute.                          *)
LEMMA DelayBounded ==
  ASSUME NEW n \in Nat
  PROVE  (IF Doubled(n + 1) > 60 THEN 60 ELSE Doubled(n + 1)) \in 0 .. 60
<1>1. CASE n >= 5
  BY <1>1 DEF Doubled
<1>2. CASE n \in 0 .. 4
  BY <1>2 DEF Doubled
<1> QED  BY <1>1, <1>2

(* The type invariant is preserved by every step.                          *)
LEMMA TypeNext ==
  ServiceTypeOK /\ (hb = "writing" => saves < MaxSaves) /\ [ServiceNext]_serviceVars
    => ServiceTypeOK'
<1> SUFFICES ASSUME ServiceTypeOK, hb = "writing" => saves < MaxSaves, [ServiceNext]_serviceVars
             PROVE  ServiceTypeOK'
  BY Zenon
<1> USE DEF ServiceTypeOK, Go, Return, lan_play_free, lpVars, fileVars, envVars, backVars, Waiting,
            Using, Services, Sockets
<1>1. CASE WaitGate
  <2>1. CASE allowed /\ Go("net") /\ restart_count' = 0 /\ UNCHANGED <<reload, fresh>>
    BY <1>1, <2>1, Zenon DEF WaitGate
  <2>2. CASE reload' = FALSE /\ fresh' = TRUE /\ UNCHANGED <<main, restart_count>>
    BY <1>1, <2>2, Zenon DEF WaitGate
  <2> QED  BY <1>1, <2>1, <2>2, Zenon DEF WaitGate
<1>2. CASE runtime_network_init  BY <1>2, ZenonT(30) DEF runtime_network_init
<1>3. CASE WaitWifi  BY <1>3 DEF WaitWifi
<1>4. CASE nx_config_load  BY <1>4, Zenon DEF nx_config_load
<1>5. CASE WaitConfig  BY <1>5, ZenonT(30) DEF WaitConfig
<1>6. CASE AllocLp  BY <1>6, ZenonT(30) DEF AllocLp
<1>7. CASE ResolveRelay  BY <1>7, ZenonT(30) DEF ResolveRelay
<1>8. CASE SetupLp  BY <1>8, ZenonT(30) DEF SetupLp
<1>9. CASE tap_init  BY ZenonT(40), <1>9 DEF tap_init
<1>10. CASE lan_client_init  BY <1>10, ZenonT(30) DEF lan_client_init
<1>11. CASE ldn_bridge_init  BY <1>11, ZenonT(30) DEF ldn_bridge_init
<1>12. CASE StartThreads  BY <1>12 DEF StartThreads
<1>13. CASE ServiceLoop  BY <1>13, ZenonT(30) DEF ServiceLoop
<1>14. CASE CloseSockets  BY <1>14, Zenon DEF CloseSockets
<1>15. CASE JoinAndFree  BY <1>15, Zenon DEF JoinAndFree
<1>16. CASE MainBackoff
  <2>1. restart_count' = restart_count + 1 /\ restart_count' \in Nat
    BY <1>16 DEF MainBackoff
  <2>2. delay' \in 0 .. 60
    BY <1>16, <2>1, DelayBounded, Zenon DEF MainBackoff
  <2>3. main' = "gate" /\ fresh' = FALSE /\ UNCHANGED <<services, cfg, lpVars, fileVars, envVars>>
    BY <1>16, Zenon DEF MainBackoff
  <2> QED  BY ONLY ServiceTypeOK, <2>1, <2>2, <2>3, Zenon
<1>17. ASSUME NEW t \in Threads, ThreadExits(t) PROVE ServiceTypeOK'
  BY <1>17 DEF ThreadExits
<1>18. ASSUME NEW t \in Threads, NetworkDown(t) PROVE ServiceTypeOK'
  BY ZenonT(40), <1>18 DEF NetworkDown
<1>19. CASE SaveBegins  BY <1>19 DEF SaveBegins
<1>20. CASE SaveEnds  BY <1>20 DEF SaveEnds
<1>21. CASE trigger_reload  BY <1>21 DEF trigger_reload
<1>22. CASE AppClosed  BY <1>22 DEF AppClosed
<1>23. CASE GateChange
  <2>1. allowed' \in BOOLEAN
    BY <1>23, Zenon DEF GateChange
  <2>2. UNCHANGED <<main, wifi, services, cfg, lpVars, fileVars, backVars>>
    BY <1>23, Zenon DEF GateChange
  <2> QED  BY ONLY ServiceTypeOK, <2>1, <2>2
<1>24. CASE WifiChange
  <2>1. wifi' \in BOOLEAN
    BY <1>24, Zenon DEF WifiChange
  <2>2. UNCHANGED <<main, allowed, services, cfg, lpVars, fileVars, backVars>>
    BY <1>24, Zenon DEF WifiChange
  <2> QED  BY ONLY ServiceTypeOK, <2>1, <2>2
<1>25. CASE UNCHANGED serviceVars  BY <1>25 DEF serviceVars
<1> QED
  BY <1>1, <1>2, <1>3, <1>4, <1>5, <1>6, <1>7, <1>8, <1>9, <1>10, <1>11, <1>12, <1>13, <1>14,
     <1>15, <1>16, <1>17, <1>18, <1>19, <1>20, <1>21, <1>22, <1>23, <1>24, <1>25, ZenonT(30)
  DEF ServiceNext, Main, run_service, HbApp

(* What the run holds at each point is as Held says after every step.      *)
LEMMA HeldNext == ServiceTypeOK /\ Held /\ [ServiceNext]_serviceVars => Held'
<1> SUFFICES ASSUME ServiceTypeOK, Held, [ServiceNext]_serviceVars PROVE Held'
  BY Zenon
<1> USE DEF Held, Go, Return, lan_play_free, lpVars, WithLp, WithSockets, WithThreads
<1>1. CASE WaitGate  BY <1>1, Zenon DEF WaitGate
<1>2. CASE runtime_network_init  BY <1>2, Zenon DEF runtime_network_init
<1>3. CASE WaitWifi  BY <1>3, Zenon DEF WaitWifi
<1>4. CASE nx_config_load  BY <1>4, Zenon DEF nx_config_load
<1>5. CASE WaitConfig  BY <1>5, Zenon DEF WaitConfig
<1>6. CASE AllocLp  BY <1>6 DEF AllocLp
<1>7. CASE ResolveRelay  BY <1>7, Zenon DEF ResolveRelay
<1>8. CASE SetupLp  BY <1>8, Zenon DEF SetupLp
<1>9. CASE tap_init  BY <1>9, Zenon DEF tap_init
<1>10. CASE lan_client_init  BY <1>10, Zenon DEF lan_client_init
<1>11. CASE ldn_bridge_init  BY <1>11, Zenon DEF ldn_bridge_init
<1>12. CASE StartThreads  BY <1>12, Zenon DEF StartThreads
<1>13. CASE ServiceLoop  BY <1>13, Zenon DEF ServiceLoop
<1>14. CASE CloseSockets  BY <1>14, Zenon DEF CloseSockets
<1>15. CASE JoinAndFree  BY <1>15, Zenon DEF JoinAndFree
<1>16. CASE MainBackoff  BY <1>16, Zenon DEF MainBackoff
<1>17. ASSUME NEW t \in Threads, ThreadExits(t) PROVE Held'
  BY <1>17, Zenon DEF ThreadExits, ServiceTypeOK
<1>18. ASSUME NEW t \in Threads, NetworkDown(t) PROVE Held'
  BY <1>18, Zenon DEF NetworkDown
<1>19. CASE HbApp  BY <1>19 DEF HbApp, SaveBegins, SaveEnds, trigger_reload, AppClosed
<1>20. CASE GateChange  BY <1>20, Zenon DEF GateChange
<1>21. CASE WifiChange  BY <1>21, Zenon DEF WifiChange
<1>22. CASE UNCHANGED serviceVars  BY <1>22, Zenon DEF serviceVars
<1> QED
  BY <1>1, <1>2, <1>3, <1>4, <1>5, <1>6, <1>7, <1>8, <1>9, <1>10, <1>11, <1>12, <1>13, <1>14,
     <1>15, <1>16, <1>17, <1>18, <1>19, <1>20, <1>21, <1>22, ZenonT(30)
  DEF ServiceNext, Main, run_service

(* The files stay consistent with what the application has done, and a     *)
(* reload that matters is still to be seen, after every step.              *)
LEMMA FilesNext == ServiceTypeOK /\ Files /\ [ServiceNext]_serviceVars => Files'
<1> SUFFICES ASSUME ServiceTypeOK, Files, [ServiceNext]_serviceVars PROVE Files'
  BY Zenon
<1> USE DEF Files, NoReloadLost, ServiceTypeOK, Go, Return, fileVars, Waiting, Using
<1>1. CASE WaitGate  BY <1>1, Zenon DEF WaitGate
<1>2. CASE runtime_network_init  BY <1>2, Zenon DEF runtime_network_init
<1>3. CASE WaitWifi  BY <1>3, Zenon DEF WaitWifi
<1>4. CASE nx_config_load  BY <1>4 DEF nx_config_load
<1>5. CASE WaitConfig  BY <1>5, Zenon DEF WaitConfig
<1>6. CASE AllocLp  BY <1>6, Zenon DEF AllocLp
<1>7. CASE ResolveRelay  BY <1>7, Zenon DEF ResolveRelay
<1>8. CASE SetupLp  BY <1>8, Zenon DEF SetupLp
<1>9. CASE tap_init  BY <1>9, Zenon DEF tap_init
<1>10. CASE lan_client_init  BY <1>10, Zenon DEF lan_client_init
<1>11. CASE ldn_bridge_init  BY <1>11, Zenon DEF ldn_bridge_init
<1>12. CASE StartThreads  BY <1>12, Zenon DEF StartThreads
<1>13. CASE ServiceLoop  BY <1>13, Zenon DEF ServiceLoop
<1>14. CASE CloseSockets  BY <1>14, Zenon DEF CloseSockets
<1>15. CASE JoinAndFree  BY <1>15, Zenon DEF JoinAndFree
<1>16. CASE MainBackoff  BY <1>16, Zenon DEF MainBackoff
<1>17. ASSUME NEW t \in Threads, ThreadExits(t) \/ NetworkDown(t) PROVE Files'
  BY <1>17 DEF ThreadExits, NetworkDown
<1>18. CASE SaveBegins  BY <1>18, Zenon DEF SaveBegins
<1>19. CASE SaveEnds  BY <1>19 DEF SaveEnds
<1>20. CASE trigger_reload  BY <1>20 DEF trigger_reload
<1>21. CASE AppClosed  BY <1>21, Zenon DEF AppClosed
<1>22. CASE GateChange \/ WifiChange  BY <1>22, Zenon DEF GateChange, WifiChange
<1>23. CASE UNCHANGED serviceVars  BY <1>23, Zenon DEF serviceVars
<1> QED
  BY <1>1, <1>2, <1>3, <1>4, <1>5, <1>6, <1>7, <1>8, <1>9, <1>10, <1>11, <1>12, <1>13, <1>14,
     <1>15, <1>16, <1>17, <1>18, <1>19, <1>20, <1>21, <1>22, <1>23, ZenonT(30)
  DEF ServiceNext, Main, run_service, HbApp
-----------------------------------------------------------------------------
(* Every reachable state satisfies the inductive invariant.                *)
LEMMA Inductive == ServiceSpec => []ServiceInv
<1>1. ServiceInv /\ [ServiceNext]_serviceVars => ServiceInv'
  BY TypeNext, HeldNext, FilesNext, Zenon DEF ServiceInv, Files
<1> QED  BY InitService, <1>1, PTL DEF ServiceSpec

(* Whichever early return or cleanup ended a run of run_service, it left   *)
(* no socket, thread or context behind.                                    *)
THEOREM RunReleasesAll == ServiceSpec => []NothingHeldWhileWaiting
<1>1. ServiceInv => NothingHeldWhileWaiting
  BY Zenon DEF ServiceInv, Held, NothingHeldWhileWaiting, Waiting, WithLp, WithSockets, WithThreads
<1> QED  BY Inductive, <1>1, PTL

(* No background thread runs after lan_play_free has freed its context.    *)
THEOREM ThreadsKeepLp == ServiceSpec => []ThreadsHaveLp
<1>1. ServiceInv => ThreadsHaveLp
  BY Zenon DEF ServiceInv, Held, ThreadsHaveLp, WithLp, WithThreads
<1> QED  BY Inductive, <1>1, PTL

(* No reload that trigger_reload asked for is lost, however saves, loads   *)
(* and closing the application interleave.                                 *)
THEOREM ReloadSeen == ServiceSpec => []NoReloadLost
<1>1. ServiceInv => NoReloadLost
  BY Zenon DEF ServiceInv, Files
<1> QED  BY Inductive, <1>1, PTL
=============================================================================
