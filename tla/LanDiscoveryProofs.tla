------------------------- MODULE LanDiscoveryProofs -------------------------
(***************************************************************************)
(* What holds of LANDiscovery for any number of stations, connections,     *)
(* networks and calls.                                                     *)
(*                                                                         *)
(* The properties rest on four inductive invariants, each on the ones      *)
(* before it: MtuInv, the saved MTU; OwnedInv, the connections and the     *)
(* stations that own them; JoinInv, what the worker may still have in its  *)
(* hands in each state of the game's calls; and HostInv with WakeInv, the  *)
(* network information against the stations and the game's event.          *)
(***************************************************************************)
EXTENDS LanDiscovery, FiniteSetTheorems, WellFoundedInduction, TLAPS

(* Time limits of the provers, for the many facts in scope.                *)
USE SMTT(20), ZenonT(30)

USE LanDiscoveryAssumption

(* ---- The MTU ---------------------------------------------------------- *)

(* What is saved while a worker lives is what the MTU was before it.       *)
MtuInv ==
    /\ mtu \in [now : {"own", "1500"}, original : {"own", "1500"}]
    /\ worker = "none" => mtu.now = "own" \/ failed
    /\ worker # "none" => mtu.original = "own" \/ failed

(* Before the first initialize nothing is saved.                           *)
LEMMA MtuInit == Init => MtuInv
BY DEF Init, MtuInv

(* Only initialize and finalize save and restore the MTU; every step keeps *)
(* MtuInv.                                                                 *)
LEMMA MtuNext ==
  ASSUME MtuInv, [Next]_vars
  PROVE  MtuInv'
<1>1. CASE initialize
  BY <1>1 DEF MtuInv, initialize, setState
<1>2. CASE finalizeEnd
  BY <1>2 DEF MtuInv, finalizeEnd
<1>3. CASE WorkerStarts \/ WorkerStops \/ PollFails
  BY <1>3, Zenon DEF MtuInv, WorkerStarts, WorkerStops, PollFails
<1>4. CASE UNCHANGED <<worker, mtu, failed>>
  BY <1>4, Zenon DEF MtuInv
<1>5. CASE \/ finalize \/ createNetwork \/ setAdvertiseData \/ connect \/ disconnect
           \/ GameWakes \/ getNetworkInfo \/ createNetworkUpdate \/ connectEnd
  BY <1>4, <1>5, Zenon DEF finalize, createNetwork, setAdvertiseData, connect, disconnect,
     GameWakes, getNetworkInfo, createNetworkUpdate, connectEnd, lifeVars
<1>6. CASE destroyNetwork \/ openAccessPoint \/ closeAccessPoint \/ openStation \/ closeStation
  BY <1>4, <1>6, Zenon DEF destroyNetwork, openAccessPoint, closeAccessPoint, openStation,
     closeStation, resetRole, lifeVars
<1>7. CASE \/ Poll \/ onReadPacket \/ onSyncNetwork \/ onTcpClose \/ onUdpClose
           \/ HostSyncs \/ HostCloses
  BY <1>4, <1>7, Zenon DEF Poll, onReadPacket, onSyncNetwork, onTcpClose, onUdpClose,
     HostSyncs, HostCloses, lifeVars
<1>8. CASE \E c \in Conns : onAccept(c) \/ PeerConnects(c) \/ PeerLeaves(c)
  BY <1>4, <1>8, Zenon DEF onAccept, PeerConnects, PeerLeaves, lifeVars
<1>9. CASE (\E i \in Slots : onRead(i) \/ onClose(i)) \/ \E t \in Threads : UpdateEnd(t)
  BY <1>4, <1>9, Zenon DEF onRead, onClose, UpdateEnd, lifeVars
<1>10. CASE UNCHANGED vars
  BY <1>4, <1>10, Zenon DEF vars, lifeVars
<1> QED
  BY <1>1, <1>2, <1>3, <1>5, <1>6, <1>7, <1>8, <1>9, <1>10, Zenon
     DEF Next, Game, Worker, IpcGoesOn, Threads

(* LANDiscovery::finalize gives the console back the MTU that initialize   *)
(* saved, over any number of runs, unless a call to nifm failed.           *)
THEOREM MtuIsRestored == Spec => []MtuRestored
<1>1. MtuInv => MtuRestored
  BY Zenon DEF MtuInv, MtuRestored
<1>2. MtuInv /\ [Next]_vars => MtuInv'
  BY MtuNext, Zenon
<1> QED  BY <1>1, <1>2, MtuInit, PTL DEF Spec

(* ---- The connections and the stations --------------------------------- *)

IsLink(k) ==
    k \in [host : {None, "backlog", "slot", "closed"}, open : BOOLEAN, up : BOOLEAN,
           last : {k.last}]

Stations == [status : {"Disconnected", "Connect", "Connected"}, conn : Conns \cup {None}]

(* A station has a connection exactly when it is linked, no two the same,  *)
(* and a connection is some station's exactly when it was accepted.        *)
OwnedInv ==
    /\ conn = [c \in Conns |-> conn[c]] /\ \A c \in Conns : IsLink(conn[c])
    /\ stations \in [Slots -> Stations]
    /\ \A i \in Slots : stations[i].status = "Disconnected" <=> stations[i].conn = None
    /\ \A i, j \in Slots : stations[i].conn = stations[j].conn /\ i # j => stations[i].conn = None
    /\ NoConnectionLeaks

(* At the start no station and no connection is in use.                    *)
LEMMA OwnedInit == Init => OwnedInv
BY DEF Init, OwnedInv, IsLink, Stations, NoStation, NoLink, None, NoConnectionLeaks

(* Closing either end of a link leaves a link.                             *)
LEMMA LinkFields ==
  ASSUME NEW k, IsLink(k)
  PROVE  /\ IsLink(CloseHostEnd(k)) /\ CloseHostEnd(k).host \in {None, "closed"}
         /\ IsLink(ClosePeerEnd(k)) /\ ~ClosePeerEnd(k).open
         /\ k.host \in {"slot", "backlog"} => ClosePeerEnd(k).host = k.host
         /\ k.host # "slot" => ClosePeerEnd(k).host # "slot"
BY Zenon DEF IsLink, CloseHostEnd, ClosePeerEnd, Tidy, NoLink, None

(* Stations that stay keep what they own when accepted links stay so.      *)
LEMMA SameOwners ==
  ASSUME OwnedInv, UNCHANGED stations,
         conn' = [c \in Conns |-> conn'[c]],
         \A c \in Conns : IsLink(conn'[c]) /\ (conn'[c].host = "slot" <=> conn[c].host = "slot")
  PROVE  OwnedInv'
<1>1. Slots' = Slots
  BY Zenon DEF Slots
<1>2. \A c \in Conns : IsLink(conn[c])'
  BY Zenon DEF IsLink
<1> QED  BY <1>1, <1>2, Zenon DEF OwnedInv, NoConnectionLeaks

(* Closing the TCP socket drops the connections that wait in its backlog,  *)
(* and none that a station owns.                                           *)
LEMMA CloseTcpOwned ==
  ASSUME OwnedInv, UNCHANGED stations, NEW new, CloseTcp(new)
  PROVE  OwnedInv'
<1>1. ASSUME NEW c \in Conns
      PROVE  IsLink(conn'[c]) /\ (conn'[c].host = "slot" <=> conn[c].host = "slot")
  BY <1>1, LinkFields, Zenon DEF CloseTcp, OwnedInv, None
<1>2. conn' = [c \in Conns |-> conn'[c]]
  BY Zenon DEF CloseTcp
<1> QED  BY <1>1, <1>2, SameOwners, Zenon

(* resetStations with the socket's close leaves no station a connection,   *)
(* and no connection accepted.                                             *)
LEMMA CloseAllOwned ==
  ASSUME OwnedInv, CloseAll
  PROVE  OwnedInv'
<1>1. ASSUME NEW c \in Conns
      PROVE  IsLink(conn'[c]) /\ conn'[c].host # "slot"
  BY <1>1, LinkFields, Zenon DEF CloseAll, OwnedInv, None
<1>2. conn' = [c \in Conns |-> conn'[c]]
  BY Zenon DEF CloseAll
<1>3. \A c \in Conns : IsLink(conn[c])'
  BY <1>1, Zenon DEF IsLink
<1>4. stations' \in [Slots -> Stations] /\ \A i \in Slots : stations'[i] = NoStation
  BY Zenon DEF CloseAll, NoStation, Stations
<1>5. Slots' = Slots /\ Stations' = Stations
  BY Zenon DEF Slots, Stations
<1> QED  BY <1>1, <1>2, <1>3, <1>4, <1>5 DEF OwnedInv, NoConnectionLeaks, NoStation, None

(* Sending the network information changes no owner.                       *)
LEMMA SyncOwned ==
  ASSUME OwnedInv, UNCHANGED stations, NEW info, conn' = SyncNetwork(info)
  PROVE  OwnedInv'
<1>1. ASSUME NEW c \in Conns
      PROVE  IsLink(conn'[c]) /\ (conn'[c].host = "slot" <=> conn[c].host = "slot")
  BY <1>1, ZenonT(30) DEF SyncNetwork, OwnedInv, IsLink
<1>2. conn' = [c \in Conns |-> conn'[c]]
  BY Zenon DEF SyncNetwork
<1> QED  BY <1>1, <1>2, SameOwners, Zenon

(* A set of numbers that is not empty has a least member.                  *)
LEMMA Least ==
  ASSUME NEW S, S \subseteq Nat, S # {}
  PROVE  \E i \in S : \A j \in S : i <= j
<1> DEFINE R == OpToRel(<, Nat)
<1>1. IsWellFoundedOn(R, Nat)
  BY NatLessThanWellFounded, Zenon
<1>2. \A x, y \in Nat : x < y => <<x, y>> \in R
  BY Zenon DEF OpToRel
<1> HIDE DEF R
<1>3. PICK i \in S : \A j \in S : <<j, i>> \notin R
  BY <1>1, WFMin, Zenon
<1>4. ASSUME NEW j \in S PROVE i <= j
  <2>1. ~(j < i)
    BY <1>2, <1>3, Zenon
  <2> QED  BY <2>1
<1> QED  BY <1>4, Zenon

(* The station that onConnect links is a free one.                         *)
LEMMA FirstFree ==
  ASSUME Free # {}
  PROVE  (CHOOSE i \in Free : \A j \in Free : i <= j) \in Free
<1>1. Free \subseteq Nat
  BY DEF Free, Slots
<1> QED  BY <1>1, Least, Zenon

(* An accepted connection becomes a free station's, or is closed at once   *)
(* when there is none; no other station changes.                           *)
LEMMA AcceptOwned ==
  ASSUME OwnedInv, NEW c \in Conns, onAccept(c)
  PROVE  /\ OwnedInv'
         /\ \A i \in Slots : \/ stations'[i] = stations[i]
                              \/ /\ stations[i].status = "Disconnected"
                                 /\ stations'[i].status = "Connect"
<1>1. CASE Free = {}
  <2>1. ASSUME NEW d \in Conns
        PROVE  IsLink(conn'[d]) /\ (conn'[d].host = "slot" <=> conn[d].host = "slot")
    <3>1. conn[c].host = "backlog" /\ conn'[d] = IF d = c THEN CloseHostEnd(conn[d]) ELSE conn[d]
      BY <1>1, Zenon DEF onAccept, Accepts, OwnedInv
    <3> QED  BY <3>1, LinkFields DEF OwnedInv, None
  <2>2. conn' = [d \in Conns |-> conn'[d]] /\ UNCHANGED stations
    BY <1>1, Zenon DEF onAccept, OwnedInv
  <2> QED  BY <2>1, <2>2, SameOwners, Zenon
<1>2. CASE Free # {}
  <2> DEFINE s == CHOOSE i \in Free : \A j \in Free : i <= j
  <2>1. /\ s \in Slots /\ stations[s].status = "Disconnected"
        /\ stations[s].conn = None
    BY <1>2, FirstFree, Zenon DEF Free, OwnedInv
  <2>2. /\ conn' = [conn EXCEPT ![c].host = "slot"]
        /\ stations' = [stations EXCEPT ![s] = [status |-> "Connect", conn |-> c]]
        /\ conn[c].host = "backlog"
    BY <1>2, Zenon DEF onAccept, Accepts
  <2> HIDE DEF s
  <2>3. \A i \in Slots : stations[i].conn # c
    BY <2>2, Zenon DEF OwnedInv, NoConnectionLeaks
  <2>4. /\ stations' \in [Slots -> Stations]
        /\ stations'[s] = [status |-> "Connect", conn |-> c]
        /\ \A i \in Slots : i # s => stations'[i] = stations[i]
    BY <2>1, <2>2, Zenon DEF OwnedInv, Stations
  <2>5. /\ conn' = [d \in Conns |-> conn'[d]]
        /\ \A d \in Conns : IsLink(conn[d])'
        /\ conn'[c].host = "slot"
        /\ \A d \in Conns : d # c => conn'[d] = conn[d]
    BY <2>2 DEF OwnedInv, IsLink
  <2>6. Slots' = Slots /\ Stations' = Stations /\ c # None
    BY Zenon DEF Slots, Stations, None
  <2>7. NoConnectionLeaks'
    <3>1. ASSUME NEW d \in Conns, d # c
          PROVE  (\E i \in Slots : stations'[i].conn = d) <=> \E i \in Slots : stations[i].conn = d
      <4>1. d # None /\ stations'[s].conn # d /\ stations[s].conn # d
        BY <2>1, <2>4, <3>1 DEF None
      <4> QED  BY <2>4, <4>1, Zenon
    <3>2. \E i \in Slots : stations'[i].conn = c
      BY <2>1, <2>4
    <3>3. \A d \in Conns : conn'[d].host = "slot" <=> \E i \in Slots : stations'[i].conn = d
      BY <2>5, <3>1, <3>2, Zenon DEF OwnedInv, NoConnectionLeaks
    <3> QED  BY <2>6, <3>3, Zenon DEF NoConnectionLeaks
  <2>8. \A i \in Slots : stations'[i].status = "Disconnected" <=> stations'[i].conn = None
    BY <2>1, <2>4, <2>6 DEF OwnedInv
  <2>9. \A i, j \in Slots : stations'[i].conn = stations'[j].conn /\ i # j
                             => stations'[i].conn = None
    BY <2>1, <2>3, <2>4, <2>6 DEF OwnedInv
  <2> QED  BY <2>1, <2>4, <2>5, <2>6, <2>7, <2>8, <2>9 DEF OwnedInv
<1> QED  BY <1>1, <1>2, Zenon

(* A station's first data turns it connected; its connection stays its     *)
(* own.                                                                    *)
LEMMA ReadOwned ==
  ASSUME OwnedInv, NEW i \in Slots, onRead(i)
  PROVE  OwnedInv'
<1>1. stations[i].conn \in Conns
  BY Zenon DEF onRead, OwnedInv, Stations
<1>2. ASSUME NEW c \in Conns
      PROVE  IsLink(conn[c])' /\ (conn'[c].host = "slot" <=> conn[c].host = "slot")
  <2>1. conn'[c] = IF c = stations[i].conn THEN [conn[c] EXCEPT !.up = FALSE] ELSE conn[c]
    BY <1>1, Zenon DEF onRead, OwnedInv
  <2>2. IsLink(conn[c])
    BY Zenon DEF OwnedInv
  <2> QED  BY <2>1, <2>2, Zenon DEF IsLink
<1>3. conn' = [c \in Conns |-> conn'[c]]
  BY Zenon DEF onRead, OwnedInv
<1>4. stations' = [stations EXCEPT ![i].status = "Connected"] /\ stations[i].conn # None
  BY Zenon DEF onRead
<1>5. /\ stations' \in [Slots -> Stations]
      /\ \A j \in Slots : stations'[j].conn = stations[j].conn
      /\ \A j \in Slots : j # i => stations'[j] = stations[j]
      /\ stations'[i].status = "Connected"
  BY <1>4 DEF OwnedInv, Stations
<1>6. Slots' = Slots /\ Stations' = Stations
  BY Zenon DEF Slots, Stations
<1>7. NoConnectionLeaks'
  BY <1>2, <1>5, <1>6 DEF OwnedInv, NoConnectionLeaks
<1> QED  BY <1>2, <1>3, <1>4, <1>5, <1>6, <1>7 DEF OwnedInv

(* A station that is reset loses its connection, which is closed.          *)
LEMMA CloseOwned ==
  ASSUME OwnedInv, NEW i \in Slots, onClose(i)
  PROVE  OwnedInv'
<1>1. /\ stations' = [stations EXCEPT ![i] = NoStation]
      /\ conn' = [c \in Conns |-> IF c = stations[i].conn THEN CloseHostEnd(conn[c]) ELSE conn[c]]
  BY Zenon DEF onClose
<1>2. \A c \in Conns : IsLink(conn'[c])
  BY <1>1, LinkFields, Zenon DEF OwnedInv
<1>3. \A c \in Conns : IsLink(conn[c])'
  BY <1>2, Zenon DEF IsLink
<1>4. \A c \in Conns : /\ c = stations[i].conn => conn'[c].host # "slot"
                       /\ c # stations[i].conn => conn'[c] = conn[c]
  BY <1>1, LinkFields DEF OwnedInv, None
<1>5. /\ stations' \in [Slots -> Stations] /\ stations'[i] = NoStation
      /\ \A j \in Slots : j # i => stations'[j] = stations[j]
  BY <1>1, Zenon DEF OwnedInv, Stations, NoStation
<1>6. Slots' = Slots /\ Stations' = Stations /\ NoStation.conn = None
      /\ NoStation.status = "Disconnected" /\ None \notin Conns
  BY Zenon DEF Slots, Stations, NoStation, None
<1>7. NoConnectionLeaks'
  BY <1>4, <1>5, <1>6 DEF OwnedInv, NoConnectionLeaks
<1>8. conn' = [c \in Conns |-> conn'[c]]
  BY <1>1, Zenon
<1> QED  BY <1>3, <1>5, <1>6, <1>7, <1>8 DEF OwnedInv

(* What the other end does to a connection changes no owner.               *)
LEMMA PeerOwned ==
  ASSUME OwnedInv, NEW c \in Conns, PeerConnects(c) \/ PeerLeaves(c)
  PROVE  OwnedInv'
<1>1. UNCHANGED stations /\ conn' = [d \in Conns |-> conn'[d]]
      /\ \A d \in Conns : d # c => conn'[d] = conn[d]
  BY Zenon DEF OwnedInv, PeerConnects, PeerLeaves
<1>2. IsLink(conn'[c]) /\ (conn'[c].host = "slot" <=> conn[c].host = "slot")
  <2>1. CASE PeerConnects(c)
    <3>1. conn'[c] = [host |-> "backlog", open |-> TRUE, up |-> TRUE, last |-> {}]
      BY <2>1, Zenon DEF OwnedInv, PeerConnects, NoLink
    <3>2. conn[c].host = None
      BY <2>1 DEF PeerConnects, NoLink
    <3> QED  BY <3>1, <3>2 DEF IsLink, None
  <2>2. CASE PeerLeaves(c)
    <3>1. conn'[c] = ClosePeerEnd(conn[c])
      BY <2>2, Zenon DEF OwnedInv, PeerLeaves
    <3> QED  BY <3>1, LinkFields DEF OwnedInv
  <2> QED  BY <2>1, <2>2, Zenon
<1>3. \A d \in Conns : IsLink(conn'[d]) /\ (conn'[d].host = "slot" <=> conn[d].host = "slot")
  BY <1>1, <1>2, Zenon DEF OwnedInv
<1> QED  BY <1>1, <1>3, SameOwners, Zenon

(* Every step keeps OwnedInv.                                              *)
LEMMA OwnedNext ==
  ASSUME OwnedInv, [Next]_vars
  PROVE  OwnedInv'
<1>1. CASE UNCHANGED <<conn, stations>>
  <2>1. conn' = [c \in Conns |-> conn'[c]] /\ UNCHANGED stations
        /\ \A c \in Conns : IsLink(conn'[c]) /\ (conn'[c].host = "slot" <=> conn[c].host = "slot")
    BY <1>1, Zenon DEF OwnedInv
  <2> QED  BY <2>1, SameOwners, Zenon
<1>2. CASE createNetwork \/ connect \/ disconnect
  BY <1>2, CloseTcpOwned, Zenon DEF createNetwork, connect, disconnect
<1>3. CASE \/ destroyNetwork \/ openAccessPoint \/ closeAccessPoint \/ openStation \/ closeStation
           \/ finalizeEnd
  BY <1>3, CloseAllOwned, Zenon DEF destroyNetwork, openAccessPoint, closeAccessPoint, openStation,
     closeStation, resetRole, finalizeEnd
<1>4. CASE \E t \in Threads : UpdateEnd(t)
  BY <1>4, SyncOwned, Zenon DEF UpdateEnd
<1>5. CASE \E c \in Conns : onAccept(c) \/ PeerConnects(c) \/ PeerLeaves(c)
  BY <1>5, AcceptOwned, PeerOwned, Zenon
<1>6. CASE \E i \in Slots : onRead(i) \/ onClose(i)
  BY <1>6, ReadOwned, CloseOwned, Zenon
<1>7. CASE \/ initialize \/ finalize \/ setAdvertiseData \/ GameWakes \/ getNetworkInfo
           \/ createNetworkUpdate \/ connectEnd \/ WorkerStarts \/ WorkerStops \/ PollFails
  BY <1>1, <1>7, Zenon DEF initialize, finalize, setAdvertiseData, GameWakes, getNetworkInfo,
     createNetworkUpdate, connectEnd, WorkerStarts, WorkerStops, PollFails, hostVars
<1>8. CASE \/ Poll \/ onReadPacket \/ onSyncNetwork \/ onTcpClose \/ onUdpClose
           \/ HostSyncs \/ HostCloses
  BY <1>1, <1>8, Zenon DEF Poll, onReadPacket, onSyncNetwork, onTcpClose, onUdpClose,
     HostSyncs, HostCloses, hostVars
<1>9. CASE UNCHANGED vars
  BY <1>1, <1>9, Zenon DEF vars, hostVars
<1> QED
  BY <1>2, <1>3, <1>4, <1>5, <1>6, <1>7, <1>8, <1>9, Zenon
     DEF Next, Game, Worker, IpcGoesOn, Threads

(* Every connection LDTcpSocket::onRead accepts is one station's, and it   *)
(* is closed when the station is reset, whichever thread resets it.        *)
THEOREM ConnectionsAreOwned == Spec => []NoConnectionLeaks
<1>1. OwnedInv => NoConnectionLeaks
  BY Zenon DEF OwnedInv
<1>2. OwnedInv /\ [Next]_vars => OwnedInv'
  BY OwnedNext, Zenon
<1> QED  BY <1>1, <1>2, OwnedInit, PTL DEF Spec

(* ---- What the worker may have in its hands ---------------------------- *)

IsInfo(x) == x \in [adv : {x.adv}, nodes : {x.nodes}, count : {x.count}]

TypedInv ==
    /\ {down, buf} \subseteq Seq(HostInfos)
    /\ hand # <<>> => \E x \in HostInfos : hand = <<x>>
    /\ upd \in [Threads -> Int]
    /\ IsInfo(networkInfo)

(* A set of stations is finite and can be counted.                         *)
LEMMA SlotsCounted ==
  ASSUME NEW S, S \subseteq Slots
  PROVE  IsFiniteSet(S) /\ Cardinality(S) \in Nat
<1>1. IsFiniteSet(Slots)
  BY FS_Interval DEF Slots
<1> QED  BY <1>1, FS_Subset, FS_CardinalityType, Zenon

(* Assigning to the fields of a network information leaves one.            *)
LEMMA InfoFields ==
  ASSUME NEW x, IsInfo(x), NEW n, NEW a, NEW k
  PROVE  /\ IsInfo([x EXCEPT !.nodes = n, !.adv = a]) /\ [x EXCEPT !.nodes = n, !.adv = a].nodes = n
         /\ IsInfo([x EXCEPT !.nodes = n]) /\ [x EXCEPT !.nodes = n].nodes = n
         /\ IsInfo([x EXCEPT !.count = k])
         /\ [x EXCEPT !.count = k].nodes = x.nodes /\ [x EXCEPT !.count = k].count = k
<1>1. IsInfo([x EXCEPT !.nodes = n, !.adv = a]) /\ [x EXCEPT !.nodes = n, !.adv = a].nodes = n
  BY Zenon DEF IsInfo
<1>2. IsInfo([x EXCEPT !.nodes = n]) /\ [x EXCEPT !.nodes = n].nodes = n
  BY Zenon DEF IsInfo
<1>3. /\ IsInfo([x EXCEPT !.count = k])
      /\ [x EXCEPT !.count = k].nodes = x.nodes /\ [x EXCEPT !.count = k].count = k
  BY Zenon DEF IsInfo
<1> QED  BY <1>1, <1>2, <1>3, Zenon

(* The first half of updateNodes counts the connected stations.            *)
LEMMA BeginTyped ==
  ASSUME TypedInv, NEW t \in Threads, NEW to, NEW adv, UpdateBegin(t, to, adv)
  PROVE  upd' \in [Threads -> Int] /\ IsInfo(networkInfo)'
<1> DEFINE up == {i \in Slots : to[i].status = "Connected"}
<1>1. Cardinality(up) \in Nat
  BY SlotsCounted, Zenon
<1>2. upd' = [upd EXCEPT ![t] = Cardinality(up)]
      /\ networkInfo' = [networkInfo EXCEPT !.nodes = up, !.adv = adv]
  BY Zenon DEF UpdateBegin
<1> HIDE DEF up
<1>3. upd' \in [Threads -> Int]
  BY <1>1, <1>2 DEF TypedInv
<1>4. IsInfo(networkInfo')
  BY <1>2, InfoFields, Zenon DEF TypedInv
<1> QED  BY <1>3, <1>4, Zenon DEF IsInfo

(* The initial state has the types of TypedInv.                            *)
LEMMA TypedInit == Init => TypedInv
BY DEF Init, TypedInv, IsInfo

(* Every step keeps the types.                                             *)
LEMMA TypedNext ==
  ASSUME TypedInv, [Next]_vars
  PROVE  TypedInv'
<1> USE DEF TypedInv
<1>0. HostInfos' = HostInfos /\ Threads' = Threads
  BY Zenon DEF HostInfos, Threads
<1>1. CASE UNCHANGED <<down, buf, hand, upd, networkInfo>>
  BY <1>0, <1>1, Zenon DEF IsInfo
<1>2. CASE createNetwork \/ connect \/ disconnect
  <2>1. down' = <<>> /\ buf' = <<>> /\ UNCHANGED <<hand, upd>>
    BY <1>2, Zenon DEF createNetwork, connect, disconnect, CloseTcp
  <2>2. IsInfo(networkInfo')
    <3>1. networkInfo' = networkInfo \/ networkInfo' = [networkInfo EXCEPT !.nodes = {}]
      BY <1>2, Zenon DEF createNetwork, connect, disconnect, viewVars
    <3>2. IsInfo([networkInfo EXCEPT !.nodes = {}])
      BY InfoFields, Zenon
    <3> QED  BY <3>1, <3>2, Zenon
  <2> QED  BY <1>0, <2>1, <2>2 DEF IsInfo
<1>3. CASE \/ destroyNetwork \/ openAccessPoint \/ closeAccessPoint \/ openStation \/ closeStation
           \/ finalizeEnd
  <2>1. down' = <<>> /\ buf' = <<>> /\ UNCHANGED <<hand, upd, networkInfo>>
    BY <1>3, Zenon DEF destroyNetwork, openAccessPoint, closeAccessPoint, openStation,
       closeStation, resetRole, finalizeEnd, CloseAll
  <2> QED  BY <1>0, <2>1 DEF IsInfo
<1>4. CASE \E t \in Threads : UpdateEnd(t)
  <2>1. PICK t \in Threads : UpdateEnd(t)
    BY <1>4, Zenon
  <2>2. /\ UNCHANGED <<down, buf, hand>> /\ upd' = [upd EXCEPT ![t] = -1]
        /\ networkInfo' = [networkInfo EXCEPT !.count = upd[t] + 1]
    BY <2>1, Zenon DEF UpdateEnd, joinVars
  <2>3. IsInfo(networkInfo')
    BY <2>2, InfoFields, Zenon
  <2> QED  BY <1>0, <2>2, <2>3 DEF IsInfo
<1>5. CASE setAdvertiseData \/ createNetworkUpdate \/ \E i \in Slots : onRead(i) \/ onClose(i)
  <2>1. /\ \E t \in Threads : \E to, adv : UpdateBegin(t, to, adv)
        /\ UNCHANGED joinVars
    BY <1>5, Zenon DEF setAdvertiseData, createNetworkUpdate, onRead, onClose, Threads
  <2>2. upd' \in [Threads -> Int] /\ IsInfo(networkInfo)'
    BY <2>1, BeginTyped, Zenon
  <2> QED  BY <1>0, <2>1, <2>2, Zenon DEF joinVars
<1>6. CASE onReadPacket
  <2>1. PICK n \in 1 .. Len(down) :
           /\ hand' = <<Head(buf \o SubSeq(down, 1, n))>>
           /\ buf' = Tail(buf \o SubSeq(down, 1, n))
           /\ down' = SubSeq(down, n + 1, Len(down))
    BY <1>6, Zenon DEF onReadPacket
  <2> DEFINE all == buf \o SubSeq(down, 1, n)
  <2>2. SubSeq(down, 1, n) \in Seq(HostInfos) /\ Len(SubSeq(down, 1, n)) = n
    BY <2>1
  <2>3. all \in Seq(HostInfos) /\ Len(all) > 0
    BY <2>1, <2>2
  <2>4. Head(all) \in HostInfos /\ Tail(all) \in Seq(HostInfos)
    <3> HIDE DEF all
    <3>1. all # <<>> /\ all \in Seq(HostInfos)
      BY <2>3
    <3> QED  BY <3>1
  <2>5. down' \in Seq(HostInfos)
    BY <2>1
  <2>6. UNCHANGED <<upd, networkInfo>>
    BY <1>6, Zenon DEF onReadPacket, viewVars
  <2> QED  BY <1>0, <2>1, <2>4, <2>5, <2>6, Zenon DEF IsInfo
<1>7. CASE onSyncNetwork
  <2>1. PICK x \in HostInfos : hand = <<x>>
    BY <1>0, <1>7, Zenon DEF onSyncNetwork
  <2>2. IsInfo(x) /\ networkInfo' = x
    BY <1>7, <2>1 DEF onSyncNetwork, HostInfos, IsInfo
  <2> QED  BY <1>0, <1>7, <2>2, Zenon DEF onSyncNetwork, hostVars, IsInfo
<1>8. CASE HostSyncs
  BY <1>0, <1>8 DEF HostSyncs, IsInfo, hostVars, viewVars
<1>9. CASE \/ initialize \/ finalize \/ GameWakes \/ getNetworkInfo \/ connectEnd
           \/ WorkerStarts \/ WorkerStops \/ PollFails \/ Poll \/ onTcpClose \/ onUdpClose
           \/ HostCloses \/ \E c \in Conns : onAccept(c) \/ PeerConnects(c) \/ PeerLeaves(c)
  BY <1>1, <1>9, Zenon DEF initialize, finalize, GameWakes, getNetworkInfo, connectEnd,
     WorkerStarts, WorkerStops, PollFails, Poll, onTcpClose, onUdpClose, HostCloses,
     onAccept, PeerConnects, PeerLeaves, hostVars, viewVars, joinVars
<1>10. CASE UNCHANGED vars
  BY <1>1, <1>10, Zenon DEF vars, hostVars, viewVars, joinVars
<1> QED
  BY <1>2, <1>3, <1>4, <1>5, <1>6, <1>7, <1>8, <1>9, <1>10, Zenon
     DEF Next, Game, Worker, IpcGoesOn, Threads

Off == tcp \notin {"connected", "ended"}

(* Which states the worker and the game's calls can meet each other in: a  *)
(* host has no packet of another host in its hands, a station handles no   *)
(* station's socket, and a call in the middle of its work keeps its role.  *)
JoinInv ==
    /\ worker # "runs" => PollMutexFree
    /\ down # <<>> => ~Off
    /\ hand # <<>> => ~Off \/ "packet" \in crossed
    /\ ConnectedHasLink
    /\ state = "AccessPointCreated" => hand = <<>> /\ Off
    /\ Joining \/ ~Off => \A i \in Slots : stations[i] = NoStation
    /\ state = "StationConnected" \/ hand # <<>> \/ ~Off =>
          polled \subseteq {0} /\ upd["worker"] = -1
    /\ upd["ipc"] # -1 => state \in {"AccessPoint", "AccessPointCreated", "Error"} /\ ipc = "idle"
    /\ ipc = "created" => state \in {"AccessPointCreated", "Error"} /\ event = TRUE
    /\ ipc = "sent" => state \in {"Station", "StationConnected", "Error"}

(* At the start the worker has nothing in its hands.                       *)
LEMMA JoinInit == Init => JoinInv
BY Zenon DEF Init, JoinInv, Off, Joining, ConnectedHasLink, PollMutexFree, Threads

(* The calls of the game keep JoinInv, but for the changes of role and     *)
(* updateNodes, which follow.                                              *)
LEMMA GameJoin ==
  ASSUME TypedInv, JoinInv,
         \/ initialize \/ finalize \/ createNetwork \/ connect \/ disconnect
         \/ GameWakes \/ getNetworkInfo \/ connectEnd \/ finalizeEnd
  PROVE  JoinInv'
<1> USE DEF JoinInv, Off, Joining, ConnectedHasLink, PollMutexFree
<1>0. Slots' = Slots
  BY Zenon DEF Slots
<1>1. CASE initialize
  BY <1>0, <1>1, Zenon DEF initialize, Call, setState, joinVars, hostVars, gameVars
<1>2. CASE finalize
  BY <1>0, <1>2, Zenon DEF finalize, Call, viewVars, joinVars, hostVars
<1>3. CASE createNetwork
  BY <1>0, <1>3, Zenon DEF createNetwork, Call, setState, CloseTcp, lifeVars, gameVars
<1>4. CASE connect
  BY <1>0, <1>4, Zenon DEF connect, Call, CloseTcp, lifeVars, viewVars
<1>5. CASE disconnect
  <2>1. hand # <<>> => "packet" \in crossed'
    <3>1. hand # <<>> => 1 \in 1 .. Len(hand)
      BY DEF TypedInv
    <3> QED  BY <1>5, <3>1, Zenon DEF disconnect, Crossing
  <2> QED  BY <1>0, <1>5, <2>1, Zenon DEF disconnect, Call, CloseTcp, setState, lifeVars
<1>6. CASE GameWakes
  BY <1>0, <1>6, Zenon DEF GameWakes, Call, lifeVars, joinVars, hostVars
<1>7. CASE getNetworkInfo
  BY <1>0, <1>7, Zenon DEF getNetworkInfo, lifeVars, joinVars, hostVars, viewVars
<1>8. CASE connectEnd
  BY <1>0, <1>8, Zenon DEF connectEnd, lifeVars, joinVars, hostVars
<1>9. CASE finalizeEnd
  BY <1>0, <1>9, Zenon DEF finalizeEnd, CloseAll, NoStation
<1> QED  BY <1>1, <1>2, <1>3, <1>4, <1>5, <1>6, <1>7, <1>8, <1>9, Zenon

(* A call that closes the sockets and takes another role keeps JoinInv.    *)
LEMMA RoleJoin ==
  ASSUME TypedInv, JoinInv, NEW new \in {"AccessPoint", "Initialized", "Station"}, resetRole(new)
  PROVE  JoinInv'
<1> USE DEF JoinInv, Off, Joining, ConnectedHasLink, PollMutexFree
<1>0. Slots' = Slots
  BY Zenon DEF Slots
<1>1. hand # <<>> => "packet" \in crossed'
  <2>1. hand # <<>> => 1 \in 1 .. Len(hand)
    BY DEF TypedInv
  <2> QED  BY <2>1, Zenon DEF resetRole, Crossing
<1>2. \A i \in Slots : stations'[i] = NoStation
  BY Zenon DEF resetRole, CloseAll
<1> QED  BY <1>0, <1>1, <1>2, Zenon DEF resetRole, Call, CloseAll, setState, lifeVars

(* UpdateBegin keeps what crossed says of packets, and the other thread's  *)
(* part of upd.                                                            *)
LEMMA BeginKeeps ==
  ASSUME TypedInv, NEW t \in Threads, NEW to, NEW adv, UpdateBegin(t, to, adv)
  PROVE  /\ "packet" \in crossed' <=> "packet" \in crossed
         /\ \A u \in Threads \ {t} : upd'[u] = upd[u]
         /\ upd'[t] = Cardinality({i \in Slots : to[i].status = "Connected"})
         /\ upd'[t] \in Nat /\ upd'[t] # -1
         /\ networkInfo'.nodes = {i \in Slots : to[i].status = "Connected"}
         /\ "update" \in crossed' <=> \E u \in Threads \ {t} : upd[u] # -1
<1> DEFINE up == {i \in Slots : to[i].status = "Connected"}
<1>1. Cardinality(up) \in Nat
  BY SlotsCounted, Zenon
<1>2. /\ upd' = [upd EXCEPT ![t] = Cardinality(up)]
      /\ networkInfo' = [networkInfo EXCEPT !.nodes = up, !.adv = adv]
  BY Zenon DEF UpdateBegin
<1>3. /\ "packet" \in crossed' <=> "packet" \in crossed
      /\ "update" \in crossed' <=> \E u \in Threads \ {t} : upd[u] # -1
  <2> DEFINE others == {v \in Threads \ {t} : upd[v] # -1}
  <2>1. crossed' = (crossed \ {"update"}) \cup {"update" : u \in others}
    BY Zenon DEF UpdateBegin
  <2>2. others # {} <=> \E u \in Threads \ {t} : upd[u] # -1
    BY Zenon
  <2> HIDE DEF others
  <2>3. {"update" : u \in others} \subseteq {"update"}
        /\ ("update" \in {"update" : u \in others} <=> others # {})
    BY Zenon
  <2> QED  BY <2>1, <2>2, <2>3, Zenon
<1> HIDE DEF up
<1>4. networkInfo'.nodes = up
  BY <1>2, Zenon DEF TypedInv, IsInfo
<1>5. upd'[t] = Cardinality(up) /\ \A u \in Threads \ {t} : upd'[u] = upd[u]
  BY <1>2, Zenon DEF TypedInv
<1> QED  BY <1>1, <1>3, <1>4, <1>5 DEF up

(* The first half of updateNodes, on either thread, keeps JoinInv.         *)
LEMMA BeginJoin ==
  ASSUME TypedInv, OwnedInv, JoinInv,
         setAdvertiseData \/ createNetworkUpdate \/ \E i \in Slots : onRead(i) \/ onClose(i)
  PROVE  JoinInv'
<1> USE DEF JoinInv, Off, Joining, ConnectedHasLink, PollMutexFree
<1>0. Slots' = Slots
  BY Zenon DEF Slots
<1>1. CASE setAdvertiseData \/ createNetworkUpdate
  <2>1. PICK adv : UpdateBegin("ipc", stations, adv)
    BY <1>1, Zenon DEF setAdvertiseData, createNetworkUpdate
  <2>2. ("packet" \in crossed' <=> "packet" \in crossed) /\ upd'["worker"] = upd["worker"]
    BY <2>1, BeginKeeps, Zenon DEF Threads
  <2>3. UNCHANGED <<state, event, worker, tcp, down, hand, stations, polled>>
    BY <1>1, Zenon DEF setAdvertiseData, createNetworkUpdate, lifeVars, joinVars
  <2>4. ipc' = "idle" /\ state \in {"AccessPoint", "AccessPointCreated", "Error"}
    BY <1>1, Zenon DEF setAdvertiseData, createNetworkUpdate, Call, gameVars
  <2> QED  BY <1>0, <2>2, <2>3, <2>4, Zenon
<1>2. CASE \E i \in Slots : onRead(i) \/ onClose(i)
  <2>1. PICK i \in Slots : onRead(i) \/ onClose(i)
    BY <1>2, Zenon
  <2>2. i # 0 /\ i \in polled /\ hand = <<>> /\ polled' = polled \ {i}
    <3>1. Handles(i)
      BY <2>1, Zenon DEF onRead, onClose
    <3> QED  BY <3>1 DEF Handles, Slots
  <2>3. UNCHANGED <<state, event, ipc, worker, tcp, down, hand>>
    BY <2>1, Zenon DEF onRead, onClose, lifeVars, joinVars, gameVars
  <2>4. ~(state = "StationConnected" \/ ~Off) /\ worker = "runs"
    BY <2>2, Zenon
  <2>5. UpdateBegin("worker", stations', networkInfo.adv)
    BY <2>1, Zenon DEF onRead, onClose
  <2>6. ("packet" \in crossed' <=> "packet" \in crossed) /\ upd'["ipc"] = upd["ipc"]
    BY <2>5, BeginKeeps, Zenon DEF Threads
  <2>7. Joining => \A j \in Slots : stations'[j] = NoStation
    <3>1. CASE onRead(i)
      BY <2>1, <3>1 DEF onRead, NoStation
    <3>2. CASE onClose(i)
      BY <3>2 DEF onClose, OwnedInv
    <3> QED  BY <2>1, <3>1, <3>2, ZenonT(30)
  <2> QED  BY <1>0, <2>2, <2>3, <2>4, <2>6, <2>7, Zenon
<1> QED  BY <1>1, <1>2, Zenon

(* While no station is linked, only the TCP socket can be ready.           *)
LEMMA OnlyTcpReady ==
  ASSUME \A i \in Slots : stations[i] = NoStation
  PROVE  Ready \subseteq {0}
BY DEF Ready, NoStation, None

(* What the worker does with its sockets keeps JoinInv.                    *)
LEMMA WorkerJoin ==
  ASSUME TypedInv, OwnedInv, JoinInv,
         \/ WorkerStarts \/ WorkerStops \/ PollFails \/ Poll
         \/ onReadPacket \/ onSyncNetwork \/ onTcpClose \/ onUdpClose
         \/ (\E c \in Conns : onAccept(c)) \/ \E t \in Threads : UpdateEnd(t)
  PROVE  JoinInv'
<1> USE DEF JoinInv, Off, Joining, ConnectedHasLink, PollMutexFree
<1>0. Slots' = Slots
  BY ZenonT(30) DEF Slots
<1>1. CASE WorkerStarts \/ WorkerStops \/ PollFails
  BY <1>0, <1>1 DEF WorkerStarts, WorkerStops, PollFails, viewVars, gameVars, joinVars, hostVars
<1>2. CASE Poll
  <2>1. state = "StationConnected" \/ ~Off => polled' \subseteq {0}
    BY <1>2, OnlyTcpReady, Zenon DEF Poll
  <2> QED  BY <1>0, <1>2, <2>1, Zenon DEF Poll, viewVars, gameVars, lifeVars, joinVars
<1>3. CASE onReadPacket
  <2>1. down # <<>> /\ polled' \subseteq polled /\ polled # {}
    BY <1>3 DEF onReadPacket, Handles, TypedInv
  <2>2. UNCHANGED <<state, event, ipc, worker, tcp, stations, upd, crossed>>
    BY <1>3, Zenon DEF onReadPacket, viewVars, gameVars, lifeVars
  <2>3. state # "AccessPointCreated"
    BY <1>3, Zenon DEF onReadPacket
  <2> QED  BY <1>0, <2>1, <2>2, <2>3, Zenon
<1>4. CASE onSyncNetwork
  BY <1>0, <1>4, Zenon DEF onSyncNetwork, gameVars, lifeVars, hostVars
<1>5. CASE onTcpClose
  <2>1. polled' \subseteq polled /\ polled # {}
    BY <1>5, Zenon DEF onTcpClose, Handles
  <2> QED  BY <1>0, <1>5, <2>1, Zenon DEF onTcpClose, setState, gameVars, lifeVars, joinVars
<1>6. CASE onUdpClose
  BY <1>0, <1>6, Zenon DEF onUdpClose, setState, gameVars, lifeVars, joinVars, hostVars
<1>7. CASE \E c \in Conns : onAccept(c)
  <2>1. PICK c \in Conns : onAccept(c)
    BY <1>7, Zenon
  <2>2. polled' \subseteq polled /\ polled # {} /\ state = "AccessPointCreated"
    BY <2>1, Zenon DEF onAccept, Accepts, Handles
  <2> QED  BY <1>0, <2>1, <2>2, Zenon DEF onAccept, viewVars, gameVars, lifeVars, joinVars
<1>8. CASE \E t \in Threads : UpdateEnd(t)
  <2>1. PICK t \in Threads : UpdateEnd(t)
    BY <1>8, Zenon
  <2>2. \A u \in Threads : upd'[u] = -1 \/ upd'[u] = upd[u]
    BY <2>1 DEF UpdateEnd, TypedInv
  <2>3. upd["worker"] = -1 => upd'["worker"] = -1
    BY <2>2, Zenon DEF Threads
  <2>4. upd'["ipc"] # -1 => upd["ipc"] # -1
    BY <2>2, Zenon DEF Threads
  <2>5. event = TRUE => event' = TRUE
    BY <2>1, Zenon DEF UpdateEnd
  <2> QED  BY <1>0, <2>1, <2>3, <2>4, <2>5 DEF UpdateEnd, gameVars, lifeVars, joinVars
<1> QED  BY <1>1, <1>2, <1>3, <1>4, <1>5, <1>6, <1>7, <1>8, Zenon

(* Every step keeps JoinInv.                                               *)
LEMMA JoinNext ==
  ASSUME TypedInv, OwnedInv, JoinInv, [Next]_vars
  PROVE  JoinInv'
<1> USE DEF JoinInv, Off, Joining, ConnectedHasLink, PollMutexFree
<1>0. Slots' = Slots
  BY Zenon DEF Slots
<1>1. CASE HostSyncs \/ HostCloses \/ \E c \in Conns : PeerConnects(c) \/ PeerLeaves(c)
  BY <1>0, <1>1 DEF HostSyncs, HostCloses, PeerConnects, PeerLeaves, viewVars, gameVars,
     lifeVars, joinVars, hostVars
<1>2. CASE UNCHANGED vars
  BY <1>0, <1>2, Zenon DEF vars, viewVars, gameVars, lifeVars, joinVars, hostVars
<1>3. CASE destroyNetwork \/ openAccessPoint \/ closeAccessPoint \/ openStation \/ closeStation
  BY <1>3, RoleJoin, Zenon
     DEF destroyNetwork, openAccessPoint, closeAccessPoint, openStation, closeStation
<1> HIDE DEF JoinInv
<1>4. CASE Next
  BY <1>1, <1>3, <1>4, GameJoin, BeginJoin, WorkerJoin, Zenon
     DEF Next, Game, Worker, IpcGoesOn, Threads
<1> QED  BY <1>2, <1>4, Zenon

(* A station that LANDiscovery::getState reports as connected has its TCP  *)
(* connection, but for the packet of onSyncNetwork that a call of the game *)
(* crossed: for any number of packets and calls.                           *)
THEOREM ConnectedStationsHaveLinks == Spec => []ConnectedHasLink
<1> DEFINE IInv == TypedInv /\ OwnedInv /\ JoinInv
<1>1. Init => IInv
  BY TypedInit, OwnedInit, JoinInit, Zenon
<1>2. IInv /\ [Next]_vars => IInv'
  BY TypedNext, OwnedNext, JoinNext, Zenon
<1>3. IInv => ConnectedHasLink
  BY Zenon DEF JoinInv
<1> QED  BY <1>1, <1>2, <1>3, PTL DEF Spec

(* ---- The network information of a host -------------------------------- *)

Hosting == state = "AccessPointCreated" /\ ipc # "created"

(* The connected nodes are up to date from the first half of updateNodes   *)
(* on; its second half brings the count and the stations up to date, with  *)
(* the count of the only thread that is in it.                             *)
HostInv ==
    /\ Hosting => networkInfo.nodes = ConnectedSlots
    /\ Hosting /\ "update" \notin crossed =>
          \A t \in Threads : upd[t] # -1 => upd[t] = Cardinality(ConnectedSlots)
    /\ NodesMatchStations
    /\ InfoReachesStations

(* At the start there is no host.                                          *)
LEMMA HostInit == Init => HostInv
BY Zenon DEF Init, HostInv, Hosting, NodesMatchStations, InfoReachesStations

(* HostInv asks nothing of a console that is no host.                      *)
LEMMA NotHosting ==
  ASSUME ~Hosting'
  PROVE  HostInv'
BY Zenon DEF HostInv, Hosting, NodesMatchStations, InfoReachesStations

(* A step that leaves the connected stations and what they were sent.      *)
LEMMA SameHost ==
  ASSUME OwnedInv, HostInv, Hosting' => Hosting,
         UNCHANGED <<networkInfo, upd, crossed>>,
         ConnectedSlots' = ConnectedSlots,
         \A i \in ConnectedSlots :
            /\ stations'[i] = stations[i]
            /\ conn'[stations[i].conn].open =>
                  /\ conn[stations[i].conn].open
                  /\ conn'[stations[i].conn].last = conn[stations[i].conn].last
  PROVE  HostInv'
<1>1. Threads' = Threads /\ (HostIdle' <=> HostIdle)
  BY Zenon DEF HostIdle, Threads
<1>2. CASE Hosting'
  <2>1. Hosting
    BY <1>2, Zenon
  <2>2. NodesMatchStations'
    BY <1>1, <2>1, Zenon DEF HostInv, Hosting, NodesMatchStations
  <2>3. InfoReachesStations'
    BY <1>1, <2>1 DEF HostInv, Hosting, InfoReachesStations
  <2> QED  BY <1>1, <2>1, <2>2, <2>3, Zenon DEF HostInv
<1> QED  BY <1>2, NotHosting, Zenon

(* The first half of updateNodes makes the nodes those of the connected    *)
(* stations.                                                               *)
LEMMA BeginHost ==
  ASSUME TypedInv, NEW t \in Threads, NEW adv, UpdateBegin(t, stations', adv)
  PROVE  HostInv' /\ networkInfo'.nodes = ConnectedSlots'
<1>1. /\ \A u \in Threads \ {t} : upd'[u] = upd[u]
      /\ upd'[t] = Cardinality({i \in Slots : stations'[i].status = "Connected"})
      /\ upd'[t] # -1
      /\ networkInfo'.nodes = {i \in Slots : stations'[i].status = "Connected"}
      /\ "update" \in crossed' <=> \E u \in Threads \ {t} : upd[u] # -1
  BY BeginKeeps
<1>2. ConnectedSlots' = {i \in Slots : stations'[i].status = "Connected"}
  BY Zenon DEF ConnectedSlots, Slots
<1>3. ~HostIdle' /\ Threads' = Threads
  BY <1>1, Zenon DEF HostIdle, Threads
<1>4. NodesMatchStations' /\ InfoReachesStations'
  BY <1>3, Zenon DEF NodesMatchStations, InfoReachesStations
<1>5. "update" \notin crossed' =>
        \A u \in Threads : upd'[u] # -1 => upd'[u] = Cardinality(ConnectedSlots')
  BY <1>1, <1>2, Zenon
<1> QED  BY <1>1, <1>2, <1>3, <1>4, <1>5, Zenon DEF HostInv

(* The calls of the game that change the information begin an update on    *)
(* the game's thread.                                                      *)
LEMMA CallBegins ==
  ASSUME setAdvertiseData \/ createNetworkUpdate
  PROVE  \E adv : UpdateBegin("ipc", stations', adv)
<1>1. (\E adv : UpdateBegin("ipc", stations, adv)) /\ stations' = stations
  BY Zenon DEF setAdvertiseData, createNetworkUpdate
<1> QED  BY <1>1, Zenon

(* The second half of updateNodes sends the information to every connected *)
(* station.                                                                *)
LEMMA EndHost ==
  ASSUME TypedInv, OwnedInv, HostInv, NEW t \in Threads, UpdateEnd(t)
  PROVE  HostInv' /\ UNCHANGED ConnectedSlots /\ networkInfo'.nodes = networkInfo.nodes
<1>1. /\ UNCHANGED <<state, ipc, stations, crossed>> /\ conn' = SyncNetwork(networkInfo')
      /\ networkInfo' = [networkInfo EXCEPT !.count = upd[t] + 1]
      /\ upd' = [upd EXCEPT ![t] = -1] /\ upd[t] # -1
  BY Zenon DEF UpdateEnd, gameVars
<1>2. networkInfo'.nodes = networkInfo.nodes /\ networkInfo'.count = upd[t] + 1
  BY <1>1, Zenon DEF TypedInv, IsInfo
<1>3. ConnectedSlots' = ConnectedSlots /\ Threads' = Threads /\ (Hosting' <=> Hosting)
  BY <1>1, Zenon DEF ConnectedSlots, Slots, Threads, Hosting
<1>4. ASSUME NEW i \in ConnectedSlots
      PROVE  conn'[stations[i].conn].open => conn'[stations[i].conn].last = {networkInfo'}
  <2>1. stations[i].conn \in Conns
    BY <1>4, Zenon DEF OwnedInv, Stations, ConnectedSlots
  <2>2. conn[stations[i].conn].open =>
           conn'[stations[i].conn] = [conn[stations[i].conn] EXCEPT !.last = {networkInfo'}]
    BY <1>1, <1>4, <2>1, Zenon DEF SyncNetwork
  <2>3. ~conn[stations[i].conn].open => conn'[stations[i].conn] = conn[stations[i].conn]
    BY <1>1, <1>4, <2>1, Zenon DEF SyncNetwork
  <2> QED  BY <2>1, <2>2, <2>3 DEF OwnedInv, IsLink
<1>5. InfoReachesStations'
  BY <1>1, <1>3, <1>4, Zenon DEF InfoReachesStations
<1>6. Hosting /\ "update" \notin crossed =>
         /\ upd[t] = Cardinality(ConnectedSlots)
         /\ \A u \in Threads : upd'[u] # -1 => upd'[u] = Cardinality(ConnectedSlots)
  BY <1>1, Zenon DEF HostInv, TypedInv
<1>7. NodesMatchStations'
  BY <1>1, <1>2, <1>3, <1>6, Zenon DEF HostInv, Hosting, NodesMatchStations
<1> QED  BY <1>1, <1>2, <1>3, <1>5, <1>6, <1>7, Zenon DEF HostInv

(* A connection that comes or goes before its station is connected         *)
(* concerns no node.                                                       *)
LEMMA PeerHost ==
  ASSUME OwnedInv, HostInv, NEW c \in Conns, onAccept(c) \/ PeerConnects(c) \/ PeerLeaves(c)
  PROVE  HostInv' /\ UNCHANGED ConnectedSlots
<1>1. UNCHANGED <<state, ipc, networkInfo, upd, crossed>>
  BY Zenon DEF onAccept, PeerConnects, PeerLeaves, viewVars, gameVars
<1>2. \A i \in Slots : \/ stations'[i] = stations[i]
                       \/ stations[i].status = "Disconnected" /\ stations'[i].status = "Connect"
  BY AcceptOwned, Zenon DEF PeerConnects, PeerLeaves
<1>3. ConnectedSlots' = ConnectedSlots /\ \A i \in ConnectedSlots : stations'[i] = stations[i]
  BY <1>2, Zenon DEF ConnectedSlots, Slots
<1>4. \A d \in Conns : d # c => conn'[d] = conn[d]
  BY Zenon DEF onAccept, PeerConnects, PeerLeaves, OwnedInv
<1>5. \/ conn[c].host # "slot" /\ \A i \in Slots : stations[i].conn # c
      \/ ~conn'[c].open
  <2>1. CASE PeerLeaves(c)
    <3>1. conn'[c] = ClosePeerEnd(conn[c])
      BY <2>1, Zenon DEF OwnedInv, PeerLeaves
    <3> QED  BY <3>1, LinkFields DEF OwnedInv
  <2>2. CASE onAccept(c) \/ PeerConnects(c)
    <3>1. conn[c].host # "slot"
      BY <2>2 DEF onAccept, Accepts, PeerConnects, NoLink, None
    <3> QED  BY <3>1, Zenon DEF OwnedInv, NoConnectionLeaks
  <2> QED  BY <2>1, <2>2, Zenon
<1>6. ASSUME NEW i \in ConnectedSlots
      PROVE  conn'[stations[i].conn].open =>
                  /\ conn[stations[i].conn].open
                  /\ conn'[stations[i].conn].last = conn[stations[i].conn].last
  <2>1. stations[i].conn \in Conns /\ i \in Slots
    BY <1>6, Zenon DEF OwnedInv, Stations, ConnectedSlots
  <2> QED  BY <1>4, <1>5, <2>1, Zenon
<1>7. Hosting' => Hosting
  BY <1>1, Zenon DEF Hosting
<1> QED  BY <1>1, <1>3, <1>6, <1>7, SameHost, Zenon

(* Every step keeps HostInv.                                               *)
LEMMA HostNext ==
  ASSUME TypedInv, OwnedInv, JoinInv, HostInv, [Next]_vars
  PROVE  HostInv'
<1>1. ASSUME UNCHANGED <<networkInfo, upd, crossed, conn, stations>>, Hosting' => Hosting
      PROVE  HostInv'
  <2>1. ConnectedSlots' = ConnectedSlots
    BY <1>1, Zenon DEF ConnectedSlots, Slots
  <2> QED  BY <1>1, <2>1, SameHost, Zenon
<1>2. CASE createNetwork \/ connect \/ disconnect \/ finalizeEnd \/ onUdpClose
  BY <1>2, NotHosting, Zenon
     DEF createNetwork, connect, disconnect, finalizeEnd, onUdpClose, setState,
     Hosting
<1>3. CASE destroyNetwork \/ openAccessPoint \/ closeAccessPoint \/ openStation \/ closeStation
  BY <1>3, NotHosting, Zenon DEF destroyNetwork, openAccessPoint, closeAccessPoint, openStation,
     closeStation, resetRole, setState, Hosting
<1>4. CASE onSyncNetwork
  BY <1>4, NotHosting, Zenon DEF onSyncNetwork, JoinInv, Hosting
<1>5. CASE setAdvertiseData \/ createNetworkUpdate \/ \E i \in Slots : onRead(i) \/ onClose(i)
  <2>1. \E t \in Threads : \E adv : UpdateBegin(t, stations', adv)
    BY <1>5, CallBegins, Zenon DEF onRead, onClose, Threads
  <2> QED  BY <2>1, BeginHost, Zenon
<1>6. CASE \E t \in Threads : UpdateEnd(t)
  BY <1>6, EndHost, Zenon
<1>7. CASE \E c \in Conns : onAccept(c) \/ PeerConnects(c) \/ PeerLeaves(c)
  BY <1>7, PeerHost, Zenon
<1>8. CASE \/ initialize \/ finalize \/ GameWakes \/ getNetworkInfo \/ connectEnd
           \/ WorkerStarts \/ WorkerStops \/ PollFails
  BY <1>1, <1>8, Zenon
     DEF initialize, finalize, GameWakes, getNetworkInfo, connectEnd, Call, setState,
     WorkerStarts, WorkerStops, PollFails, viewVars, gameVars, hostVars, Hosting
<1>9. CASE Poll \/ onReadPacket \/ onTcpClose \/ HostSyncs \/ HostCloses
  BY <1>1, <1>9, Zenon DEF Poll, onReadPacket, onTcpClose, HostSyncs, HostCloses, setState,
     viewVars, gameVars, hostVars, Hosting
<1>10. CASE UNCHANGED vars
  BY <1>1, <1>10, Zenon DEF vars, viewVars, gameVars, hostVars, Hosting
<1> QED
  BY <1>2, <1>3, <1>4, <1>5, <1>6, <1>7, <1>8, <1>9, <1>10, ZenonT(30)
     DEF Next, Game, Worker, IpcGoesOn, Threads

(* ---- The game's event ------------------------------------------------- *)

(* Before it is read, news is either in the event or still to be found by  *)
(* isNodeStateChanged: by the update that is under way on a host, by the   *)
(* next packet on a station, whose nodes never are none.                   *)
WakeInv ==
    /\ event \in BOOLEAN
    /\ Hosting /\ upd["worker"] = -1 =>
          networkInfo.nodes = nodeLastStates \/ (event = TRUE /\ upd["ipc"] # -1)
    /\ Hosting /\ ipc = "idle" /\ event = FALSE =>
          seen = nodeLastStates \/ networkInfo.nodes # nodeLastStates
    /\ state = "StationConnected" => nodeLastStates = networkInfo.nodes \/ nodeLastStates = {}
    /\ state = "StationConnected" /\ ipc = "idle" /\ event = FALSE => seen = networkInfo.nodes
    /\ state = "StationConnected" /\ ipc = "sent" => event = TRUE

(* At the start there is no news.                                          *)
LEMMA WakeInit == Init => WakeInv
BY Zenon DEF Init, WakeInv, Hosting

(* The calls of the game lose no news: what they reset in nodeLastStates   *)
(* the event still has.                                                    *)
LEMMA GameWake ==
  ASSUME JoinInv, HostInv, WakeInv,
         \/ initialize \/ finalize \/ createNetwork \/ connect \/ disconnect
         \/ GameWakes \/ getNetworkInfo \/ connectEnd \/ finalizeEnd
         \/ \E new \in {"AccessPoint", "Initialized", "Station"} : resetRole(new)
  PROVE  WakeInv'
<1> USE DEF WakeInv, Hosting
<1>1. CASE initialize
  <2>1. UNCHANGED <<networkInfo, nodeLastStates, seen, ipc, upd>>
    BY <1>1, Zenon DEF initialize, hostVars, gameVars
  <2>2. UNCHANGED <<state, event>> \/ (state' = "Initialized" /\ event' = TRUE)
    BY <1>1, Zenon DEF initialize, setState
  <2> QED  BY <2>1, <2>2, Zenon
<1>2. CASE finalize
  BY <1>2, Zenon DEF finalize, Call, viewVars, hostVars
<1>3. CASE createNetwork
  BY <1>3, Zenon DEF createNetwork, setState
<1>4. CASE connect
  BY <1>4, Zenon DEF connect, viewVars
<1>5. CASE disconnect
  BY <1>5, Zenon DEF disconnect, setState
<1>6. CASE GameWakes
  BY <1>6, Zenon DEF GameWakes, Call, hostVars
<1>7. CASE getNetworkInfo
  BY <1>7, Zenon DEF getNetworkInfo, hostVars, viewVars
<1>8. CASE connectEnd
  BY <1>8, Zenon DEF connectEnd, hostVars, JoinInv
<1>9. CASE finalizeEnd
  BY <1>9, Zenon DEF finalizeEnd
<1>10. CASE \E new \in {"AccessPoint", "Initialized", "Station"} : resetRole(new)
  BY <1>10, Zenon DEF resetRole, setState
<1> QED  BY <1>1, <1>2, <1>3, <1>4, <1>5, <1>6, <1>7, <1>8, <1>9, <1>10, ZenonT(30)

(* A change that the first half of updateNodes makes is found in its       *)
(* second half.                                                            *)
LEMMA BeginWake ==
  ASSUME TypedInv, JoinInv, HostInv, WakeInv,
         setAdvertiseData \/ createNetworkUpdate \/ \E i \in Slots : onRead(i) \/ onClose(i)
  PROVE  WakeInv'
<1> USE DEF WakeInv, Hosting
<1>1. CASE setAdvertiseData \/ createNetworkUpdate
  <2>1. PICK adv : UpdateBegin("ipc", stations', adv)
    BY <1>1, CallBegins, Zenon
  <2>2. upd'["worker"] = upd["worker"] /\ upd'["ipc"] # -1
    BY <2>1, BeginKeeps, Zenon DEF Threads
  <2>3. networkInfo'.nodes = ConnectedSlots' /\ ConnectedSlots' = ConnectedSlots
    BY <1>1, <2>1, BeginHost, Zenon
       DEF setAdvertiseData, createNetworkUpdate, ConnectedSlots, Slots,
       Threads
  <2>4. UNCHANGED <<state, event, seen>>
    BY <1>1, Zenon DEF setAdvertiseData, createNetworkUpdate, gameVars
  <2>5. CASE setAdvertiseData
    BY <2>2, <2>3, <2>4, <2>5, Zenon DEF setAdvertiseData, Call, HostInv, gameVars
  <2>6. CASE createNetworkUpdate
    <3>1. event = TRUE /\ state # "StationConnected"
      BY <2>6, Zenon DEF createNetworkUpdate, JoinInv
    <3>2. event' = TRUE /\ state' # "StationConnected" /\ upd'["ipc"] # -1
      BY <2>2, <2>4, <3>1, Zenon
    <3> QED  BY <3>2, Zenon
  <2> QED  BY <1>1, <2>5, <2>6, Zenon
<1>2. CASE \E i \in Slots : onRead(i) \/ onClose(i)
  <2>1. PICK i \in Slots : onRead(i) \/ onClose(i)
    BY <1>2, Zenon
  <2>2. UpdateBegin("worker", stations', networkInfo.adv)
    BY <2>1, Zenon DEF onRead, onClose
  <2>3. upd'["worker"] # -1 /\ upd["worker"] = -1
    BY <2>1, <2>2, BeginKeeps, Zenon DEF Threads, onRead, onClose, Handles
  <2>4. UNCHANGED <<state, nodeLastStates, event, seen, ipc>>
    BY <2>1, Zenon DEF onRead, onClose, gameVars
  <2>5. state # "StationConnected"
    <3>1. i \in polled /\ i # 0
      BY <2>1 DEF onRead, onClose, Handles, Slots
    <3> QED  BY <3>1, ZenonT(30) DEF JoinInv
  <2> QED  BY <2>3, <2>4, <2>5, Zenon
<1> QED  BY <1>1, <1>2, Zenon

(* A packet and the second half of updateNodes set the event for every     *)
(* change.                                                                 *)
LEMMA WorkerWake ==
  ASSUME TypedInv, OwnedInv, JoinInv, HostInv, WakeInv,
         onSyncNetwork \/ onTcpClose \/ onUdpClose \/ \E t \in Threads : UpdateEnd(t)
  PROVE  WakeInv'
<1> USE DEF WakeInv, Hosting
<1>1. CASE onSyncNetwork
  <2>1. PICK x \in HostInfos : hand = <<x>>
    BY <1>1, Zenon DEF onSyncNetwork, TypedInv
  <2>2. x.nodes # {}
    <3>1. PICK n \in Networks : x = [adv |-> 0, nodes |-> n, count |-> Cardinality(n) + 1]
      BY Zenon DEF HostInfos
    <3>2. x.nodes = n /\ 1 \in n
      BY <3>1, Zenon
    <3> QED  BY <3>2, Zenon
  <2>3. networkInfo' = x /\ nodeLastStates' = x.nodes
    BY <1>1, <2>1, Zenon DEF onSyncNetwork
  <2>4. event' = (event \/ state = "Station" \/ x.nodes # nodeLastStates)
    BY <1>1, <2>1, Zenon DEF onSyncNetwork, isNodeStateChanged
  <2>5. event' \in BOOLEAN /\ (event' = FALSE <=> /\ event = FALSE /\ state # "Station"
                                                 /\ x.nodes = nodeLastStates)
    BY <2>4, Zenon
  <2>6. state # "AccessPointCreated" /\ state' # "AccessPointCreated"
    BY <1>1, Zenon DEF onSyncNetwork, JoinInv
  <2>7. UNCHANGED <<seen, ipc>> /\ (state' = "StationConnected" => Joining)
    BY <1>1, Zenon DEF onSyncNetwork, gameVars, Joining
  <2> QED  BY <2>2, <2>3, <2>5, <2>6, <2>7, Zenon DEF Joining
<1>2. CASE onTcpClose
  BY <1>2, Zenon DEF onTcpClose, setState, gameVars
<1>3. CASE onUdpClose
  BY <1>3, Zenon DEF onUdpClose, setState, gameVars, hostVars
<1>4. CASE \E t \in Threads : UpdateEnd(t)
  <2>1. PICK t \in Threads : UpdateEnd(t)
    BY <1>4, Zenon
  <2>2. networkInfo'.nodes = networkInfo.nodes /\ nodeLastStates' = networkInfo.nodes
    <3>1. [networkInfo EXCEPT !.count = upd[t] + 1].nodes = networkInfo.nodes
      BY Zenon DEF TypedInv, IsInfo
    <3> QED  BY <2>1, <3>1, Zenon DEF UpdateEnd
  <2>3. event' = (event \/ networkInfo.nodes # nodeLastStates)
    BY <2>1, <2>2, Zenon DEF UpdateEnd, isNodeStateChanged
  <2>4. event' \in BOOLEAN /\ (event' = FALSE <=> /\ event = FALSE
                                                 /\ networkInfo.nodes = nodeLastStates)
    BY <2>3, Zenon
  <2>5. UNCHANGED <<state, seen, ipc>> /\ state # "StationConnected"
    BY <2>1, Zenon DEF UpdateEnd, gameVars, JoinInv, Threads
  <2> QED  BY <2>2, <2>4, <2>5, Zenon
<1> QED  BY <1>1, <1>2, <1>3, <1>4, Zenon

(* Every step keeps WakeInv.                                               *)
LEMMA WakeNext ==
  ASSUME TypedInv, OwnedInv, JoinInv, HostInv, WakeInv, [Next]_vars
  PROVE  WakeInv'
<1>1. CASE UNCHANGED <<state, networkInfo, nodeLastStates, event, seen, ipc, upd>>
  BY <1>1, Zenon DEF WakeInv, Hosting
<1>2. CASE destroyNetwork \/ openAccessPoint \/ closeAccessPoint \/ openStation \/ closeStation
  BY <1>2, GameWake, Zenon
     DEF destroyNetwork, openAccessPoint, closeAccessPoint, openStation, closeStation
<1>3. CASE \/ WorkerStarts \/ WorkerStops \/ PollFails \/ Poll \/ onReadPacket
           \/ HostSyncs \/ HostCloses
           \/ \E c \in Conns : onAccept(c) \/ PeerConnects(c) \/ PeerLeaves(c)
  BY <1>1, <1>3, Zenon
     DEF WorkerStarts, WorkerStops, PollFails, Poll, onReadPacket, HostSyncs, HostCloses,
     onAccept, PeerConnects, PeerLeaves, viewVars, gameVars, hostVars
<1>4. CASE UNCHANGED vars
  BY <1>1, <1>4, Zenon DEF vars, viewVars, gameVars, hostVars
<1>5. CASE Next
  BY <1>2, <1>3, <1>5, GameWake, BeginWake, WorkerWake, Zenon
     DEF Next, Game, Worker, IpcGoesOn, Threads
<1> QED  BY <1>4, <1>5, Zenon

(* ---- What the game and the stations are told -------------------------- *)

LanInv == TypedInv /\ OwnedInv /\ JoinInv /\ HostInv /\ WakeInv

(* The invariants of LANDiscovery hold together in every reachable state.  *)
LEMMA LanAlways == Spec => []LanInv
<1>1. Init => LanInv
  BY TypedInit, OwnedInit, JoinInit, HostInit, WakeInit, Zenon DEF LanInv
<1>2. LanInv /\ [Next]_vars => LanInv'
  BY TypedNext, OwnedNext, JoinNext, HostNext, WakeNext, Zenon DEF LanInv
<1> QED  BY <1>1, <1>2, PTL DEF Spec

(* Once updateNodes is done, on whichever thread, isConnected of every     *)
(* node is its station's, and nodeCount is right unless the two threads    *)
(* were in updateNodes at once.                                            *)
THEOREM NodesFollowStations == Spec => []NodesMatchStations
<1>1. LanInv => NodesMatchStations
  BY Zenon DEF LanInv, HostInv
<1> QED  BY <1>1, LanAlways, PTL

(* Once updateNodes is done every connected station has been sent the      *)
(* network information as it is, also when the game's setAdvertiseData     *)
(* and the worker's onRead or onClose ran across each other.               *)
THEOREM StationsAreToldAll == Spec => []InfoReachesStations
<1>1. LanInv => InfoReachesStations
  BY Zenon DEF LanInv, HostInv
<1> QED  BY <1>1, LanAlways, PTL

(* isNodeStateChanged signals every change of the connected nodes that the *)
(* game has not read, as a host and as a station, although connect and     *)
(* createNetwork reset nodeLastStates behind the worker's back.            *)
THEOREM NoWakeupIsLost == Spec => []NoLostWakeup
<1>1. LanInv => NoLostWakeup
  <2>1. HostIdle => upd["worker"] = -1 /\ upd["ipc"] = -1
    BY Zenon DEF HostIdle, Threads
  <2> QED  BY <2>1, Zenon DEF LanInv, WakeInv, NoLostWakeup, Hosting
<1> QED  BY <1>1, LanAlways, PTL
=============================================================================
