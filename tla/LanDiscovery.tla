---------------------------- MODULE LanDiscovery ----------------------------
(***************************************************************************)
(* A console's LANDiscovery (ldn_mitm's lan_discovery.cpp): a game starts  *)
(* it, hosts a network or joins one, any number of times, and finalizes    *)
(* it.  Two threads work on it: the game's IPC calls, and the worker,      *)
(* which polls the sockets and runs their handlers.  The worker holds      *)
(* pollMutex while it handles; of the game's calls only those that make a  *)
(* socket take it.                                                         *)
(*                                                                         *)
(* updateNodes is two steps: one writes isConnected of every node, the     *)
(* other nodeCount, the SyncNetwork packets and the event; the other       *)
(* thread may run in between, as it may between the worker's recv of a     *)
(* SyncNetwork packet and its handling.  The consoles that join are the    *)
(* connections they open and close, and the host of a network this one     *)
(* joins is what it sends: information in which this console is node 1.    *)
(* Only the advertised data, the connected nodes but node 0 and the count  *)
(* are kept of it.  The game keeps to LDN's order of calls where the code  *)
(* does not ask for it: it calls connect and disconnect as a station and   *)
(* the calls of a host as one.  A recv may take several packets; one is    *)
(* handled, the others wait in the LanSocket for the next recv.            *)
(*                                                                         *)
(* A definition named Mut_X_Y is X with a slip of the kind Y; it is used   *)
(* only to see that a property notices the slip.                           *)
(***************************************************************************)
EXTENDS Integers, Sequences, FiniteSets

CONSTANTS
    NodeMax,         \* StationCountMax
    Conns,           \* names for TCP connections of other consoles
    Networks,        \* the connected nodes of the networks this one joins
    MaxAdvertise,    \* bound: calls of setAdvertiseData
    MaxQueue         \* bound: packets from the host of a network joined

ASSUME LanDiscoveryAssumption ==
    /\ NodeMax \in Nat \ {0} /\ {MaxAdvertise, MaxQueue} \subseteq Nat
    /\ "none" \notin Conns
    /\ \A n \in Networks : n \subseteq Nat \ {0} /\ 1 \in n

Slots == 1 .. NodeMax
None == "none"
Threads == {"ipc", "worker"}

VARIABLES
    state,           \* CommState
    networkInfo,     \* advertised data, connected nodes, nodeCount
    nodeLastStates,  \* nodes isNodeStateChanged last saw connected
    event,           \* the game's event is signalled
    seen,            \* connected nodes the game last read of the network it is in
    ipc,             \* what the game's thread is in the middle of
    worker,          \* the worker thread
    stop,            \* it is told to stop
    mtu,             \* [now, original]: of the console's network profile, and the one saved
    tcp,             \* the TCP socket: closed, listening, connected, or at its end
    down, buf,       \* packets on the connection to the host, and in the LanSocket
    hand,            \* the packet the worker has read and not yet handled
    conn,            \* the connections of other consoles
    stations,
    polled,          \* sockets the worker still has to handle, 0 the TCP socket
    upd,             \* the threads in updateNodes: their count, or -1
    crossed,         \* history: what the threads did at the same time in this network
    failed           \* history: the console's network profile could not be set back

lifeVars == <<worker, stop, mtu, failed>>
gameVars == <<seen, ipc>>
viewVars == <<networkInfo, nodeLastStates, event>>
joinVars == <<down, buf, hand>>
hostVars == <<conn, stations, polled, upd>>
vars == <<state, viewVars, gameVars, lifeVars, tcp, joinVars, hostVars, crossed>>

Nodes == Slots \cup UNION Networks
Infos == [adv : 0 .. MaxAdvertise, nodes : SUBSET Nodes, count : 1 .. Cardinality(Nodes) + 1]
HostInfos == {[adv |-> 0, nodes |-> n, count |-> Cardinality(n) + 1] : n \in Networks}
NoStation == [status |-> "Disconnected", conn |-> None]
NoLink == [host |-> None, open |-> FALSE, up |-> FALSE, last |-> {}]

TypeOK ==
    /\ state \in {"None", "Initialized", "AccessPoint", "AccessPointCreated",
                  "Station", "StationConnected", "Error"}
    /\ networkInfo \in Infos
    /\ nodeLastStates \subseteq Nodes /\ seen \subseteq Nodes
    /\ {event, failed, stop} \subseteq BOOLEAN /\ crossed \subseteq {"update", "packet"}
    /\ ipc \in {"idle", "created", "sent", "woken", "finalizing"}
    /\ worker \in {"none", "created", "runs", "ended"}
    /\ mtu \in [now : {"own", "1500"}, original : {"own", "1500"}]
    /\ tcp \in {"closed", "listening", "connected", "ended"}
    /\ {down, buf, hand} \subseteq Seq(HostInfos)
    /\ Len(down) + Len(buf) <= MaxQueue /\ Len(hand) <= 1
    /\ \A c \in Conns : /\ conn[c].host \in {None, "backlog", "slot", "closed"}
                        /\ {conn[c].open, conn[c].up} \subseteq BOOLEAN
                        /\ conn[c].last \subseteq Infos /\ Cardinality(conn[c].last) <= 1
    /\ stations \in [Slots -> [status : {"Disconnected", "Connect", "Connected"},
                               conn : Conns \cup {None}]]
    /\ polled \subseteq 0 .. NodeMax /\ upd \in [Threads -> -1 .. NodeMax]
-----------------------------------------------------------------------------
(* A connection's name is free again once both ends are closed.            *)
Tidy(k) == IF k.host = "closed" /\ ~k.open THEN NoLink ELSE k

(* What was sent on a connection matters only while it is open.            *)
CloseHostEnd(k) == Tidy([k EXCEPT !.host = "closed", !.up = FALSE, !.last = {}])
ClosePeerEnd(k) == Tidy([k EXCEPT !.open = FALSE, !.last = {}])

(* setState: the game's event is signalled on every call.                  *)
setState(new) == state' = new /\ event' = TRUE

(* The TCP socket closes, with its packets or its backlog; another may     *)
(* take its place.                                                         *)
CloseTcp(new) ==
    /\ tcp' = new /\ down' = <<>> /\ buf' = <<>>
    /\ conn' = [c \in Conns |-> IF conn[c].host = "backlog" THEN CloseHostEnd(conn[c]) ELSE conn[c]]

(* It closes, and every station is reset.                                  *)
CloseAll ==
    /\ tcp' = "closed" /\ down' = <<>> /\ buf' = <<>>
    /\ conn' = [c \in Conns |-> IF conn[c].host \in {"backlog", "slot"}
                                THEN CloseHostEnd(conn[c]) ELSE conn[c]]
    /\ stations' = [i \in Slots |-> NoStation]

(* The game leaves a network while the worker has a packet in its hands.   *)
Crossing == crossed' = (crossed \ {"packet"}) \cup {"packet" : x \in 1 .. Len(hand)}

ConnectedSlots == {i \in Slots : stations[i].status = "Connected"}

HostIdle == upd = [t \in Threads |-> -1]

(* The worker is not in Pollable::Poll and so not in pollMutex.            *)
PollMutexFree == polled = {} /\ hand = <<>> /\ upd["worker"] = -1

Call == ipc = "idle" /\ upd["ipc"] = -1

(* updateNodes on thread t, given the stations.                            *)
UpdateBegin(t, to, adv) ==
    LET up == {i \in Slots : to[i].status = "Connected"}
    IN  /\ networkInfo' = [networkInfo EXCEPT !.nodes = up, !.adv = adv]
        /\ upd' = [upd EXCEPT ![t] = Cardinality(up)]
        /\ crossed' = (crossed \ {"update"}) \cup {"update" : u \in {v \in Threads \ {t} : upd[v] # -1}}

(* To every connected station goes what the whole network now looks like.  *)
SyncNetwork(info) ==
    [c \in Conns |-> IF conn[c].open /\ \E i \in ConnectedSlots : stations[i].conn = c
                     THEN [conn[c] EXCEPT !.last = {info}] ELSE conn[c]]

Mut_isNodeStateChanged_Connects(nodes) == nodes \ nodeLastStates # {}

isNodeStateChanged(nodes) == nodes # nodeLastStates

Mut_UpdateEnd_SendsFirst(t) ==
    LET info == [networkInfo EXCEPT !.count = upd[t] + 1] IN
    /\ upd[t] # -1 /\ upd' = [upd EXCEPT ![t] = -1]
    /\ networkInfo' = info
    /\ conn' = SyncNetwork(networkInfo)
    /\ event' = (event \/ isNodeStateChanged(info.nodes))
    /\ nodeLastStates' = info.nodes
    /\ UNCHANGED <<state, gameVars, lifeVars, tcp, joinVars, crossed, stations, polled>>

UpdateEnd(t) ==
    LET info == [networkInfo EXCEPT !.count = upd[t] + 1] IN
    /\ upd[t] # -1 /\ upd' = [upd EXCEPT ![t] = -1]
    /\ networkInfo' = info
    /\ conn' = SyncNetwork(info)
    /\ event' = (event \/ isNodeStateChanged(info.nodes))
    /\ nodeLastStates' = info.nodes
    /\ UNCHANGED <<state, gameVars, lifeVars, tcp, joinVars, crossed, stations, polled>>
-----------------------------------------------------------------------------
(* The game starts LDN, and ends it.                                       *)

(* initialize.  The MTU is saved and set before all that may fail; only    *)
(* then come the UDP socket and the worker.                                *)
initialize ==
    /\ Call /\ worker = "none"
    /\ mtu' = [now |-> "1500", original |-> mtu.now]
    /\ \/ failed' = TRUE /\ UNCHANGED <<state, event, worker>>
       \/ worker' = "created" /\ setState("Initialized") /\ UNCHANGED failed
    /\ UNCHANGED <<networkInfo, nodeLastStates, gameVars, stop, tcp, joinVars, hostVars, crossed>>

(* The worker thread's first statement.                                    *)
WorkerStarts ==
    /\ worker = "created" /\ worker' = "runs"
    /\ stop' = FALSE
    /\ UNCHANGED <<state, viewVars, gameVars, mtu, failed, tcp, joinVars, hostVars, crossed>>

Ready ==
    {0 : c \in {d \in Conns : tcp = "listening" /\ conn[d].host = "backlog"}}
    \cup {i \in {0} : tcp = "ended" \/ down # <<>>}
    \cup {i \in Slots : stations[i].conn # None
                        /\ (conn[stations[i].conn].up \/ ~conn[stations[i].conn].open)}

Mut_WorkerStops_WhenIdle ==
    /\ worker = "runs" /\ stop /\ PollMutexFree /\ Ready = {}
    /\ worker' = "ended"
    /\ UNCHANGED <<state, viewVars, gameVars, stop, mtu, failed, tcp, joinVars, hostVars, crossed>>

WorkerStops ==
    /\ worker = "runs" /\ stop /\ PollMutexFree
    /\ worker' = "ended"
    /\ UNCHANGED <<state, viewVars, gameVars, stop, mtu, failed, tcp, joinVars, hostVars, crossed>>

(* poll fails, and the worker ends unasked.                                *)
PollFails ==
    /\ worker = "runs" /\ ~stop /\ PollMutexFree
    /\ worker' = "ended"
    /\ UNCHANGED <<state, viewVars, gameVars, stop, mtu, failed, tcp, joinVars, hostVars, crossed>>

(* finalize up to its wait for the worker.                                 *)
finalize ==
    /\ Call /\ worker # "none"
    /\ stop' = TRUE /\ ipc' = "finalizing"
    /\ UNCHANGED <<state, viewVars, seen, worker, mtu, failed, tcp, joinVars, hostVars, crossed>>

Mut_finalizeEnd_KeepsMtu ==
    /\ ipc = "finalizing" /\ worker = "ended"
    /\ ipc' = "idle" /\ worker' = "none" /\ seen' = {}
    /\ CloseAll
    /\ state' = "None" /\ event' = FALSE
    /\ UNCHANGED <<networkInfo, nodeLastStates, stop, hand, polled, upd, crossed, mtu, failed>>

(* The rest of it: the MTU is set back, if nifm lets it; the event goes    *)
(* with the service.                                                       *)
finalizeEnd ==
    /\ ipc = "finalizing" /\ worker = "ended"
    /\ ipc' = "idle" /\ worker' = "none" /\ seen' = {}
    /\ CloseAll
    /\ state' = "None" /\ event' = FALSE
    /\ \/ mtu' = [mtu EXCEPT !.now = mtu.original] /\ UNCHANGED failed
       \/ failed' = TRUE /\ UNCHANGED mtu
    /\ UNCHANGED <<networkInfo, nodeLastStates, stop, hand, polled, upd, crossed>>
-----------------------------------------------------------------------------
(* The game hosts a network.                                               *)

(* createNetwork up to the new state: a failure of initTcp leaves no       *)
(* listener, one of getFakeMac or getNodeInfo leaves it open.              *)
createNetwork ==
    /\ Call /\ state = "AccessPoint" /\ PollMutexFree
    /\ \/ CloseTcp("closed") /\ UNCHANGED <<state, networkInfo, event, gameVars>>
       \/ CloseTcp("listening") /\ UNCHANGED <<state, networkInfo, event, gameVars>>
       \/ /\ CloseTcp("listening")
          /\ networkInfo' = [networkInfo EXCEPT !.nodes = {}]
          /\ setState("AccessPointCreated")
          /\ ipc' = "created" /\ UNCHANGED seen
    /\ crossed' = {}
    /\ UNCHANGED <<nodeLastStates, lifeVars, hand, stations, polled, upd>>

(* The rest of it: initNodeStateChange and updateNodes.                    *)
createNetworkUpdate ==
    /\ ipc = "created" /\ ipc' = "idle"
    /\ nodeLastStates' = {}
    /\ UpdateBegin("ipc", stations, networkInfo.adv)
    /\ UNCHANGED <<state, event, seen, lifeVars, tcp, joinVars, conn, stations, polled>>

setAdvertiseData ==
    /\ Call /\ state \in {"AccessPoint", "AccessPointCreated"} /\ networkInfo.adv < MaxAdvertise
    /\ UpdateBegin("ipc", stations, networkInfo.adv + 1)
    /\ UNCHANGED <<state, nodeLastStates, event, gameVars, lifeVars, tcp, joinVars, conn, stations, polled>>

(* What the calls that open and close a role do, and destroyNetwork: the   *)
(* socket closes and every station is reset.                               *)
resetRole(new) ==
    /\ Call /\ state # "None"
    /\ CloseAll /\ Crossing
    /\ setState(new) /\ seen' = {}
    /\ UNCHANGED <<networkInfo, nodeLastStates, ipc, lifeVars, hand, polled, upd>>

destroyNetwork == state = "AccessPointCreated" /\ resetRole("AccessPoint")
openAccessPoint == resetRole("AccessPoint")
closeAccessPoint == resetRole("Initialized")
openStation == resetRole("Station")
closeStation == resetRole("Initialized")
-----------------------------------------------------------------------------
(* The game joins a network.                                               *)

(* connect: initTcp, ::connect and the Connect packet; it may be refused.  *)
connect ==
    /\ Call /\ state = "Station" /\ PollMutexFree
    /\ \/ CloseTcp("closed") /\ UNCHANGED ipc
       \/ CloseTcp("connected") /\ ipc' = "sent"
    /\ crossed' = {}
    /\ UNCHANGED <<state, viewVars, seen, lifeVars, hand, stations, polled, upd>>

(* The rest of it: initNodeStateChange.                                    *)
connectEnd ==
    /\ ipc = "sent" /\ ipc' = "idle"
    /\ nodeLastStates' = {}
    /\ UNCHANGED <<state, networkInfo, event, seen, lifeVars, tcp, joinVars, hostVars, crossed>>

Mut_disconnect_KeepsState ==
    /\ Call /\ state \in {"Station", "StationConnected"}
    /\ CloseTcp("closed") /\ Crossing /\ seen' = {}
    /\ UNCHANGED <<state, viewVars, ipc, lifeVars, hand, stations, polled, upd>>

disconnect ==
    /\ Call /\ state \in {"Station", "StationConnected"}
    /\ CloseTcp("closed") /\ Crossing
    /\ setState("Station") /\ seen' = {}
    /\ UNCHANGED <<networkInfo, nodeLastStates, ipc, lifeVars, hand, stations, polled, upd>>

(* The game sees its event, and reads the network.                         *)
GameWakes ==
    /\ Call /\ event
    /\ event' = FALSE /\ ipc' = "woken"
    /\ UNCHANGED <<state, networkInfo, nodeLastStates, seen, lifeVars, tcp, joinVars, hostVars, crossed>>

getNetworkInfo ==
    /\ ipc = "woken" /\ ipc' = "idle"
    /\ seen' = IF state \in {"AccessPointCreated", "StationConnected"} THEN networkInfo.nodes ELSE seen
    /\ UNCHANGED <<state, viewVars, lifeVars, tcp, joinVars, hostVars, crossed>>
-----------------------------------------------------------------------------
(* The worker's handlers.                                                  *)

Poll ==
    /\ worker = "runs" /\ ~stop /\ PollMutexFree /\ Ready # {}
    /\ polled' = Ready
    /\ UNCHANGED <<state, viewVars, gameVars, lifeVars, tcp, joinVars, conn, stations, upd, crossed>>

Handles(i) ==
    /\ upd["worker"] = -1 /\ hand = <<>>
    /\ i \in polled /\ (\A j \in polled : i <= j) /\ polled' = polled \ {i}

Joining == state \in {"Station", "StationConnected"}

(* LDTcpSocket::onRead of a station, up to onSyncNetwork.                  *)
onReadPacket ==
    /\ Handles(0) /\ Joining
    /\ \E n \in 1 .. Len(down) :
         LET all == buf \o SubSeq(down, 1, n)
         IN  /\ hand' = <<Head(all)>>
             /\ buf' = Tail(all)
             /\ down' = SubSeq(down, n + 1, Len(down))
    /\ UNCHANGED <<state, viewVars, gameVars, lifeVars, tcp, conn, stations, upd, crossed>>

onSyncNetwork ==
    /\ hand # <<>> /\ hand' = <<>>
    /\ networkInfo' = hand[1]
    /\ state' = IF state = "Station" THEN "StationConnected" ELSE state
    /\ event' = (event \/ state = "Station" \/ isNodeStateChanged(hand[1].nodes))
    /\ nodeLastStates' = hand[1].nodes
    /\ UNCHANGED <<gameVars, lifeVars, tcp, down, buf, hostVars, crossed>>

Mut_Free_NotConnected == {i \in Slots : stations[i].status # "Connected"}

(* The stations onConnect may link.                                        *)
Free == {i \in Slots : stations[i].status = "Disconnected"}

Accepts(c) == state = "AccessPointCreated" /\ tcp = "listening" /\ conn[c].host = "backlog"

(* LDTcpSocket::onRead of a host, with onConnect.                          *)
onAccept(c) ==
    /\ Handles(0) /\ Accepts(c)
    /\ IF Free = {}
       THEN conn' = [conn EXCEPT ![c] = CloseHostEnd(@)] /\ UNCHANGED stations
       ELSE /\ conn' = [conn EXCEPT ![c].host = "slot"]
            /\ stations' = [stations EXCEPT ![CHOOSE i \in Free : \A j \in Free : i <= j]
                              = [status |-> "Connect", conn |-> c]]
    /\ UNCHANGED <<state, viewVars, gameVars, lifeVars, tcp, joinVars, upd, crossed>>

Mut_onTcpClose_Never ==
    /\ Handles(0)
    /\ ~(Joining /\ down # <<>>) /\ \A c \in Conns : ~Accepts(c)
    /\ UNCHANGED <<state, viewVars, gameVars, lifeVars, tcp, joinVars, conn, stations, upd, crossed>>

(* LDTcpSocket::onClose, with onDisconnectFromHost: the stream is at its   *)
(* end, a call of the game has closed the socket since the poll, or the    *)
(* state is none in which it is read.  The socket stays open, and packets  *)
(* left in the LanSocket are not handled.                                  *)
onTcpClose ==
    /\ Handles(0)
    /\ ~(Joining /\ down # <<>>) /\ \A c \in Conns : ~Accepts(c)
    /\ IF state = "StationConnected" THEN setState("Station") ELSE UNCHANGED <<state, event>>
    /\ UNCHANGED <<networkInfo, nodeLastStates, gameVars, lifeVars, tcp, joinVars, conn, stations, upd, crossed>>

(* LanStation::onRead of a Connect packet.                                 *)
onRead(i) ==
    /\ Handles(i) /\ stations[i].conn # None /\ conn[stations[i].conn].up
    /\ conn' = [conn EXCEPT ![stations[i].conn].up = FALSE]
    /\ stations' = [stations EXCEPT ![i].status = "Connected"]
    /\ UpdateBegin("worker", stations', networkInfo.adv)
    /\ UNCHANGED <<state, nodeLastStates, event, gameVars, lifeVars, tcp, joinVars>>

Mut_onClose_NoUpdate(i) ==
    /\ Handles(i) /\ (stations[i].conn # None => ~conn[stations[i].conn].up)
    /\ conn' = [c \in Conns |-> IF c = stations[i].conn THEN CloseHostEnd(conn[c]) ELSE conn[c]]
    /\ stations' = [stations EXCEPT ![i] = NoStation]
    /\ UNCHANGED <<state, viewVars, gameVars, lifeVars, tcp, joinVars, upd, crossed>>

(* LanStation::onClose: the peer is gone, or the game has reset the        *)
(* station since the poll.                                                 *)
onClose(i) ==
    /\ Handles(i) /\ (stations[i].conn # None => ~conn[stations[i].conn].up)
    /\ conn' = [c \in Conns |-> IF c = stations[i].conn THEN CloseHostEnd(conn[c]) ELSE conn[c]]
    /\ stations' = [stations EXCEPT ![i] = NoStation]
    /\ UpdateBegin("worker", stations', networkInfo.adv)
    /\ UNCHANGED <<state, nodeLastStates, event, gameVars, lifeVars, tcp, joinVars>>

(* LDUdpSocket::onClose.                                                   *)
onUdpClose ==
    /\ worker = "runs" /\ ~stop /\ PollMutexFree
    /\ setState("Error")
    /\ UNCHANGED <<networkInfo, nodeLastStates, gameVars, lifeVars, tcp, joinVars, hostVars, crossed>>
-----------------------------------------------------------------------------
(* The other consoles: one connects and sends its Connect packet, or       *)
(* leaves.                                                                 *)
PeerConnects(c) ==
    /\ tcp = "listening" /\ conn[c] = NoLink
    /\ conn' = [conn EXCEPT ![c] = [NoLink EXCEPT !.host = "backlog", !.open = TRUE, !.up = TRUE]]
    /\ UNCHANGED <<state, viewVars, gameVars, lifeVars, tcp, joinVars, stations, polled, upd, crossed>>

PeerLeaves(c) ==
    /\ conn[c].open
    /\ conn' = [conn EXCEPT ![c] = ClosePeerEnd(@)]
    /\ UNCHANGED <<state, viewVars, gameVars, lifeVars, tcp, joinVars, stations, polled, upd, crossed>>

(* The host of the network joined sends its information, or closes.        *)
HostSyncs ==
    /\ tcp = "connected" /\ Len(down) + Len(buf) < MaxQueue
    /\ \E info \in HostInfos : down' = Append(down, info)
    /\ UNCHANGED <<state, viewVars, gameVars, lifeVars, tcp, buf, hand, hostVars, crossed>>

HostCloses ==
    /\ tcp = "connected" /\ tcp' = "ended"
    /\ UNCHANGED <<state, viewVars, gameVars, lifeVars, joinVars, hostVars, crossed>>
-----------------------------------------------------------------------------
Init ==
    /\ state = "None" /\ worker = "none" /\ stop = FALSE /\ failed = FALSE
    /\ mtu = [now |-> "own", original |-> "own"]
    /\ networkInfo = [adv |-> 0, nodes |-> {}, count |-> 1]
    /\ nodeLastStates = {} /\ seen = {} /\ event = FALSE /\ crossed = {}
    /\ tcp = "closed" /\ down = <<>> /\ buf = <<>> /\ hand = <<>>
    /\ conn = [c \in Conns |-> NoLink]
    /\ stations = [i \in Slots |-> NoStation] /\ polled = {} /\ upd = [t \in Threads |-> -1]
    /\ ipc = "idle"

Game ==
    \/ initialize \/ finalize
    \/ createNetwork \/ setAdvertiseData \/ destroyNetwork \/ openAccessPoint \/ closeAccessPoint
    \/ connect \/ disconnect \/ openStation \/ closeStation
    \/ GameWakes \/ getNetworkInfo

Worker ==
    \/ WorkerStarts \/ WorkerStops
    \/ Poll \/ onReadPacket \/ onSyncNetwork \/ (\E c \in Conns : onAccept(c)) \/ onTcpClose
    \/ (\E i \in Slots : onRead(i) \/ onClose(i)) \/ UpdateEnd("worker")

IpcGoesOn == createNetworkUpdate \/ connectEnd \/ UpdateEnd("ipc") \/ finalizeEnd

Next ==
    \/ Game \/ IpcGoesOn \/ Worker \/ PollFails \/ onUdpClose
    \/ HostSyncs \/ HostCloses
    \/ \E c \in Conns : PeerConnects(c) \/ PeerLeaves(c)

(* The worker keeps polling, and a call that has begun goes on.            *)
Spec == Init /\ [][Next]_vars /\ WF_vars(Worker) /\ WF_vars(IpcGoesOn)
-----------------------------------------------------------------------------
(* When no call is in updateNodes the network information agrees with the  *)
(* stations, the node count too unless a call of the game ran updateNodes  *)
(* at the same time as the worker.                                         *)
NodesMatchStations ==
    state = "AccessPointCreated" /\ ipc # "created" /\ HostIdle =>
       /\ networkInfo.nodes = ConnectedSlots
       /\ networkInfo.count = Cardinality(ConnectedSlots) + 1 \/ "update" \in crossed

(* When no call is in updateNodes, every connected station has been sent   *)
(* what the network information now is, even if the game and the worker    *)
(* changed it at the same time.                                            *)
InfoReachesStations ==
    state = "AccessPointCreated" /\ ipc # "created" /\ HostIdle =>
       \A i \in ConnectedSlots :
          conn[stations[i].conn].open => conn[stations[i].conn].last = {networkInfo}

(* No lost wakeup: a game that waits for its event with none signalled has *)
(* read which nodes are connected now, whether it hosts the network or     *)
(* joined it.                                                              *)
NoLostWakeup ==
    state \in {"AccessPointCreated", "StationConnected"} /\ ipc = "idle" /\ HostIdle /\ ~event
    => seen = networkInfo.nodes

(* Every connection the worker has accepted belongs to one station, so     *)
(* none is left open when its station is reset.                            *)
NoConnectionLeaks ==
    \A c \in Conns : conn[c].host = "slot" <=> \E i \in Slots : stations[i].conn = c

(* The station believes it is connected only while it has a connection;    *)
(* the one way round that is a SyncNetwork packet its worker had already   *)
(* read when the game left the network.                                    *)
ConnectedHasLink ==
    state = "StationConnected" /\ tcp \notin {"connected", "ended"} => "packet" \in crossed

(* LDN gives the console back the MTU it had, unless the network profile   *)
(* could not be set back or an initialize failed after it was changed.     *)
MtuRestored == worker = "none" => mtu.now = "own" \/ failed

(* While the worker lives, a station that is sent the network information  *)
(* becomes connected, unless the game leaves or connects anew; and one     *)
(* whose connection has ended does not stay so.                            *)
FollowsHost ==
    /\ (state = "Station" /\ tcp = "connected" /\ down # <<>>)
       ~> (state # "Station" \/ tcp # "connected" \/ ipc = "sent" \/ stop \/ worker = "ended")
    /\ (state = "StationConnected" /\ tcp = "ended")
       ~> (state # "StationConnected" \/ tcp # "ended" \/ stop \/ worker = "ended")

(* While the host keeps hosting and the worker lives, a console that has   *)
(* connected and stays is sent the network information, or its connection  *)
(* is closed.                                                              *)
JoinsOrRefused ==
    \A c \in Conns :
       conn[c].host = "backlog"
       ~> \/ conn[c].last # {} \/ ~conn[c].open \/ conn[c].host = "closed"
          \/ state # "AccessPointCreated" \/ stop \/ worker = "ended"

(* finalize returns, unless its stop was undone by a worker that had only  *)
(* then begun to run.                                                      *)
FinalizeReturns == ipc = "finalizing" ~> (ipc # "finalizing" \/ ~stop)
=============================================================================
