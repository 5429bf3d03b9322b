------------------------------ MODULE RelayLink ------------------------------
(***************************************************************************)
(* The console's link to the relay server while the runtime is up          *)
(* (sysmodule/source/lan_client_nx.cpp): the keepalive thread, the receive *)
(* thread, and the way of a packet of the relay to ldn_mitm.  The relay    *)
(* (server/src/udpserver.ts) forgets a peer it has not heard of for        *)
(* RelayTimeout ticks; it sends broadcasts to the peers it knows.  It asks *)
(* a peer that is not logged in for a login (AuthMe), and verifies the     *)
(* answer against the table jsonAuthProvider.ts reads from a file, anew    *)
(* whenever the file changes.  The console is set up with a user the file  *)
(* always names; while the operator edits it the file may not parse.       *)
(*                                                                         *)
(* Time is counted in ticks.  A thread whose sleep is over runs before     *)
(* the next tick.  The packets of interest are LDN packets, which every    *)
(* console sends to the broadcast address of the virtual subnet; the       *)
(* hardware address a frame is sent to plays no part in tap_send_packet,   *)
(* so a frame for each known host is as many copies for ldn_mitm.          *)
(*                                                                         *)
(* A definition named Mut_X_Y is X with a slip of the kind Y; it is used   *)
(* only to see that a property notices the slip.                           *)
(***************************************************************************)
EXTENDS Integers, FiniteSets

CONSTANTS
    Period,        \* ticks the keepalive thread sleeps between two datagrams
    RouteWait,     \* ticks it waits when there is no route
    MaxFails,      \* consecutive failures that end the run
    RelayTimeout,  \* ticks the relay remembers a silent peer
    LanHosts       \* hosts of the local network whose packets the tap captures

ASSUME RelayLinkAssumption ==
    /\ {Period, RouteWait, MaxFails, RelayTimeout} \subseteq Nat \ {0}
    /\ Period <= RelayTimeout /\ RouteWait <= RelayTimeout

VARIABLES
    running,    \* lp->running
    kpc,        \* the keepalive thread: send, sleep, route (waiting) or exited
    sleep,      \* ticks left of its sleep
    fails,      \* consecutive_fails
    real,       \* lp->next_real_broadcast
    sinceReal,  \* ticks since it was last set, 2: more than one
    known,      \* hosts with a live entry in the console's arp_list
    quiet,      \* ticks since the relay heard of the console, -1: forgotten
    missed,     \* history: a datagram failed or was lost since the relay heard
    copies,     \* copies of the last broadcast packet for ldn_mitm, -1: none
    user,       \* the relay has the console logged in
    net,        \* AuthMe datagrams on their way: ask, or answer
    file,       \* the provider's file: whole, or half written
    table,      \* its table: whole, or empty
    reads       \* reads of the file that are not done: whole, or of either content

keepVars == <<kpc, sleep, fails>>
loginVars == <<user, net>>
authVars == <<file, table, reads>>
linkVars == <<running, keepVars, real, sinceReal, known, quiet, missed, copies, loginVars,
              authVars>>

(* Everything is in range; the range of `fails' says that the run has      *)
(* ended by the time MaxFails failures are counted.                        *)
LinkTypeOK ==
    /\ running \in BOOLEAN /\ real \in BOOLEAN /\ missed \in BOOLEAN
    /\ kpc \in {"send", "sleep", "route", "exited"}
    /\ sleep \in Nat
    /\ fails \in 0 .. MaxFails /\ (fails = MaxFails => ~running)
    /\ sinceReal \in 0 .. 2 /\ known \subseteq LanHosts
    /\ quiet \in -1 .. RelayTimeout /\ copies \in -1 .. Cardinality(LanHosts) + 1
    /\ user \in BOOLEAN /\ net \subseteq {"ask", "answer"}
    /\ file \in {"whole", "half"} /\ table \in {"whole", "empty"}
    /\ reads \subseteq {"whole", "either"}

(* lan_client_init, and the start of the threads.                          *)
LinkInit ==
    /\ running = TRUE /\ kpc = "send" /\ sleep = 0 /\ fails = 0
    /\ real = TRUE /\ sinceReal = 0 /\ known = {}
    /\ quiet = -1 /\ missed = FALSE /\ copies = -1
    /\ user = FALSE /\ net = {} /\ file = "whole" /\ table = "whole" /\ reads = {}
-----------------------------------------------------------------------------
Mut_Heard_AsksOnce ==
    /\ quiet' = 0 /\ missed' = FALSE
    /\ net' = net \cup (IF quiet # -1 THEN {} ELSE {"ask"})
    /\ UNCHANGED user

(* The relay hears of the console: it enters a peer it does not know,      *)
(* notes the time, and asks one that is not logged in for its login.       *)
Heard ==
    /\ quiet' = 0 /\ missed' = FALSE
    /\ net' = net \cup (IF user THEN {} ELSE {"ask"})
    /\ UNCHANGED user

(* relay_send_raw succeeds.  The datagram may get lost.                    *)
Sent == Heard \/ (missed' = TRUE /\ UNCHANGED <<quiet, loginVars>>)

(* The end of the loop body: the next broadcast is a real one, and sleep.  *)
Mut_Sleep_Thirty ==
    /\ kpc' = "sleep" /\ sleep' = 2 * Period + 1
    /\ real' = TRUE /\ sinceReal' = 0

Sleep ==
    /\ kpc' = "sleep" /\ sleep' = Period
    /\ real' = TRUE /\ sinceReal' = 0

(* lan_client_keepalive_thread_fn.                                         *)
KeepaliveSent ==
    /\ kpc = "send" /\ running
    /\ Sent /\ fails' = 0 /\ Sleep
    /\ UNCHANGED <<running, known, copies, authVars>>

(* EHOSTUNREACH or ENETUNREACH: wait for the route, then try again.        *)
KeepaliveNoRoute ==
    /\ kpc = "send" /\ running
    /\ missed' = TRUE /\ kpc' = "route" /\ sleep' = RouteWait
    /\ UNCHANGED <<running, fails, real, sinceReal, known, quiet, copies, loginVars, authVars>>

(* ENETDOWN, EPIPE or ENXIO: the console sleeps or the interface is down.  *)
KeepaliveHardError ==
    /\ kpc = "send" /\ running
    /\ missed' = TRUE /\ running' = FALSE /\ kpc' = "exited"
    /\ UNCHANGED <<sleep, fails, real, sinceReal, known, quiet, copies, loginVars, authVars>>

Mut_KeepaliveFails_NeverEnds ==
    /\ kpc = "send" /\ running /\ missed' = TRUE
    /\ fails' = (IF fails = MaxFails - 1 THEN fails ELSE fails + 1) /\ Sleep
    /\ UNCHANGED <<running, known, quiet, copies, loginVars, authVars>>

KeepaliveFails ==
    /\ kpc = "send" /\ running /\ missed' = TRUE
    /\ fails' = fails + 1
    /\ IF fails' >= MaxFails
       THEN running' = FALSE /\ kpc' = "exited" /\ UNCHANGED <<sleep, real, sinceReal>>
       ELSE Sleep /\ UNCHANGED running
    /\ UNCHANGED <<known, quiet, copies, loginVars, authVars>>

(* The sleep is over, or a chunk of it finds the run ended.                *)
KeepaliveWakes ==
    /\ kpc \in {"sleep", "route"} /\ (sleep = 0 \/ ~running)
    /\ kpc' = (IF running THEN "send" ELSE "exited") /\ sleep' = 0
    /\ UNCHANGED <<running, fails, real, sinceReal, known, quiet, missed, copies, loginVars, authVars>>

(* The loop condition at the top, when another thread ended the run.       *)
KeepaliveStops ==
    /\ kpc = "send" /\ ~running /\ kpc' = "exited"
    /\ UNCHANGED <<running, sleep, fails, real, sinceReal, known, quiet, missed, copies, loginVars, authVars>>

(* lan_client_recv_thread_fn: a broadcast packet of the relay,             *)
(* lan_client_on_broadcast, arp_for_each, tap_send_packet.                 *)
RecvBroadcast ==
    /\ running /\ quiet # -1
    /\ copies' = (IF real THEN 1 ELSE Cardinality(known)) /\ real' = FALSE
    /\ UNCHANGED <<running, keepVars, sinceReal, known, quiet, missed, loginVars, authVars>>

(* recvfrom fails with ENETDOWN, EPIPE or ENXIO.                           *)
RecvHardError ==
    /\ running /\ running' = FALSE
    /\ UNCHANGED <<keepVars, real, sinceReal, known, quiet, missed, copies, loginVars, authVars>>

(* The bridge sends a packet of ldn_mitm to the relay.                     *)
SendData ==
    /\ running /\ Heard
    /\ UNCHANGED <<running, keepVars, real, sinceReal, known, copies, authVars>>

(* tap_recv_thread_fn, process_ipv4, arp_set; the entry expires later.     *)
LearnHost(h) ==
    /\ running /\ known' = known \cup {h}
    /\ UNCHANGED <<running, keepVars, real, sinceReal, quiet, missed, copies, loginVars, authVars>>
ForgetHost(h) ==
    /\ known' = known \ {h}
    /\ UNCHANGED <<running, keepVars, real, sinceReal, quiet, missed, copies, loginVars, authVars>>

(* lan_client_process_auth_me.                                             *)
RecvAuthMe ==
    /\ running /\ "ask" \in net
    /\ net' = (net \ {"ask"}) \cup {"answer"}
    /\ UNCHANGED <<running, keepVars, real, sinceReal, known, quiet, missed, copies, user, authVars>>

(* onNeedAuth of the answer: verify looks the user up in the table.  A     *)
(* failure is told to the console, which does nothing about it.            *)
Verify ==
    /\ "answer" \in net /\ net' = net \ {"answer"}
    /\ quiet' = 0 /\ missed' = FALSE
    /\ user' = (user \/ table = "whole")
    /\ UNCHANGED <<running, keepVars, real, sinceReal, known, copies, authVars>>

AuthMeLost(d) ==
    /\ d \in net /\ net' = net \ {d}
    /\ UNCHANGED <<running, keepVars, real, sinceReal, known, quiet, missed, copies, user, authVars>>

(* The file changes, and JsonAuthProvider.read begins: the table is empty  *)
(* until the file is read.                                                 *)
FileChanges(now) ==
    /\ file' = now /\ table' = "empty"
    /\ reads' = IF now = "whole" THEN reads \cup {"whole"} ELSE {"either"}
    /\ UNCHANGED <<running, keepVars, real, sinceReal, known, quiet, missed, copies, loginVars>>

(* The rest of read: what does not parse leaves the table as it is.  An    *)
(* element of reads may stand for several that are not done.               *)
ReadDone(r) ==
    /\ r \in reads /\ reads' \in {reads, reads \ {r}}
    /\ table' \in {"whole", table} /\ (r = "whole" => table' = "whole")
    /\ UNCHANGED <<running, keepVars, real, sinceReal, known, quiet, missed, copies, loginVars, file>>

(* A tick passes; the relay sweeps its table (clearExpire).  What is still *)
(* on its way of a login it has forgotten comes to nothing.                *)
LinkTick ==
    /\ kpc \in {"sleep", "route"} /\ running /\ sleep > 0
    /\ sleep' = sleep - 1 /\ sinceReal' = (IF sinceReal = 2 THEN 2 ELSE sinceReal + 1)
    /\ IF quiet \in {-1, RelayTimeout} THEN quiet' = -1 /\ user' = FALSE /\ net' = {}
       ELSE quiet' = quiet + 1 /\ UNCHANGED loginVars
    /\ UNCHANGED <<running, kpc, fails, real, known, missed, copies, authVars>>

Keepalive ==
    \/ KeepaliveSent \/ KeepaliveNoRoute \/ KeepaliveHardError
    \/ KeepaliveFails \/ KeepaliveWakes \/ KeepaliveStops

LinkNext ==
    \/ Keepalive \/ RecvBroadcast \/ RecvHardError \/ SendData \/ LinkTick
    \/ \E h \in LanHosts : LearnHost(h) \/ ForgetHost(h)
    \/ RecvAuthMe \/ Verify \/ \E d \in net : AuthMeLost(d)
    \/ \E now \in {"whole", "half"} : FileChanges(now)
    \/ \E r \in reads : ReadDone(r)

(* The clock runs, the thread is scheduled, and the network does not lose  *)
(* every AuthMe there is.                                                  *)
LinkSpec ==
    /\ LinkInit /\ [][LinkNext]_linkVars /\ WF_linkVars(LinkTick) /\ WF_linkVars(Keepalive)
    /\ SF_linkVars(RecvAuthMe) /\ SF_linkVars(Verify)
-----------------------------------------------------------------------------
(* "15s is safe for all common NAT/firewall UDP mapping timeouts (>= 30s)": *)
(* while the run lasts, the relay forgets a console, or a NAT in between   *)
(* closes its mapping, only when a datagram of the console failed or was   *)
(* lost: no silence of the keepalive thread alone is that long.            *)
RegistrationKept ==
    [][running /\ quiet = RelayTimeout /\ quiet' = -1 => missed]_linkVars

(* When keepalives fail from some time on, and not for want of a route,    *)
(* the run ends, so that run_service can start a clean one ("tearing down  *)
(* LAN runtime for clean self-healing restart").                           *)
DeadLinkEndsRun == <>[](fails > 0 /\ kpc # "route") => <>~running

(* While the run lasts, a console the relay hears of again and again is    *)
(* logged in, and is again after the relay has forgotten it, though logins *)
(* fail while the file of users is half written or being read and though   *)
(* AuthMe datagrams get lost: provided that the file is at last left whole *)
(* and read.                                                               *)
LogsIn == <>[](file = "whole" /\ reads = {}) /\ []<>(quiet = 0) => []<>(user \/ ~running)

(* "every 1 s we do a real broadcast": next_real_broadcast is set again    *)
(* within a second of the last time, while the route is there.             *)
RealBroadcastEverySecond == kpc = "sleep" /\ running => sinceReal <= 1

(* "Los paquetes del relay se inyectan de vuelta a ldn_mitm": a broadcast  *)
(* packet that the receive thread gets from the relay reaches ldn_mitm.    *)
RelayPacketsInjected == copies # 0
=============================================================================
