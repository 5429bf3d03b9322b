----------------------------- MODULE RunService -----------------------------
(***************************************************************************)
(* The life cycle of the sysmodule's heavy runtime: main's restart loop,   *)
(* the steps of run_service with every early return, the threads it starts *)
(* and joins, and the configuration and reload files through which the     *)
(* homebrew application talks to it.                                       *)
(*                                                                         *)
(* What the two gates decide (module LdnGate) is one flag, allowed.  A     *)
(* configuration is the number of the save that wrote it; 0 is a file that *)
(* is missing or, between fopen and fclose, cut short.                     *)
(*                                                                         *)
(* A definition named Mut_X_Y is X with a slip of the kind Y; it is used   *)
(* only to see that a property notices the slip.                           *)
(***************************************************************************)
EXTENDS Integers, FiniteSets

CONSTANTS
    MaxSaves    \* bound: configurations the homebrew application saves

ASSUME RunServiceAssumption == MaxSaves \in Nat

VARIABLES
    main,          \* where the main thread is
    allowed,       \* the gates want the runtime
    wifi,          \* nifmGetCurrentIpAddress gives an address
    services,           \* the network services held
    lp,            \* lp is allocated
    lp_running,       \* lp->running
    fds,           \* open sockets
    thread,        \* the background threads
    config,        \* the configuration file
    cfg,           \* the configuration run_service works with
    reload,        \* the reload file is there
    hb,            \* where the homebrew application is
    saves,         \* configurations it has saved
    triggered,     \* history: the last configuration it triggered a reload for
    restart_count,
    delay,         \* the last backoff, in seconds
    fresh          \* history: the gates closed since the last backoff

serviceVars == <<main, allowed, wifi, services, lp, lp_running, fds, thread, config, cfg, reload,
                 hb, saves, triggered, restart_count, delay, fresh>>
fileVars == <<config, reload, hb, saves, triggered>>
envVars == <<allowed, wifi>>
backVars == <<restart_count, delay, fresh>>
lpVars == <<lp, lp_running, fds, thread>>

Services == {"nifm", "bsd", "socket"}
Sockets == {"bpf", "inject", "relay", "udp", "bridge_inject", "tcp"}
Threads == {"tap", "relay", "keepalive", "ldn_udp", "ldn_tcp"}
Waiting == {"gate", "backoff"}
Using == {"alloc", "dns", "setup", "tap_init", "client_init", "bridge_init", "start", "loop"}

ServiceTypeOK ==
    /\ main \in Waiting \cup Using \cup {"net", "wifi", "config", "config_wait", "cleanup", "join"}
    /\ allowed \in BOOLEAN /\ wifi \in BOOLEAN /\ lp \in BOOLEAN
    /\ lp_running \in BOOLEAN /\ reload \in BOOLEAN /\ fresh \in BOOLEAN
    /\ services \subseteq Services /\ fds \subseteq Sockets
    /\ thread \in [Threads -> {"none", "running", "exited"}]
    /\ config \in 0 .. MaxSaves /\ cfg \in 0 .. MaxSaves
    /\ hb \in {"idle", "writing", "saved"}
    /\ saves \in 0 .. MaxSaves /\ triggered \in 0 .. MaxSaves
    /\ restart_count \in Nat /\ delay \in 0 .. 60
-----------------------------------------------------------------------------
(* run_service returns; goes on; frees lp.                                 *)
Return == main' = "backoff"
Go(where) == main' = where
lan_play_free == lp' = FALSE

(* wait_for_ldn_activity or wait_for_foreground_game.                      *)
WaitGate ==
    /\ main = "gate"
    /\ \/ allowed /\ Go("net") /\ restart_count' = 0 /\ UNCHANGED <<reload, fresh>>
       \/ ~allowed /\ reload' = FALSE /\ fresh' = TRUE /\ UNCHANGED <<main, restart_count>>
    /\ UNCHANGED <<config, hb, saves, triggered, delay, services, cfg, lpVars, envVars>>

(* runtime_network_init: each failure undoes what came before it.          *)
runtime_network_init ==
    /\ main = "net"
    /\ \/ services = {} /\ UNCHANGED services /\ Return
       \/ services' = Services /\ Go("wifi")
    /\ UNCHANGED <<cfg, lpVars, fileVars, envVars, backVars>>

Mut_WaitWifi_NoGate ==
    /\ main = "wifi"
    /\ IF wifi THEN Go("config") ELSE UNCHANGED main
    /\ UNCHANGED <<services, cfg, lpVars, fileVars, envVars, backVars>>

WaitWifi ==
    /\ main = "wifi"
    /\ \/ wifi /\ Go("config")
       \/ ~wifi /\ ~allowed /\ Return
       \/ ~wifi /\ allowed /\ UNCHANGED main
    /\ UNCHANGED <<services, cfg, lpVars, fileVars, envVars, backVars>>

(* nx_config_load, which fails on a file without relay_addr.               *)
nx_config_load ==
    /\ main = "config"
    /\ cfg' = config
    /\ Go(IF config = 0 THEN "config_wait" ELSE "alloc")
    /\ UNCHANGED <<services, lpVars, fileVars, envVars, backVars>>

WaitConfig ==
    /\ main = "config_wait"
    /\ \/ reload /\ reload' = FALSE /\ Return
       \/ ~reload /\ ~allowed /\ Return /\ UNCHANGED reload
       \/ ~reload /\ allowed /\ UNCHANGED <<main, reload>>
    /\ UNCHANGED <<config, hb, saves, triggered, services, cfg, lpVars, envVars, backVars>>

AllocLp ==
    /\ main = "alloc"
    /\ \/ Return /\ UNCHANGED <<lp, lp_running>>
       \/ lp' = TRUE /\ lp_running' = TRUE /\ Go("dns")
    /\ UNCHANGED <<services, cfg, fds, thread, fileVars, envVars, backVars>>

Mut_ResolveRelay_Resumes ==
    /\ main = "dns"
    /\ \/ Go("setup") /\ UNCHANGED <<reload, lp>>
       \/ reload /\ reload' = FALSE /\ UNCHANGED <<main, lp>>
       \/ ~reload /\ ~allowed /\ lan_play_free /\ Return /\ UNCHANGED reload
       \/ ~reload /\ allowed /\ UNCHANGED <<main, reload, lp>>
    /\ UNCHANGED <<config, hb, saves, triggered, services, cfg, lp_running, fds, thread>>
    /\ UNCHANGED <<envVars, backVars>>

(* resolve_server until it succeeds.                                       *)
ResolveRelay ==
    /\ main = "dns"
    /\ \/ Go("setup") /\ UNCHANGED <<reload, lp>>
       \/ reload /\ reload' = FALSE /\ lan_play_free /\ Return
       \/ ~reload /\ ~allowed /\ lan_play_free /\ Return /\ UNCHANGED reload
       \/ ~reload /\ allowed /\ UNCHANGED <<main, reload, lp>>
    /\ UNCHANGED <<config, hb, saves, triggered, services, cfg, lp_running, fds, thread>>
    /\ UNCHANGED <<envVars, backVars>>

(* Route probe, addresses and user name.                                   *)
SetupLp ==
    /\ main = "setup"
    /\ \/ Go("tap_init") /\ UNCHANGED lp
       \/ lan_play_free /\ Return
    /\ UNCHANGED <<services, cfg, lp_running, fds, thread, fileVars, envVars, backVars>>

tap_init ==
    /\ main = "tap_init"
    /\ \/ lan_play_free /\ Return /\ UNCHANGED fds
       \/ /\ \E inject \in {{}, {"inject"}} : fds' = fds \cup {"bpf"} \cup inject
          /\ Go("client_init") /\ UNCHANGED lp
    /\ UNCHANGED <<services, cfg, lp_running, thread, fileVars, envVars, backVars>>

Mut_lan_client_init_KeepsTap ==
    /\ main = "client_init"
    /\ \/ fds' = fds \cup {"relay"} /\ Go("bridge_init") /\ UNCHANGED lp
       \/ fds' = fds \ {"bpf"} /\ lan_play_free /\ Return
    /\ UNCHANGED <<services, cfg, lp_running, thread, fileVars, envVars, backVars>>

lan_client_init ==
    /\ main = "client_init"
    /\ \/ fds' = fds \cup {"relay"} /\ Go("bridge_init") /\ UNCHANGED lp
       \/ fds' = fds \ {"bpf", "inject"} /\ lan_play_free /\ Return
    /\ UNCHANGED <<services, cfg, lp_running, thread, fileVars, envVars, backVars>>

(* ldn_bridge_init: without its UDP socket it opens nothing, the other two *)
(* may fail one by one.                                                    *)
ldn_bridge_init ==
    /\ main = "bridge_init" /\ Go("start")
    /\ \/ UNCHANGED fds
       \/ \E more \in SUBSET {"bridge_inject", "tcp"} : fds' = fds \cup {"udp"} \cup more
    /\ UNCHANGED <<services, lp, lp_running, thread, cfg, fileVars, envVars, backVars>>

(* The first three threads are started together or not at all; each of the *)
(* bridge's may fail.                                                      *)
StartThreads ==
    /\ main = "start"
    /\ \/ Go("cleanup") /\ UNCHANGED thread
       \/ /\ \E more \in SUBSET {"ldn_udp", "ldn_tcp"} :
                thread' = [t \in Threads |-> IF t \in {"tap", "relay", "keepalive"} \cup more
                                             THEN "running" ELSE "none"]
          /\ Go("loop")
    /\ UNCHANGED <<services, lp, lp_running, fds, cfg, fileVars, envVars, backVars>>

(* One round of the service loop.                                          *)
ServiceLoop ==
    /\ main = "loop"
    /\ \/ ~lp_running /\ Go("cleanup") /\ UNCHANGED reload
       \/ lp_running /\ reload /\ reload' = FALSE /\ Go("cleanup")
       \/ lp_running /\ ~reload /\ ~allowed /\ Go("cleanup") /\ UNCHANGED reload
       \/ lp_running /\ ~reload /\ allowed /\ UNCHANGED <<main, reload>>
    /\ UNCHANGED <<config, hb, saves, triggered, services, cfg, lpVars, envVars, backVars>>

(* ldn_bridge_close, lan_client_close and tap_close.                       *)
CloseSockets ==
    /\ main = "cleanup" /\ Go("join")
    /\ lp_running' = FALSE /\ fds' = {}
    /\ UNCHANGED <<services, lp, thread, cfg, fileVars, envVars, backVars>>

Mut_JoinAndFree_NotTap ==
    /\ main = "join"
    /\ \A t \in Threads \ {"tap"} : thread[t] # "running"
    /\ thread' = [t \in Threads |-> IF thread[t] = "exited" THEN "none" ELSE thread[t]]
    /\ lan_play_free /\ Return
    /\ UNCHANGED <<services, lp_running, fds, cfg, fileVars, envVars, backVars>>

(* threadWaitForExit and threadClose of every thread started.              *)
JoinAndFree ==
    /\ main = "join"
    /\ \A t \in Threads : thread[t] # "running"
    /\ thread' = [t \in Threads |-> "none"]
    /\ lan_play_free /\ Return
    /\ UNCHANGED <<services, lp_running, fds, cfg, fileVars, envVars, backVars>>

Doubled(n) == <<3, 6, 12, 24, 48, 96>>[IF n < 6 THEN n ELSE 6]

(* main after run_service returned.                                        *)
MainBackoff ==
    /\ main = "backoff" /\ Go("gate")
    /\ restart_count' = restart_count + 1
    /\ delay' = IF Doubled(restart_count') > 60 THEN 60 ELSE Doubled(restart_count')
    /\ fresh' = FALSE
    /\ UNCHANGED <<services, cfg, lpVars, fileVars, envVars>>
-----------------------------------------------------------------------------
(* A background thread: its loop ends when running is false; all but the   *)
(* TCP one may clear running on a hard network error.                      *)
ThreadExits(t) ==
    /\ thread[t] = "running" /\ ~lp_running
    /\ thread' = [thread EXCEPT ![t] = "exited"]
    /\ UNCHANGED <<main, services, lp, lp_running, fds, cfg, fileVars, envVars, backVars>>

NetworkDown(t) ==
    /\ thread[t] = "running" /\ t # "ldn_tcp" /\ lp_running
    /\ lp_running' = FALSE
    /\ UNCHANGED <<main, services, lp, fds, thread, cfg, fileVars, envVars, backVars>>

(* The homebrew application: save_relay, which truncates and then writes   *)
(* the file, and trigger_reload.  It may be closed at any point.           *)
SaveBegins ==
    /\ hb = "idle" /\ saves < MaxSaves /\ hb' = "writing" /\ config' = 0
    /\ UNCHANGED <<main, services, cfg, reload, saves, triggered, lpVars, envVars, backVars>>

SaveEnds ==
    /\ hb = "writing" /\ hb' = "saved"
    /\ saves' = saves + 1 /\ config' = saves + 1
    /\ UNCHANGED <<main, services, cfg, reload, triggered, lpVars, envVars, backVars>>

trigger_reload ==
    /\ hb = "saved" /\ hb' = "idle"
    /\ reload' = TRUE /\ triggered' = saves
    /\ UNCHANGED <<main, services, cfg, config, saves, lpVars, envVars, backVars>>

AppClosed ==
    /\ hb # "idle" /\ hb' = "idle"
    /\ UNCHANGED <<main, services, cfg, config, reload, saves, triggered>>
    /\ UNCHANGED <<lpVars, envVars, backVars>>

(* The gates and the WiFi change.                                          *)
GateChange ==
    /\ allowed' = ~allowed
    /\ UNCHANGED <<main, wifi, services, cfg, lpVars, fileVars, backVars>>

WifiChange ==
    /\ wifi' = ~wifi
    /\ UNCHANGED <<main, allowed, services, cfg, lpVars, fileVars, backVars>>
-----------------------------------------------------------------------------
ServiceInit ==
    /\ main = "gate" /\ allowed = FALSE /\ wifi = FALSE
    /\ services = {} /\ lp = FALSE /\ lp_running = FALSE /\ fds = {}
    /\ thread = [t \in Threads |-> "none"]
    /\ config = 0 /\ cfg = 0 /\ reload = FALSE /\ hb = "idle" /\ saves = 0 /\ triggered = 0
    /\ restart_count = 0 /\ delay = 0 /\ fresh = TRUE

run_service ==
    \/ runtime_network_init \/ WaitWifi \/ nx_config_load \/ WaitConfig \/ AllocLp
    \/ ResolveRelay \/ SetupLp \/ tap_init \/ lan_client_init \/ ldn_bridge_init
    \/ StartThreads \/ ServiceLoop \/ CloseSockets \/ JoinAndFree

Main == WaitGate \/ run_service \/ MainBackoff

HbApp == SaveBegins \/ SaveEnds \/ trigger_reload \/ AppClosed

ServiceNext ==
    \/ Main
    \/ \E t \in Threads : ThreadExits(t) \/ NetworkDown(t)
    \/ HbApp
    \/ GateChange \/ WifiChange

(* The main thread and the background threads keep running.  No attempt to *)
(* resolve the relay need ever succeed.                                    *)
Fairness == WF_serviceVars(Main) /\ \A t \in Threads : WF_serviceVars(ThreadExits(t))

ServiceSpec == ServiceInit /\ [][ServiceNext]_serviceVars /\ Fairness
-----------------------------------------------------------------------------
(* However a run ended, on any of its early returns or through cleanup, it *)
(* left no socket, thread or context behind for the next one.              *)
NothingHeldWhileWaiting ==
    main \in Waiting => fds = {} /\ ~lp /\ \A t \in Threads : thread[t] = "none"

(* No background thread runs without the context it works on.              *)
ThreadsHaveLp == \A t \in Threads : thread[t] = "running" => lp

(* A reload is never lost: a run that uses a configuration older than the  *)
(* last one a reload was triggered for, or waits for a configuration while *)
(* that one is in the file, still has the reload file to see.              *)
NoReloadLost ==
    /\ main \in Using /\ cfg < triggered => reload
    /\ main = "config_wait" /\ triggered # 0 /\ config = triggered => reload

(* When the gates close and stay closed the runtime stops, whichever of    *)
(* its waits (WiFi, configuration, DNS) it is in.                          *)
StopsWhenGateCloses == ~allowed ~> (allowed \/ main = "gate")

(* docs/runtime-lazy-network.md: cleanup releases sockets, BSD and NIFM    *)
(* before returning to the waiting loop.                                   *)
NetworkReleased == main \in Waiting => services = {}

(* The comment in main: exponential backoff, 3s, 6s, 12s, ..., capped at   *)
(* 60s, reset only on fresh LDN activation.                                *)
BackoffGrows ==
    [][main = "backoff" /\ ~fresh
       => delay' = IF 2 * delay < 60 THEN 2 * delay ELSE 60]_serviceVars
=============================================================================
