------------------------------ MODULE LdnGate -------------------------------
(***************************************************************************)
(* The gate between ldn_mitm and the sysmodule: ldn_mitm publishes the     *)
(* last LDN event (ldn_gate_client.cpp, ldn_icommunication.cpp), the main  *)
(* thread of the sysmodule samples it (ldn_gate.cpp) and starts and stops  *)
(* the LAN runtime by what it sees (main.cpp).  The gate is enabled (no    *)
(* disable_ldn_gate file).                                                 *)
(*                                                                         *)
(* Time is in seconds.  A tick stored by the code is modelled by its age,  *)
(* which stops at one more than the largest age the code or a property     *)
(* tells apart; 0 in g_last_active_tick or g_finalize_tick, "never", acts  *)
(* as that largest age.  The main thread runs when its sleep is over, and  *)
(* what it does then takes no time.                                        *)
(*                                                                         *)
(* A definition named Mut_X_Y is X with a slip of the kind Y; it is used   *)
(* only to see that a property notices the slip.                           *)
(***************************************************************************)
EXTENDS Integers

CONSTANTS
    Timeout,     \* LANP_GATE_TIMEOUT_SECONDS
    Grace,       \* the ten seconds after a finalize
    WaitPeriod,  \* sleep of wait_for_ldn_activity
    RunPeriod,   \* sleep of the service loop
    Backoff,     \* from the end of a run to the next look at the gate
    StartMax     \* longest part of run_service that does not look at the gate

ASSUME LdnGateAssumption ==
    /\ {Timeout, Grace, WaitPeriod, RunPeriod, Backoff} \subseteq Nat \ {0}
    /\ StartMax \in Nat

(* ldn_gate.h and main.cpp: 120 seconds against 10 and one.  With less, an *)
(* ldn_mitm that restarts can end a run in the middle of a detour.         *)
ASSUME TimeoutAssumption == Grace + RunPeriod <= Timeout

VARIABLES
    comm,           \* CommState of the game's ICommunicationService
    pub,            \* event_type of ldn_mitm's g_gate_state
    srv,            \* ldn_mitm hosts lanp:gt
    session,        \* its session: none, open, or dead (of a client that died)
    app, pid,       \* an application runs; pgl has seen one (g_pgl_app_pid)
    pgl,            \* pgl_monitor_available
    gst,            \* event_type of the sysmodule's g_gate_state
    conn,           \* g_mitm_connected: "none", "live", or "stale"
    last_active,    \* age of g_last_active_tick
    finalize_tick,  \* age of g_finalize_tick
    phase, sleep,   \* the main thread and how long it still sleeps
    stopped_by,     \* what ended the run (kept during the backoff)
    sameFor,        \* history: how long, in this run, the game has been in LDN
                    \* or has been out of it
    backAge,        \* history: since it last had been in LDN for over Settle
    idleAge         \* history: since the game last was in LDN

mitmVars == <<comm, pub, srv, session>>
appVars  == <<app, pid, pgl>>
gateVars == <<gst, conn, last_active, finalize_tick>>
loopVars == <<phase, sleep, stopped_by>>
histVars == <<sameFor, backAge, idleAge>>
ldnVars == <<mitmVars, appVars, gateVars, loopVars, histVars>>

(* The service loop notices a change of ldn_mitm's state within this time: *)
(* one poll may be spent on finding out that ldn_mitm was restarted.       *)
Settle == StartMax + 2 * RunPeriod

StopWithin == Settle + Grace + RunPeriod

CommStates == {"None", "Initialized", "AccessPoint", "AccessPointCreated",
               "Station", "StationConnected", "Error"}
Events == {"none", "scan", "host", "connect", "idle", "finalize", "prepare"}

GateTypeOK ==
    /\ comm \in CommStates /\ pub \in Events /\ gst \in Events
    /\ {srv, app, pid, pgl} \subseteq BOOLEAN
    /\ session \in {"none", "open", "dead"} /\ conn \in {"none", "live", "stale"}
    /\ last_active \in 0 .. Timeout + 1 /\ finalize_tick \in 0 .. Grace + 1
    /\ phase \in {"waiting", "running", "backoff"} /\ sleep \in Nat
    /\ stopped_by \in {"gate", "app", "other"}
    /\ sameFor \in 0 .. StopWithin + 1 /\ backAge \in 0 .. Grace + 1
    /\ idleAge \in 0 .. Timeout + 1
-----------------------------------------------------------------------------
(* ldn_mitm: the game drives the LDN state, every change of it may publish *)
(* an event.                                                               *)

gate_event_for_state_transition(previous, new) ==
    CASE new \in {"AccessPoint", "Station"} -> "prepare"
      [] new = "AccessPointCreated" -> "host"
      [] new = "StationConnected" -> "connect"
      [] new = "Initialized" -> IF previous = "None" THEN "none" ELSE "idle"
      [] new = "Error" -> "idle"
      [] new = "None" -> "finalize"

NotifyLanPlayGate(ev) == pub' = IF ev = "none" THEN pub ELSE ev

(* setState as each caller uses it: open and close need an initialized     *)
(* service; destroyNetwork and disconnect do not look.                     *)
MayBecome(new) ==
    CASE new = "Initialized" -> comm # "None"
      [] new \in {"AccessPoint", "Station"} -> TRUE
      [] new = "AccessPointCreated" -> comm = "AccessPoint"
      [] new = "StationConnected" -> comm = "Station"
      [] new = "Error" -> comm # "None"
      [] new = "None" -> TRUE

History(new) ==
    /\ sameFor' = IF (new = "None") = (comm = "None") THEN sameFor ELSE 0
    /\ idleAge' = IF new = "None" THEN idleAge ELSE 0
    /\ UNCHANGED backAge

setState(new) ==
    /\ srv /\ new # comm /\ MayBecome(new) /\ (app \/ new = "None")
    /\ comm' = new
    /\ NotifyLanPlayGate(gate_event_for_state_transition(comm, new))
    /\ History(new)
    /\ UNCHANGED <<srv, session, appVars, gateVars, loopVars>>

(* ICommunicationService::Initialize; a second call only publishes again.  *)
Initialize ==
    /\ srv /\ app
    /\ comm' = IF comm = "None" THEN "Initialized" ELSE comm
    /\ NotifyLanPlayGate("prepare") /\ History(comm')
    /\ UNCHANGED <<srv, session, appVars, gateVars, loopVars>>

Scan ==
    /\ srv /\ app /\ comm # "None"
    /\ NotifyLanPlayGate("scan")
    /\ UNCHANGED <<comm, srv, session, appVars, gateVars, loopVars, histVars>>

(* InitGateClient, and the end of the ldn_mitm process.                    *)
InitGateClient ==
    /\ ~srv /\ srv' = TRUE
    /\ pub' = "none"
    /\ UNCHANGED <<comm, session, appVars, gateVars, loopVars, histVars>>

MitmExit ==
    /\ srv /\ srv' = FALSE /\ session' = "none"
    /\ comm' = "None" /\ History("None")
    /\ conn' = IF conn = "live" THEN "stale" ELSE conn
    /\ UNCHANGED <<pub, appVars, gst, last_active, finalize_tick, loopVars>>

(* Applications come and go; the pgl thread follows.                       *)
AppChange ==
    /\ app' = ~app
    /\ UNCHANGED <<mitmVars, pid, pgl, gateVars, loopVars, histVars>>

pgl_thread_fn ==
    /\ pgl /\ pid # app /\ pid' = app
    /\ UNCHANGED <<mitmVars, app, pgl, gateVars, loopVars, histVars>>
-----------------------------------------------------------------------------
(* The sysmodule's view of the gate.                                       *)

Stamp == last_active' = IF pub \in {"none", "finalize"} THEN last_active ELSE 0

Mut_Refresh_Restamps ==
    /\ Stamp
    /\ finalize_tick' = IF pub = "finalize" THEN 0 ELSE Grace + 1
    /\ gst' = pub

(* GetState succeeded.                                                     *)
Refresh ==
    /\ Stamp
    /\ finalize_tick' = CASE pub \notin {"none", "finalize"} -> Grace + 1
                          [] pub = "finalize" /\ gst # "finalize" -> 0
                          [] OTHER -> finalize_tick
    /\ gst' = pub

(* SrvThreadFn: the port takes every client, and the thread drops at once  *)
(* all but the first.  It lets go of that one when it says Close, and      *)
(* waits on when the client has died without a word.                       *)
Accepts == srv /\ session = "none"

Mut_ldn_gate_poll_KeepsStale ==
    \/ /\ conn = "stale" \/ (conn = "none" /\ ~Accepts)
       /\ UNCHANGED <<gateVars, session>>
    \/ /\ conn = "live" \/ (conn = "none" /\ Accepts)
       /\ conn' = "live" /\ session' = "open"
       /\ Refresh

(* Connect if need be, then GetState; a session of a dead ldn_mitm, or one *)
(* that was dropped, is noticed by the failure of GetState and replaced by *)
(* a later poll.                                                           *)
ldn_gate_poll ==
    \/ /\ conn = "none" /\ ~Accepts
       /\ UNCHANGED <<gateVars, session>>
    \/ /\ conn = "stale" /\ conn' = "none"
       /\ UNCHANGED <<gst, last_active, finalize_tick, session>>
    \/ /\ conn = "live" \/ (conn = "none" /\ Accepts)
       /\ conn' = "live" /\ session' = "open"
       /\ Refresh

Mut_ldn_gate_is_active_NoGrace(event, active, finalized) ==
    event \in {"host", "connect"} \/ (event # "finalize" /\ active <= Timeout)

ldn_gate_is_active(event, active, finalized) ==
    CASE event \in {"host", "connect"} -> TRUE
      [] event = "finalize" -> finalized <= Grace
      [] OTHER -> active <= Timeout

ldn_gate_is_active_for_start(event, active) ==
    event # "finalize" /\ active <= Timeout
-----------------------------------------------------------------------------
(* The main thread.                                                        *)

SleepFor(d) == sleep' = d

Stop(why) == phase' = "backoff" /\ stopped_by' = why /\ SleepFor(Backoff)

NoApplication == pgl /\ ~pid

wait_for_ldn_activity ==
    /\ phase = "waiting" /\ sleep = 0
    /\ \/ /\ NoApplication
          /\ SleepFor(WaitPeriod)
          /\ UNCHANGED <<phase, session, gateVars, histVars>>
       \/ /\ ~NoApplication /\ ldn_gate_poll
          /\ IF ldn_gate_is_active_for_start(gst', last_active')
             THEN /\ phase' = "running" /\ \E d \in 0 .. StartMax : SleepFor(d)
                  /\ sameFor' = 0 /\ backAge' = Grace + 1 /\ UNCHANGED idleAge
             ELSE SleepFor(WaitPeriod) /\ UNCHANGED <<phase, histVars>>
    /\ UNCHANGED <<comm, pub, srv, appVars, stopped_by>>

Mut_ldn_runtime_still_allowed_NoPgl ==
    /\ phase = "running" /\ sleep = 0
    /\ ldn_gate_poll
    /\ IF ldn_gate_is_active(gst', last_active', finalize_tick')
       THEN SleepFor(RunPeriod) /\ UNCHANGED <<phase, stopped_by>>
       ELSE Stop("gate")
    /\ UNCHANGED <<comm, pub, srv, appVars, histVars>>

(* One pass through ldn_runtime_still_allowed, in the waits of run_service *)
(* or in its service loop.                                                 *)
ldn_runtime_still_allowed ==
    /\ phase = "running" /\ sleep = 0
    /\ \/ NoApplication /\ Stop("app") /\ UNCHANGED <<gateVars, session>>
       \/ /\ ~NoApplication /\ ldn_gate_poll
          /\ IF ldn_gate_is_active(gst', last_active', finalize_tick')
             THEN SleepFor(RunPeriod) /\ UNCHANGED <<phase, stopped_by>>
             ELSE Stop("gate")
    /\ UNCHANGED <<comm, pub, srv, appVars, histVars>>

(* A reload, a failed initialisation or a lost link ends the run.          *)
RunEnds ==
    /\ phase = "running" /\ sleep = 0 /\ Stop("other")
    /\ UNCHANGED <<mitmVars, appVars, gateVars, histVars>>

BackoffEnds ==
    /\ phase = "backoff" /\ sleep = 0
    /\ phase' = "waiting" /\ stopped_by' = "other"
    /\ UNCHANGED <<mitmVars, appVars, gateVars, sleep, histVars>>

(* The process of the sysmodule is ended, and started again: __appInit,    *)
(* ldn_gate_service_init and the start of main.                            *)
SysmoduleRestarts ==
    /\ session' = IF conn = "live" THEN "dead" ELSE session
    /\ conn' = "none" /\ gst' = "none"
    /\ last_active' = Timeout + 1 /\ finalize_tick' = Grace + 1
    /\ phase' = "waiting" /\ sleep' = 0 /\ stopped_by' = "other"
    /\ pgl' \in BOOLEAN /\ pid' = (pgl' /\ app)
    /\ UNCHANGED <<comm, pub, srv, app, histVars>>

Older(age, max) == IF age < max THEN age + 1 ELSE max

GateTick ==
    /\ sleep > 0 /\ sleep' = sleep - 1
    /\ last_active' = Older(last_active, Timeout + 1)
    /\ finalize_tick' = Older(finalize_tick, Grace + 1)
    /\ sameFor' = IF phase = "running" THEN Older(sameFor, StopWithin + 1) ELSE 0
    /\ backAge' = IF comm # "None" /\ sameFor' > Settle THEN 0
                  ELSE Older(backAge, Grace + 1)
    /\ idleAge' = IF comm # "None" THEN 0 ELSE Older(idleAge, Timeout + 1)
    /\ UNCHANGED <<mitmVars, appVars, gst, conn, phase, stopped_by>>
-----------------------------------------------------------------------------
GateInit ==
    /\ comm = "None" /\ pub = "none" /\ srv \in BOOLEAN /\ session = "none"
    /\ app = FALSE /\ pid = FALSE /\ pgl \in BOOLEAN
    /\ gst = "none" /\ conn = "none"
    /\ last_active = Timeout + 1 /\ finalize_tick = Grace + 1
    /\ phase = "waiting" /\ sleep = 0 /\ stopped_by = "other"
    /\ sameFor = 0 /\ backAge = Grace + 1 /\ idleAge = Timeout + 1

MainThread == wait_for_ldn_activity \/ ldn_runtime_still_allowed \/ RunEnds \/ BackoffEnds

GateNext ==
    \/ \E new \in CommStates : setState(new)
    \/ Initialize \/ Scan \/ InitGateClient \/ MitmExit \/ AppChange \/ pgl_thread_fn
    \/ MainThread \/ SysmoduleRestarts \/ GateTick

(* Time passes and the two threads of the sysmodule are scheduled; nothing *)
(* is assumed of ldn_mitm or of the game.                                  *)
GateFairness == WF_ldnVars(GateTick) /\ WF_ldnVars(MainThread) /\ WF_ldnVars(pgl_thread_fn)

GateSpec == GateInit /\ [][GateNext]_ldnVars /\ GateFairness
-----------------------------------------------------------------------------
(* Properties.                                                             *)

(* The grace period does its job although the gate is only sampled: the    *)
(* gate ends a run only if during the last Grace seconds the game was      *)
(* never back in LDN for as long as the service loop needs to notice, also *)
(* when ldn_mitm was restarted meanwhile.                                  *)
DetourTolerated ==
    [][phase = "running" /\ phase' = "backoff" /\ stopped_by' = "gate" /\ srv
          => backAge > Grace]_ldnVars

(* A run does not outlive LDN use: it ends within the grace period of a    *)
(* finalize plus the time the service loop needs to see each of the two.   *)
StopsAfterFinalize ==
    phase = "running" /\ srv /\ pub = "finalize" => sameFor <= StopWithin

(* A run starts only while the game uses LDN or has used it within the     *)
(* timeout: old events, kept by ldn_mitm or by the sysmodule after         *)
(* ldn_mitm is gone, do not start it.                                      *)
StartIsFresh == [][phase = "waiting" /\ phase' = "running" => idleAge <= Timeout]_ldnVars

(* When the application is gone the run ends, even if ldn_mitm never       *)
(* reports that the game left LDN.                                         *)
StopsWithoutApp == (pgl /\ ~app) ~> (app \/ phase # "running")

(* The sysmodule keeps seeing what ldn_mitm publishes, however often       *)
(* ldn_mitm was restarted before, as long as an application runs: unless   *)
(* ldn_mitm still holds the session of a sysmodule that was restarted.     *)
GateFollows ==
    <>[](srv /\ ~NoApplication /\ session # "dead") => []<>(gst = pub)

(* The same, whatever ldn_mitm holds.                                      *)
GateFollowsRestart ==
    <>[](srv /\ ~NoApplication) => []<>(gst = pub)

(* "the timeout only applies to scan phases" (ldn_gate.cpp:188): if no LDN *)
(* event comes any more, a run in a scan phase ends.                       *)
ScanPhaseTimesOut ==
    ~ \E e \in {"scan", "idle", "prepare"}, c \in CommStates :
         <>[](phase = "running" /\ srv /\ pub = e /\ comm = c)
=============================================================================
