-------------------------- MODULE SysmoduleProofs ---------------------------
(***************************************************************************)
(* Proofs about two parts of the sysmodule, each with a model of its own:  *)
(* the LDN gate, and the session table of the LDN bridge.                  *)
(*                                                                         *)
(* LdnGate, for all timeouts and periods: a run ends within StopWithin of  *)
(* a finalize, starts only when the game has used LDN within Timeout, and  *)
(* survives a detour of the game.  The first is a race between ldn_mitm,   *)
(* which may be restarted, and the polls of the main thread: the invariant *)
(* bounds what has passed plus what the main thread still sleeps, before   *)
(* and after it has seen the finalize.                                     *)
(*                                                                         *)
(* TcpSessions, for every size of the table and any number of descriptors, *)
(* connections and runs: a slot's stack is free when a thread is started   *)
(* on it, no slot is lost, a thread owns the socket it uses, and nothing   *)
(* is left when lp is freed.                                               *)
(***************************************************************************)
EXTENDS LdnGate, TcpSessions, TLAPS

(* Time limits of the provers, for the many facts in scope.                *)
USE SMTT(20), ZenonT(30)

(* The LDN gate.                                                           *)

USE LdnGateAssumption

Clocks ==
    /\ last_active \in 0 .. Timeout + 1 /\ finalize_tick \in 0 .. Grace + 1
    /\ sleep \in Nat /\ sameFor \in 0 .. StopWithin + 1 /\ idleAge \in 0 .. Timeout + 1
    /\ phase \in {"waiting", "running", "backoff"} /\ conn \in {"none", "live", "stale"}
    /\ session \in {"none", "open", "dead"}
    /\ phase = "running" => sleep <= StartMax + RunPeriod

(* What ldn_mitm publishes says whether the game is in LDN.                *)
PubTells ==
    /\ srv /\ pub \notin {"none", "finalize"} => comm # "None"
    /\ srv /\ pub = "finalize" => comm = "None"
    /\ comm # "None" => idleAge = 0
    /\ idleAge <= last_active

(* The two ends of the session.  A sysmodule that ldn_mitm does not let in *)
(* again cannot start a run.                                               *)
Linked ==
    /\ conn = "live" => srv
    /\ conn = "live" <=> session = "open"
    /\ session = "dead" => /\ conn = "none" /\ phase # "running"
                           /\ last_active = Timeout + 1

(* A finalize is seen in time, and after that ends the run in time.        *)
SeenInTime ==
    phase = "running" /\ srv /\ pub = "finalize" =>
       /\ gst = "finalize" => /\ sameFor + sleep <= StopWithin
                              /\ finalize_tick <= Grace => sameFor <= Settle + finalize_tick
       /\ gst # "finalize" =>
             sameFor + sleep + (IF conn = "stale" THEN RunPeriod ELSE 0) <= Settle

GateInv == Clocks /\ PubTells /\ Linked /\ SeenInTime

(* The first state.                                                        *)
LEMMA InitGate == GateInit => GateInv
<1> SUFFICES ASSUME GateInit PROVE GateInv
  BY Zenon
<1>1. StopWithin \in Nat /\ Settle \in Nat
  BY DEF StopWithin, Settle
<1>2. Clocks
  BY <1>1 DEF GateInit, Clocks
<1> QED  BY <1>2 DEF GateInit, GateInv, PubTells, Linked, SeenInTime

(* What one poll does: nothing, because ldn_mitm is not there or does not  *)
(* let the sysmodule in; let go of a session that is gone; or see pub.     *)
LEMMA PollCases ==
  ASSUME GateInv, ldn_gate_poll
  PROVE  \/ /\ conn = "none" /\ (srv => session = "dead")
            /\ UNCHANGED <<gst, conn, last_active, finalize_tick, session>>
         \/ /\ conn = "stale" /\ conn' = "none"
            /\ UNCHANGED <<gst, last_active, finalize_tick, session>>
         \/ /\ srv /\ session # "dead" /\ conn # "stale"
            /\ conn' = "live" /\ session' = "open" /\ gst' = pub
            /\ last_active' = IF pub \in {"none", "finalize"} THEN last_active ELSE 0
            /\ finalize_tick' \in 0 .. Grace + 1
            /\ pub = "finalize" => finalize_tick' = IF gst = "finalize" THEN finalize_tick ELSE 0
<1>1. Grace + 1 \in 0 .. Grace + 1 /\ 0 \in 0 .. Grace + 1
  OBVIOUS
<1>2. CASE conn = "none" /\ ~Accepts /\ UNCHANGED <<gateVars, session>>
  BY <1>2, Zenon DEF GateInv, Clocks, Linked, Accepts, gateVars
<1>3. CASE conn = "stale"
  BY <1>3, Zenon DEF ldn_gate_poll
<1>4. CASE /\ conn = "live" \/ (conn = "none" /\ Accepts)
           /\ conn' = "live" /\ session' = "open" /\ Refresh
  <2>1. srv /\ session # "dead" /\ conn # "stale"
    BY <1>4, Zenon DEF GateInv, Linked, Accepts
  <2>2. /\ gst' = pub
        /\ last_active' = IF pub \in {"none", "finalize"} THEN last_active ELSE 0
    BY <1>4, Zenon DEF Refresh, Stamp
  <2>3. /\ finalize_tick' \in 0 .. Grace + 1
        /\ pub = "finalize" => finalize_tick' = IF gst = "finalize" THEN finalize_tick ELSE 0
    BY <1>1, <1>4, Zenon DEF Refresh, GateInv, Clocks
  <2> QED  BY <1>4, <2>1, <2>2, <2>3, Zenon
<1> QED  BY <1>2, <1>3, <1>4, Zenon DEF ldn_gate_poll

(* A poll keeps what does not depend on the main thread.                   *)
LEMMA PollKeeps ==
  ASSUME GateInv, ldn_gate_poll, UNCHANGED <<comm, pub, srv, idleAge>>
  PROVE  /\ last_active' \in 0 .. Timeout + 1 /\ finalize_tick' \in 0 .. Grace + 1
         /\ conn' \in {"none", "live", "stale"} /\ session' \in {"none", "open", "dead"}
         /\ PubTells'
         /\ conn' = "live" => srv'
         /\ conn' = "live" <=> session' = "open"
         /\ session' = "dead" => /\ session = "dead" /\ conn' = "none"
                                 /\ last_active' = Timeout + 1
<1>1. idleAge \in 0 .. Timeout + 1 /\ last_active \in 0 .. Timeout + 1 /\ 0 \in 0 .. Timeout + 1
  BY DEF GateInv, Clocks
<1>2. \/ UNCHANGED <<conn, session, last_active, finalize_tick>>
      \/ /\ conn = "stale" /\ conn' = "none"
         /\ UNCHANGED <<last_active, finalize_tick, session>>
      \/ /\ srv /\ conn' = "live" /\ session' = "open"
         /\ last_active' = IF pub \in {"none", "finalize"} THEN last_active ELSE 0
         /\ finalize_tick' \in 0 .. Grace + 1
  BY PollCases, Zenon
<1>3. PubTells'
  BY <1>1, <1>2 DEF GateInv, PubTells
<1> QED  BY <1>1, <1>2, <1>3, Zenon DEF GateInv, Clocks, Linked

(* The wait for LDN activity.                                              *)
LEMMA WaitStep ==
  ASSUME GateInv, wait_for_ldn_activity
  PROVE  GateInv'
<1>1. phase = "waiting" /\ UNCHANGED <<comm, pub, srv>>
  BY Zenon DEF wait_for_ldn_activity
<1>2. CASE SleepFor(WaitPeriod) /\ UNCHANGED <<phase, session, gateVars, histVars>>
  BY <1>1, <1>2, Zenon
     DEF SleepFor, gateVars, histVars, GateInv, Clocks, PubTells, Linked, SeenInTime
<1>3. CASE ldn_gate_poll /\ SleepFor(WaitPeriod) /\ UNCHANGED <<phase, histVars>>
  <2>1. sleep' \in Nat /\ UNCHANGED <<phase, sameFor, idleAge>>
    BY <1>3, Zenon DEF SleepFor, histVars
  <2> QED  BY <1>1, <1>3, <2>1, PollKeeps, Zenon DEF GateInv, Clocks, Linked, SeenInTime
<1>4. CASE /\ ldn_gate_poll /\ ldn_gate_is_active_for_start(gst', last_active')
           /\ phase' = "running" /\ \E d \in 0 .. StartMax : SleepFor(d)
           /\ sameFor' = 0 /\ UNCHANGED idleAge
  <2>1. sleep' \in Nat /\ sleep' <= StartMax
    BY <1>4 DEF SleepFor
  <2>2. gst' # "finalize" /\ last_active' <= Timeout
    BY <1>4, Zenon DEF ldn_gate_is_active_for_start
  <2>3. /\ last_active' \in 0 .. Timeout + 1 /\ finalize_tick' \in 0 .. Grace + 1
        /\ conn' \in {"none", "live", "stale"} /\ session' \in {"none", "open", "dead"}
        /\ PubTells'
        /\ conn' = "live" => srv'
        /\ conn' = "live" <=> session' = "open"
        /\ session' = "dead" => last_active' = Timeout + 1
    BY <1>1, <1>4, PollKeeps, Zenon
  <2>4. session' # "dead"
    BY <2>2, <2>3
  <2>5. 0 \in 0 .. StopWithin + 1
    BY DEF StopWithin, Settle
  <2>6. Clocks'
    BY <1>4, <2>1, <2>3, <2>5 DEF GateInv, Clocks
  <2>7. SeenInTime'
    BY <1>4, <2>1, <2>2 DEF SeenInTime, Settle
  <2> QED  BY <2>3, <2>4, <2>6, <2>7, Zenon DEF GateInv, Linked
<1> QED  BY <1>2, <1>3, <1>4, Zenon DEF wait_for_ldn_activity

(* A pass through the service loop: a finalize is seen by this poll, or by *)
(* the next one if this one found the session gone; once seen, the run     *)
(* goes on only within the grace period.                                   *)
LEMMA LoopStep ==
  ASSUME GateInv, ldn_runtime_still_allowed
  PROVE  GateInv'
<1>1. /\ phase = "running" /\ sleep = 0
      /\ UNCHANGED <<comm, pub, srv, sameFor, idleAge>>
  BY Zenon DEF ldn_runtime_still_allowed, histVars
<1>2. CASE NoApplication /\ Stop("app") /\ UNCHANGED <<gateVars, session>>
  BY <1>1, <1>2, Zenon DEF Stop, SleepFor, gateVars, GateInv, Clocks, PubTells, Linked, SeenInTime
<1>3. CASE ldn_gate_poll /\ Stop("gate")
  <2>1. phase' = "backoff" /\ sleep' \in Nat
    BY <1>3, Zenon DEF Stop, SleepFor
  <2> QED  BY <1>1, <1>3, <2>1, PollKeeps, Zenon DEF GateInv, Clocks, Linked, SeenInTime
<1>4. CASE /\ ldn_gate_poll /\ ldn_gate_is_active(gst', last_active', finalize_tick')
           /\ SleepFor(RunPeriod) /\ UNCHANGED phase
  <2>1. sleep' = RunPeriod /\ phase' = "running"
    BY <1>1, <1>4, Zenon DEF SleepFor
  <2>2. gst' = "finalize" => finalize_tick' <= Grace
    BY <1>4, Zenon DEF ldn_gate_is_active
  <2>3. session # "dead"
    BY <1>1, Zenon DEF GateInv, Linked
  <2>4. Clocks' /\ PubTells' /\ Linked'
    BY <1>1, <1>4, <2>1, <2>3, PollKeeps DEF GateInv, Clocks, Linked
  <2>5. SeenInTime'
    <3> SUFFICES ASSUME srv, pub = "finalize"
                 PROVE  /\ gst' = "finalize" =>
                              /\ sameFor + RunPeriod <= StopWithin
                              /\ sameFor <= Settle + finalize_tick'
                        /\ gst' # "finalize" =>
                              sameFor + RunPeriod + (IF conn' = "stale" THEN RunPeriod ELSE 0)
                                 <= Settle
      BY <1>1, <2>1, Zenon DEF SeenInTime
    <3>1. /\ gst = "finalize" /\ finalize_tick <= Grace => sameFor <= Settle + finalize_tick
          /\ gst # "finalize" => sameFor + (IF conn = "stale" THEN RunPeriod ELSE 0) <= Settle
          /\ sameFor \in Nat /\ finalize_tick \in Nat
      BY <1>1 DEF GateInv, SeenInTime, Clocks
    <3>2. Settle \in Nat /\ StopWithin = Settle + Grace + RunPeriod
      BY DEF StopWithin, Settle
    <3>3. \/ /\ conn = "stale" /\ conn' = "none" /\ UNCHANGED <<gst, finalize_tick>>
          \/ /\ conn' = "live" /\ gst' = "finalize"
             /\ finalize_tick' = IF gst = "finalize" THEN finalize_tick ELSE 0
      BY <1>4, <2>3, PollCases, Zenon
    <3> QED  BY <2>2, <3>1, <3>2, <3>3
  <2> QED  BY <2>4, <2>5, Zenon DEF GateInv
<1> QED  BY <1>2, <1>3, <1>4, Zenon DEF ldn_runtime_still_allowed

(* The game leaves LDN: nothing of that state has passed yet.              *)
LEMMA LeaveStep ==
  ASSUME GateInv, setState("None")
  PROVE  GateInv'
<1>1. /\ comm # "None" /\ comm' = "None" /\ pub' = "finalize" /\ idleAge' = idleAge
      /\ UNCHANGED <<srv, session, gst, conn, last_active, finalize_tick, phase, sleep>>
  BY Zenon
     DEF setState, NotifyLanPlayGate, gate_event_for_state_transition, History, gateVars, loopVars
<1>2. sameFor' = 0
  <2>1. sameFor' = IF ("None" = "None") = (comm = "None") THEN sameFor ELSE 0
    BY Zenon DEF setState, History
  <2>2. ~(("None" = "None") = (comm = "None"))
    BY <1>1, Zenon
  <2> QED  BY <2>1, <2>2, Zenon
<1>3. 0 \in 0 .. StopWithin + 1 /\ StartMax + RunPeriod + RunPeriod = Settle
      /\ StopWithin = Settle + Grace + RunPeriod /\ Settle \in Nat
  BY DEF StopWithin, Settle
<1>4. Clocks' /\ PubTells' /\ Linked'
  BY <1>1, <1>2, <1>3, Zenon DEF GateInv, Clocks, PubTells, Linked
<1>5. SeenInTime'
  BY <1>1, <1>2, <1>3 DEF GateInv, Clocks, SeenInTime
<1> QED  BY <1>4, <1>5, Zenon DEF GateInv

(* The game is in LDN, or ldn_mitm is new: there is no finalize to see.    *)
LEMMA NoFinalize ==
  ASSUME GateInv, pub' # "finalize" \/ ~srv',
         sameFor' \in {sameFor, 0}, idleAge' \in {idleAge, 0},
         srv' /\ pub' \notin {"none", "finalize"} => comm' # "None",
         comm' # "None" => idleAge' = 0,
         UNCHANGED <<gst, last_active, finalize_tick, phase, sleep>>,
         \/ UNCHANGED <<conn, session>> /\ (conn = "live" => srv')
         \/ session' = "none" /\ conn' \in {"none", "stale"}
  PROVE  GateInv'
<1>1. 0 \in 0 .. StopWithin + 1 /\ 0 \in 0 .. Timeout + 1
  BY DEF StopWithin, Settle
<1>2. Clocks'
  BY <1>1, Zenon DEF GateInv, Clocks
<1>3. idleAge' <= last_active'
  BY DEF GateInv, Clocks, PubTells
<1>4. PubTells'
  BY <1>3, Zenon DEF PubTells
<1>5. Linked'
  BY Zenon DEF GateInv, Linked
<1> QED  BY <1>2, <1>4, <1>5, Zenon DEF GateInv, SeenInTime

(* What ldn_mitm and the game do.                                          *)
LEMMA MitmStep ==
  ASSUME GateInv,
         \/ \E new \in CommStates : setState(new)
         \/ Initialize \/ Scan \/ InitGateClient \/ MitmExit
  PROVE  GateInv'
<1>1. ASSUME NEW new \in CommStates, setState(new), new # "None" PROVE GateInv'
  <2>1. pub' \notin {"none", "finalize"}
    <3>1. new = "Initialized" => comm # "None"
      BY <1>1, Zenon DEF setState, MayBecome
    <3>2. gate_event_for_state_transition(comm, new) \in {"prepare", "host", "connect", "idle"}
      BY <1>1, <3>1, Zenon DEF gate_event_for_state_transition, CommStates
    <3> QED  BY <1>1, <3>2, Zenon DEF setState, NotifyLanPlayGate
  <2>2. /\ srv /\ comm' = new /\ idleAge' = 0 /\ sameFor' \in {sameFor, 0}
        /\ UNCHANGED <<srv, session, conn, gst, last_active, finalize_tick, phase, sleep>>
    BY <1>1, Zenon DEF setState, History, gateVars, loopVars
  <2> QED  BY <1>1, <2>1, <2>2, NoFinalize, Zenon
<1>2. CASE Initialize
  <2>1. comm' # "None" /\ pub' = "prepare" /\ srv
    BY <1>2, Zenon DEF Initialize, NotifyLanPlayGate
  <2>2. /\ idleAge' = 0 /\ sameFor' \in {sameFor, 0}
        /\ UNCHANGED <<srv, session, conn, gst, last_active, finalize_tick, phase, sleep>>
    BY <1>2, <2>1, Zenon DEF Initialize, History, gateVars, loopVars
  <2> QED  BY <2>1, <2>2, NoFinalize, Zenon
<1>3. CASE Scan
  <2>1. /\ comm # "None" /\ pub' = "scan" /\ srv
        /\ UNCHANGED <<comm, idleAge, sameFor, srv, session, conn, gst, last_active,
                       finalize_tick, phase, sleep>>
    BY <1>3, Zenon DEF Scan, NotifyLanPlayGate, gateVars, loopVars, histVars
  <2>2. idleAge = 0
    BY <2>1, Zenon DEF GateInv, PubTells
  <2> QED  BY <2>1, <2>2, NoFinalize, Zenon
<1>4. CASE InitGateClient
  <2>1. /\ pub' = "none" /\ srv'
        /\ UNCHANGED <<comm, idleAge, sameFor, session, conn, gst, last_active,
                       finalize_tick, phase, sleep>>
    BY <1>4, Zenon DEF InitGateClient, gateVars, loopVars, histVars
  <2>2. comm # "None" => idleAge = 0
    BY Zenon DEF GateInv, PubTells
  <2> QED  BY <2>1, <2>2, NoFinalize, Zenon
<1>5. CASE MitmExit
  <2>1. /\ ~srv' /\ session' = "none" /\ comm' = "None"
        /\ idleAge' = idleAge /\ sameFor' \in {sameFor, 0}
        /\ UNCHANGED <<gst, last_active, finalize_tick, phase, sleep>>
    BY <1>5, Zenon DEF MitmExit, History, loopVars
  <2>2. conn' \in {"none", "stale"}
    BY <1>5, Zenon DEF MitmExit, GateInv, Clocks
  <2> QED  BY <2>1, <2>2, NoFinalize, Zenon
<1> QED  BY <1>1, <1>2, <1>3, <1>4, <1>5, LeaveStep, Zenon

(* A second passes: what has passed grows by what is slept.                *)
LEMMA TickStep ==
  ASSUME GateInv, GateTick
  PROVE  GateInv'
<1>1. /\ sleep > 0 /\ sleep' = sleep - 1
      /\ last_active' = IF last_active < Timeout + 1 THEN last_active + 1 ELSE Timeout + 1
      /\ finalize_tick' = IF finalize_tick < Grace + 1 THEN finalize_tick + 1 ELSE Grace + 1
      /\ sameFor' = IF phase = "running"
                    THEN IF sameFor < StopWithin + 1 THEN sameFor + 1 ELSE StopWithin + 1
                    ELSE 0
      /\ idleAge' = IF comm # "None" THEN 0
                    ELSE IF idleAge < Timeout + 1 THEN idleAge + 1 ELSE Timeout + 1
      /\ UNCHANGED <<comm, pub, srv, session, gst, conn, phase>>
  BY Zenon DEF GateTick, Older, mitmVars
<1>2. StopWithin \in Nat /\ Settle \in Nat
  BY DEF StopWithin, Settle
<1>3. Clocks'
  BY <1>1, <1>2 DEF GateInv, Clocks
<1>4. PubTells'
  BY <1>1 DEF GateInv, Clocks, PubTells
<1>5. Linked'
  BY <1>1 DEF GateInv, Linked
<1>6. phase = "running" => sameFor' + sleep' <= sameFor + sleep /\ sameFor' <= sameFor + 1
  BY <1>1, <1>2 DEF GateInv, Clocks
<1>7. SeenInTime'
  <2> SUFFICES ASSUME phase = "running", srv, pub = "finalize"
               PROVE  /\ gst = "finalize" =>
                            /\ sameFor' + sleep' <= StopWithin
                            /\ finalize_tick' <= Grace => sameFor' <= Settle + finalize_tick'
                      /\ gst # "finalize" =>
                            sameFor' + sleep' + (IF conn = "stale" THEN RunPeriod ELSE 0) <= Settle
    BY <1>1, Zenon DEF SeenInTime
  <2>1. finalize_tick' <= Grace => finalize_tick <= Grace /\ finalize_tick' = finalize_tick + 1
    BY <1>1 DEF GateInv, Clocks
  <2>2. {sameFor, sleep, sameFor', sleep', finalize_tick} \subseteq Nat
    BY <1>2, <1>3 DEF GateInv, Clocks
  <2> QED  BY <1>2, <1>6, <2>1, <2>2 DEF GateInv, SeenInTime
<1> QED  BY <1>3, <1>4, <1>5, <1>7, Zenon DEF GateInv

(* A restarted sysmodule has seen nothing and runs nothing.                *)
LEMMA RestartStep ==
  ASSUME GateInv, SysmoduleRestarts
  PROVE  GateInv'
<1>1. /\ session' = IF conn = "live" THEN "dead" ELSE session
      /\ conn' = "none" /\ phase' = "waiting" /\ sleep' = 0
      /\ last_active' = Timeout + 1 /\ finalize_tick' = Grace + 1
      /\ UNCHANGED <<comm, pub, srv, sameFor, idleAge>>
  BY Zenon DEF SysmoduleRestarts, histVars
<1> QED  BY <1>1 DEF GateInv, Clocks, PubTells, Linked, SeenInTime

(* Every step keeps the invariant.                                         *)
LEMMA StepKeepsGate == GateInv /\ [GateNext]_ldnVars => GateInv'
<1> SUFFICES ASSUME GateInv, [GateNext]_ldnVars PROVE GateInv'
  BY Zenon
<1>1. CASE AppChange \/ pgl_thread_fn \/ UNCHANGED ldnVars
  <2>1. UNCHANGED <<comm, pub, srv, session, gst, conn, last_active, finalize_tick, phase, sleep,
                    sameFor, idleAge>>
    BY <1>1, Zenon DEF AppChange, pgl_thread_fn, ldnVars, mitmVars, gateVars, loopVars, histVars
  <2> QED  BY <2>1 DEF GateInv, Clocks, PubTells, Linked, SeenInTime
<1>2. CASE RunEnds \/ BackoffEnds
  <2>1. /\ phase' \in {"backoff", "waiting"} /\ sleep' \in Nat
        /\ UNCHANGED <<comm, pub, srv, session, gst, conn, last_active, finalize_tick,
                       sameFor, idleAge>>
    BY <1>2, Zenon
       DEF RunEnds, BackoffEnds, Stop, SleepFor, mitmVars, gateVars, histVars, GateInv, Clocks
  <2> QED  BY <2>1, Zenon DEF GateInv, Clocks, PubTells, Linked, SeenInTime
<1> QED
  BY <1>1, <1>2, WaitStep, LoopStep, MitmStep, TickStep, RestartStep, Zenon DEF GateNext, MainThread

(* StopsAfterFinalize for all timeouts and periods, through restarts of    *)
(* ldn_mitm and of the sysmodule.                                          *)
THEOREM RunsStop == GateSpec => []StopsAfterFinalize
<1>1. GateInv => StopsAfterFinalize
  <2> SUFFICES ASSUME GateInv, phase = "running", srv, pub = "finalize" PROVE sameFor <= StopWithin
    BY Zenon DEF StopsAfterFinalize
  <2>1. sameFor \in Nat /\ sleep \in Nat
    BY DEF GateInv, Clocks, StopWithin, Settle
  <2> QED  BY <2>1 DEF GateInv, SeenInTime, StopWithin, Settle
<1> QED  BY <1>1, InitGate, StepKeepsGate, PTL DEF GateSpec

(* StartIsFresh for all timeouts and periods: no event that ldn_mitm or    *)
(* the sysmodule has kept starts a run.                                    *)
THEOREM StartsAreFresh == GateSpec => StartIsFresh
<1>1. GateInv /\ [GateNext]_ldnVars =>
         [phase = "waiting" /\ phase' = "running" => idleAge <= Timeout]_ldnVars
  <2> SUFFICES ASSUME GateInv, [GateNext]_ldnVars, phase = "waiting", phase' = "running"
               PROVE  idleAge <= Timeout
    BY Zenon
  <2>1. wait_for_ldn_activity
    BY Zenon
       DEF GateNext, MainThread, setState, Initialize, Scan, InitGateClient, MitmExit, AppChange,
           pgl_thread_fn, ldn_runtime_still_allowed, RunEnds, BackoffEnds, SysmoduleRestarts,
           GateTick, ldnVars, loopVars
  <2>2. ldn_gate_is_active_for_start(gst', last_active') /\ UNCHANGED idleAge
    BY <2>1, Zenon DEF wait_for_ldn_activity
  <2>3. GateInv'
    BY StepKeepsGate, Zenon
  <2> QED  BY <2>2, <2>3 DEF ldn_gate_is_active_for_start, GateInv, Clocks, PubTells
<1> QED  BY <1>1, InitGate, StepKeepsGate, PTL DEF GateSpec, StartIsFresh
-----------------------------------------------------------------------------
(* The detour out of LDN.  While the game is in LDN the main thread finds  *)
(* out within Settle, and then keeps hearing of it at every poll; so       *)
(* within Grace of such a time the finalize it has seen, if any, is of     *)
(* later, and the last activity it has seen is at most one period older.   *)
Recent ==
    /\ backAge \in 0 .. Grace + 1
    /\ comm # "None" => srv /\ pub \notin {"none", "finalize"}
    /\ phase = "running" /\ comm # "None" =>
          \/ sameFor + sleep + (IF conn = "stale" THEN RunPeriod ELSE 0) <= Settle
          \/ conn = "live" /\ gst # "finalize" /\ last_active + sleep <= RunPeriod
    /\ phase = "running" /\ backAge <= Grace =>
          /\ gst = "finalize" => finalize_tick <= backAge
          /\ last_active <= backAge + RunPeriod

DetourInv == GateInv /\ Recent

(* A poll of the service loop, while ldn_mitm is there, finds a stale      *)
(* session or sees what is published.                                      *)
LEMMA RunningPoll ==
  ASSUME GateInv, phase = "running", srv, ldn_gate_poll
  PROVE  \/ conn = "stale" /\ conn' = "none" /\ UNCHANGED <<gst, last_active, finalize_tick>>
         \/ /\ conn # "stale" /\ conn' = "live" /\ gst' = pub
            /\ last_active' = IF pub \in {"none", "finalize"} THEN last_active ELSE 0
            /\ pub = "finalize" => finalize_tick' = IF gst = "finalize" THEN finalize_tick ELSE 0
<1>1. session # "dead"
  BY Zenon DEF GateInv, Linked
<1> QED  BY <1>1, PollCases, Zenon

(* A run that starts has heard of LDN, and nothing of a detour yet.        *)
LEMMA WaitRecent ==
  ASSUME DetourInv, wait_for_ldn_activity
  PROVE  Recent'
<1>1. phase = "waiting" /\ UNCHANGED <<comm, pub, srv>>
  BY Zenon DEF wait_for_ldn_activity
<1>2. CASE UNCHANGED <<phase, backAge>>
  BY <1>1, <1>2, Zenon DEF DetourInv, Recent
<1>3. CASE /\ \E d \in 0 .. StartMax : SleepFor(d)
           /\ sameFor' = 0 /\ backAge' = Grace + 1
  <2>1. sleep' \in Nat /\ sleep' <= StartMax
    BY <1>3 DEF SleepFor
  <2>2. sameFor' + sleep' + (IF conn' = "stale" THEN RunPeriod ELSE 0) <= Settle
    BY <1>3, <2>1 DEF Settle
  <2> QED  BY <1>1, <1>3, <2>2 DEF DetourInv, Recent
<1> QED  BY <1>2, <1>3, Zenon DEF wait_for_ldn_activity, histVars

(* A pass through the service loop, and what it means that the gate ends   *)
(* the run.                                                                *)
LEMMA LoopRecent ==
  ASSUME DetourInv, ldn_runtime_still_allowed
  PROVE  /\ Recent'
         /\ phase' = "backoff" /\ stopped_by' = "gate" /\ srv => backAge > Grace
<1>0. GateInv /\ Recent
  BY Zenon DEF DetourInv
<1>1. /\ phase = "running" /\ sleep = 0
      /\ UNCHANGED <<comm, pub, srv, sameFor, backAge>>
  BY Zenon DEF ldn_runtime_still_allowed, histVars
<1>2. /\ {sameFor, backAge, last_active, finalize_tick} \subseteq Nat /\ Settle \in Nat
  BY <1>0 DEF GateInv, Clocks, Recent, Settle
<1>3. CASE NoApplication /\ Stop("app")
  BY <1>0, <1>1, <1>3, Zenon DEF Stop, Recent
<1>4. CASE ldn_gate_poll /\ Stop("gate") /\ ~ldn_gate_is_active(gst', last_active', finalize_tick')
  <2>1. phase' = "backoff"
    BY <1>4, Zenon DEF Stop
  <2>2. Recent'
    BY <1>0, <1>1, <2>1, Zenon DEF Recent
  <2>3. ASSUME srv, backAge <= Grace PROVE FALSE
    <3>1. /\ gst = "finalize" => finalize_tick <= backAge
          /\ last_active <= Timeout
      BY <1>0, <1>1, <1>2, <2>3, TimeoutAssumption DEF Recent
    <3>2. /\ last_active' \in {last_active, 0}
          /\ gst' = "finalize" => finalize_tick' \in {finalize_tick, 0}
          /\ gst' = "finalize" => gst = "finalize" \/ finalize_tick' = 0
      BY <1>0, <1>1, <1>4, <2>3, RunningPoll, Zenon
    <3>3. last_active' <= Timeout
      BY <1>2, <3>1, <3>2
    <3>4. gst' = "finalize" => finalize_tick' <= Grace
      BY <1>2, <2>3, <3>1, <3>2
    <3> QED  BY <1>4, <3>3, <3>4, Zenon DEF ldn_gate_is_active
  <2> QED  BY <1>2, <2>2, <2>3
<1>5. CASE ldn_gate_poll /\ SleepFor(RunPeriod) /\ UNCHANGED phase
  <2>1. sleep' = RunPeriod /\ phase' = "running"
    BY <1>1, <1>5, Zenon DEF SleepFor
  <2>2. comm' # "None" =>
           \/ sameFor' + sleep' + (IF conn' = "stale" THEN RunPeriod ELSE 0) <= Settle
           \/ conn' = "live" /\ gst' # "finalize" /\ last_active' + sleep' <= RunPeriod
    <3> SUFFICES ASSUME comm # "None"
                 PROVE  \/ sameFor + RunPeriod + (IF conn' = "stale" THEN RunPeriod ELSE 0)
                              <= Settle
                        \/ /\ conn' = "live" /\ gst' # "finalize"
                           /\ last_active' + RunPeriod <= RunPeriod
      BY <1>1, <2>1, Zenon
    <3>1. srv /\ pub \notin {"none", "finalize"}
      BY <1>0, Zenon DEF Recent
    <3>2. CASE conn = "stale" /\ conn' = "none"
      BY <1>0, <1>1, <1>2, <3>2 DEF Recent
    <3>3. CASE conn' = "live" /\ gst' = pub /\ last_active' = 0
      BY <3>1, <3>3
    <3> QED  BY <1>0, <1>1, <1>5, <3>1, <3>2, <3>3, RunningPoll, Zenon
  <2>3. ASSUME backAge <= Grace
        PROVE  /\ gst' = "finalize" => finalize_tick' <= backAge
               /\ last_active' <= backAge + RunPeriod
    <3>1. \/ UNCHANGED <<gst, last_active, finalize_tick>>
          \/ /\ gst' = pub /\ last_active' \in {last_active, 0}
             /\ pub = "finalize" => finalize_tick' = IF gst = "finalize" THEN finalize_tick ELSE 0
      BY <1>0, <1>1, <1>5, PollCases, Zenon
    <3> QED  BY <1>0, <1>1, <1>2, <2>3, <3>1 DEF Recent
  <2> QED  BY <1>0, <1>1, <2>1, <2>2, <2>3, Zenon DEF Recent
<1> QED  BY <1>3, <1>4, <1>5, Zenon DEF ldn_runtime_still_allowed

(* What ldn_mitm and the game do takes no time: a game that comes back to  *)
(* LDN has all of Settle before it.                                        *)
LEMMA MitmRecent ==
  ASSUME DetourInv,
         \/ \E new \in CommStates : setState(new)
         \/ Initialize \/ Scan \/ InitGateClient \/ MitmExit
  PROVE  Recent'
<1>0. GateInv /\ Recent
  BY Zenon DEF DetourInv
<1>1. /\ Settle = StartMax + RunPeriod + RunPeriod
      /\ phase = "running" => sleep <= StartMax + RunPeriod
  BY <1>0 DEF GateInv, Clocks, Settle
<1>2. ASSUME UNCHANGED <<backAge, gst, last_active, finalize_tick, phase, sleep>>,
             comm' # "None" => srv' /\ pub' \notin {"none", "finalize"},
             comm' # "None" =>
                conn' = conn /\ (sameFor' = 0 \/ (sameFor' = sameFor /\ comm # "None"))
      PROVE  Recent'
  <2>1. ASSUME phase = "running", comm' # "None"
        PROVE  \/ sameFor' + sleep + (IF conn = "stale" THEN RunPeriod ELSE 0) <= Settle
               \/ conn = "live" /\ gst # "finalize" /\ last_active + sleep <= RunPeriod
    <3>1. CASE sameFor' = 0
      BY <1>0, <1>1, <2>1, <3>1 DEF GateInv, Clocks
    <3>2. CASE sameFor' = sameFor /\ comm # "None"
      BY <1>0, <2>1, <3>2, Zenon DEF Recent
    <3> QED  BY <1>2, <2>1, <3>1, <3>2, Zenon
  <2> QED  BY <1>0, <1>2, <2>1, Zenon DEF Recent
<1>3. ASSUME NEW new \in CommStates, setState(new) PROVE Recent'
  <2>1. /\ srv /\ comm' = new
        /\ UNCHANGED <<srv, backAge, gst, conn, last_active, finalize_tick, phase, sleep>>
    BY <1>3, Zenon DEF setState, History, gateVars, loopVars
  <2>2. new # "None" => sameFor' = 0 \/ (sameFor' = sameFor /\ comm # "None")
    BY <1>3, Zenon DEF setState, History
  <2>3. new # "None" => pub' \notin {"none", "finalize"}
    <3> SUFFICES ASSUME new # "None" PROVE pub' \notin {"none", "finalize"}
      BY Zenon
    <3>1. new = "Initialized" => comm # "None"
      BY <1>3, Zenon DEF setState, MayBecome
    <3>2. gate_event_for_state_transition(comm, new) \in {"prepare", "host", "connect", "idle"}
      BY <1>3, <3>1, Zenon DEF gate_event_for_state_transition, CommStates
    <3> QED  BY <1>3, <3>2, Zenon DEF setState, NotifyLanPlayGate
  <2> QED  BY <1>2, <2>1, <2>2, <2>3, Zenon
<1>4. CASE Initialize
  <2>1. comm' # "None" /\ pub' = "prepare" /\ srv /\ srv'
    BY <1>4, Zenon DEF Initialize, NotifyLanPlayGate
  <2>2. UNCHANGED <<backAge, gst, conn, last_active, finalize_tick, phase, sleep>>
    BY <1>4, Zenon DEF Initialize, History, gateVars, loopVars
  <2>3. sameFor' = 0 \/ (sameFor' = sameFor /\ comm # "None")
    BY <1>4, <2>1, Zenon DEF Initialize, History
  <2> QED  BY <1>2, <2>1, <2>2, <2>3, Zenon
<1>5. CASE Scan
  <2>1. /\ comm # "None" /\ pub' = "scan" /\ srv
        /\ UNCHANGED <<comm, backAge, sameFor, srv, conn, gst, last_active,
                       finalize_tick, phase, sleep>>
    BY <1>5, Zenon DEF Scan, NotifyLanPlayGate, gateVars, loopVars, histVars
  <2> QED  BY <1>2, <2>1, Zenon
<1>6. CASE InitGateClient \/ MitmExit
  <2>1. comm' = "None" /\ UNCHANGED <<backAge, gst, last_active, finalize_tick, phase, sleep>>
    BY <1>0, <1>6, Zenon DEF InitGateClient, MitmExit, History, gateVars, loopVars, histVars, Recent
  <2> QED  BY <1>2, <2>1, Zenon
<1> QED  BY <1>3, <1>4, <1>5, <1>6, Zenon

(* A second passes: when the game has been in LDN for more than Settle,    *)
(* the main thread knows.                                                  *)
LEMMA TickRecent ==
  ASSUME DetourInv, GateTick
  PROVE  Recent'
<1>0. GateInv /\ Recent
  BY Zenon DEF DetourInv
<1>1. /\ sleep > 0 /\ sleep' = sleep - 1
      /\ last_active' = IF last_active < Timeout + 1 THEN last_active + 1 ELSE Timeout + 1
      /\ finalize_tick' = IF finalize_tick < Grace + 1 THEN finalize_tick + 1 ELSE Grace + 1
      /\ sameFor' = IF phase = "running"
                    THEN IF sameFor < StopWithin + 1 THEN sameFor + 1 ELSE StopWithin + 1
                    ELSE 0
      /\ backAge' = IF comm # "None" /\ sameFor' > Settle THEN 0
                    ELSE IF backAge < Grace + 1 THEN backAge + 1 ELSE Grace + 1
      /\ UNCHANGED <<comm, pub, srv, gst, conn, phase>>
  BY Zenon DEF GateTick, Older, mitmVars
<1>2. /\ Settle \in Nat /\ StopWithin \in Nat
      /\ {sleep, sleep', sameFor, last_active, finalize_tick, backAge} \subseteq Nat
      /\ last_active <= Timeout + 1 /\ finalize_tick <= Grace + 1
  BY <1>0, <1>1 DEF GateInv, Clocks, Recent, StopWithin, Settle
<1>3. backAge' \in 0 .. Grace + 1
  BY <1>1, <1>2
<1>4. /\ phase = "running" => sameFor' + sleep' <= sameFor + sleep
      /\ last_active' + sleep' <= last_active + sleep
      /\ last_active' <= last_active + 1 /\ finalize_tick' <= finalize_tick + 1
      /\ sameFor' \in Nat /\ last_active' \in Nat /\ finalize_tick' \in Nat
  BY <1>1, <1>2
<1>5. ASSUME phase = "running", comm # "None"
      PROVE  \/ sameFor' + sleep' + (IF conn = "stale" THEN RunPeriod ELSE 0) <= Settle
             \/ conn = "live" /\ gst # "finalize" /\ last_active' + sleep' <= RunPeriod
  <2>1. CASE sameFor + sleep + (IF conn = "stale" THEN RunPeriod ELSE 0) <= Settle
    BY <1>2, <1>4, <1>5, <2>1
  <2>2. CASE conn = "live" /\ gst # "finalize" /\ last_active + sleep <= RunPeriod
    BY <1>2, <1>4, <2>2
  <2> QED  BY <1>0, <1>5, <2>1, <2>2, Zenon DEF Recent
<1>6. ASSUME phase = "running", backAge' <= Grace
      PROVE  /\ gst = "finalize" => finalize_tick' <= backAge'
             /\ last_active' <= backAge' + RunPeriod
  <2>1. CASE comm # "None" /\ sameFor' > Settle
    <3>1. ~(sameFor' + sleep' + (IF conn = "stale" THEN RunPeriod ELSE 0) <= Settle)
      BY <1>2, <1>4, <2>1
    <3>2. gst # "finalize" /\ last_active' + sleep' <= RunPeriod
      BY <1>5, <1>6, <2>1, <3>1, Zenon
    <3> QED  BY <1>1, <1>2, <1>4, <2>1, <3>2
  <2>2. CASE ~(comm # "None" /\ sameFor' > Settle)
    <3>1. backAge <= Grace /\ backAge' = backAge + 1
      BY <1>1, <1>2, <1>6, <2>2
    <3>2. /\ gst = "finalize" => finalize_tick <= backAge
          /\ last_active <= backAge + RunPeriod
      BY <1>0, <1>6, <3>1, Zenon DEF Recent
    <3> QED  BY <1>2, <1>4, <3>1, <3>2
  <2> QED  BY <2>1, <2>2, Zenon
<1> QED  BY <1>0, <1>1, <1>3, <1>5, <1>6, Zenon DEF Recent

(* Every step keeps DetourInv, and ends a run by the gate only when there  *)
(* was no detour to tolerate.                                              *)
LEMMA StepKeepsDetour ==
  ASSUME DetourInv, [GateNext]_ldnVars
  PROVE  /\ DetourInv'
         /\ phase = "running" /\ phase' = "backoff" /\ stopped_by' = "gate" /\ srv =>
               backAge > Grace
<1>0. GateInv' /\ Recent
  BY StepKeepsGate, Zenon DEF DetourInv
<1>1. CASE wait_for_ldn_activity
  <2>1. phase = "waiting"
    BY <1>1, Zenon DEF wait_for_ldn_activity
  <2> QED  BY <1>0, <1>1, <2>1, WaitRecent, Zenon DEF DetourInv
<1>2. CASE ldn_runtime_still_allowed
  BY <1>0, <1>2, LoopRecent, Zenon DEF DetourInv
<1>3. CASE \/ \E new \in CommStates : setState(new)
           \/ Initialize \/ Scan \/ InitGateClient \/ MitmExit
  <2>1. UNCHANGED phase
    BY <1>3, Zenon DEF setState, Initialize, Scan, InitGateClient, MitmExit, loopVars
  <2> QED  BY <1>0, <1>3, <2>1, MitmRecent, Zenon DEF DetourInv
<1>4. CASE GateTick
  <2>1. UNCHANGED phase
    BY <1>4, Zenon DEF GateTick
  <2> QED  BY <1>0, <1>4, <2>1, TickRecent, Zenon DEF DetourInv
<1>5. CASE AppChange \/ pgl_thread_fn \/ UNCHANGED ldnVars
  <2>1. UNCHANGED <<comm, pub, srv, gst, conn, last_active, finalize_tick, phase, sleep,
                    sameFor, backAge>>
    BY <1>5, Zenon DEF AppChange, pgl_thread_fn, ldnVars, mitmVars, gateVars, loopVars, histVars
  <2> QED  BY <1>0, <2>1, Zenon DEF DetourInv, Recent
<1>6. CASE RunEnds \/ BackoffEnds \/ SysmoduleRestarts
  <2>1. /\ phase' # "running" /\ (phase = "running" => stopped_by' = "other")
        /\ UNCHANGED <<comm, pub, srv, backAge>>
    BY <1>6, Zenon DEF RunEnds, BackoffEnds, SysmoduleRestarts, Stop, mitmVars, histVars
  <2> QED  BY <1>0, <2>1, Zenon DEF DetourInv, Recent
<1> QED  BY <1>1, <1>2, <1>3, <1>4, <1>5, <1>6, Zenon DEF GateNext, MainThread

(* DetourTolerated for all timeouts and periods with Grace + RunPeriod at  *)
(* most Timeout: a game that leaves LDN and comes back for long enough to  *)
(* be seen keeps its run for Grace from then on, through restarts of       *)
(* ldn_mitm and of the sysmodule.                                          *)
THEOREM DetoursAreTolerated == GateSpec => DetourTolerated
<1>1. GateInit => DetourInv
  BY InitGate DEF GateInit, DetourInv, Recent
<1>2. DetourInv /\ [GateNext]_ldnVars => DetourInv'
  BY StepKeepsDetour, Zenon
<1>3. DetourInv /\ [GateNext]_ldnVars =>
         [phase = "running" /\ phase' = "backoff" /\ stopped_by' = "gate" /\ srv =>
             backAge > Grace]_ldnVars
  BY StepKeepsDetour, Zenon
<1> QED  BY <1>1, <1>2, <1>3, PTL DEF GateSpec, DetourTolerated

HIDE LdnGateAssumption

-----------------------------------------------------------------------------
(* The session table of the LDN bridge.                                    *)

USE TcpSessionsAssumption

SessRecords ==
    [active : BOOLEAN, thread_created : BOOLEAN, client_fd : Fds \cup {-1}, target : Targets]

(* Where threads are, and what they hold.                                  *)
Typed ==
    /\ sess \in [Slots -> SessRecords]
    /\ thread \in [Slots -> {"none", "start", "loop", "mark", "close", "exited"}]
    /\ apc \in {"init", "loop", "wait", "recv4", "place", "join", "create",
                "fail", "close", "exited"}
    /\ afd \in Fds \cup {-1} /\ aslot \in Slots /\ atarget \in Targets
    /\ mpc \in {"run", "bridge_close", "closing", "join_tcp", "join_relay",
                "wait_sessions", "freed"}
    /\ msl \in 0 .. SessionMax

Placing == apc \in {"create", "fail"}

(* The table tells the truth about the threads: thread_created says that   *)
(* there is one, active that it has yet to mark its slot free, or is about *)
(* to be made.  The accept thread joins only a thread that is past that.   *)
TableInv ==
    /\ \A i \in Slots : sess[i].thread_created <=> thread[i] # "none"
    /\ \A i \in Slots : sess[i].active <=>
          (thread[i] \in {"start", "loop", "mark"} \/ (Placing /\ aslot = i))
    /\ apc = "join" => thread[aslot] \in {"close", "exited"}
    /\ Placing => thread[aslot] = "none"
    /\ ~ready => apc \in {"init", "exited"} /\ \A i \in Slots : thread[i] = "none"

(* What the main thread has joined is gone.                                *)
MainInv ==
    /\ mpc \in {"join_relay", "wait_sessions", "freed"} => apc = "exited"
    /\ mpc \in {"wait_sessions", "freed"} => ipc = "exited"
    /\ mpc = "wait_sessions" => \A i \in Slots : i < msl => thread[i] = "none"
    /\ mpc = "freed" => \A i \in Slots : thread[i] = "none"

SlotInv == Typed /\ TableInv /\ MainInv

(* The first state.                                                        *)
LEMMA InitSlot == Init => SlotInv
<1> SUFFICES ASSUME Init PROVE SlotInv
  BY Zenon
<1>1. NoTarget \in Targets
  BY Zenon DEF NoTarget
<1>2. 0 \in Slots /\ 0 \in Fds
  BY DEF Slots, Fds
<1>3. Typed
  <2>1. sess \in [Slots -> SessRecords]
    BY <1>1, <1>2, Zenon DEF Init, SessRecords
  <2>2. thread \in [Slots -> {"none", "start", "loop", "mark", "close", "exited"}]
    BY Zenon DEF Init
  <2>3. QED
    BY <1>1, <1>2, <2>1, <2>2 DEF Init, Typed
<1>4. \A i \in Slots : ~sess[i].active /\ ~sess[i].thread_created /\ thread[i] = "none"
  BY Zenon DEF Init
<1>5. apc \in {"init", "exited"} /\ mpc = "run"
  BY Zenon DEF Init
<1>6. TableInv
  BY <1>4, <1>5, Zenon DEF TableInv, Placing
<1>7. QED
  BY <1>3, <1>5, <1>6, Zenon DEF SlotInv, MainInv

(* A slot is marked free: tcp_session_thread_fn, or threadCreate failed.   *)
LEMMA MarkedFree ==
  ASSUME Typed, NEW i \in Slots,
         sess' = [sess EXCEPT ![i].active = FALSE, ![i].client_fd = -1]
  PROVE  /\ sess' \in [Slots -> SessRecords]
         /\ \A k \in Slots : /\ sess'[k].thread_created = sess[k].thread_created
                             /\ k # i => sess'[k] = sess[k]
         /\ ~sess'[i].active /\ sess'[i].client_fd = -1
BY ZenonT(30) DEF Typed, SessRecords

(* Every step of a session thread keeps SlotInv.                           *)
LEMMA SessionStep ==
  ASSUME SlotInv, NEW i \in Slots, Session(i)
  PROVE  SlotInv'
<1>1. CASE SessionStart(i)
  BY <1>1 DEF SessionStart, SlotInv, Typed, TableInv, MainInv, Placing, tableVars,
              acceptVars, mainVars, injectVars
<1>2. CASE SessionLoopEnds(i)
  BY <1>2 DEF SessionLoopEnds, SlotInv, Typed, TableInv, MainInv, Placing, tableVars,
              acceptVars, mainVars, injectVars
<1>3. CASE SessionMarkFree(i)
  <2>1. /\ thread[i] = "mark" /\ apc # "join" /\ thread' = [thread EXCEPT ![i] = "close"]
        /\ sess' = [sess EXCEPT ![i].active = FALSE, ![i].client_fd = -1]
        /\ UNCHANGED <<ready, apc, afd, aslot, atarget, ipc, mpc, msl>>
    BY <1>3, Zenon DEF SessionMarkFree, TableUnlocked, acceptVars, mainVars, injectVars
  <2>2. /\ sess' \in [Slots -> SessRecords]
        /\ \A k \in Slots : /\ sess'[k].thread_created = sess[k].thread_created
                            /\ k # i => sess'[k] = sess[k]
        /\ ~sess'[i].active
    BY <2>1, MarkedFree, Zenon DEF SlotInv
  <2>3. Typed'
    BY <2>1, <2>2, Zenon DEF SlotInv, Typed
  <2>4. TableInv'
    BY <2>1, <2>2 DEF SlotInv, Typed, TableInv, Placing
  <2>5. MainInv'
    BY <2>1, Zenon DEF SlotInv, Typed, MainInv
  <2>6. QED
    BY <2>3, <2>4, <2>5, Zenon DEF SlotInv
<1>4. CASE SessionClose(i)
  BY <1>4 DEF SessionClose, SlotInv, Typed, TableInv, MainInv, Placing, tableVars,
              acceptVars, mainVars, injectVars
<1>5. QED
  BY <1>1, <1>2, <1>3, <1>4, Zenon DEF Session

(* The thread of a slot is closed.                                         *)
LEMMA CreatedCleared ==
  ASSUME NEW table \in [Slots -> SessRecords], NEW i \in Slots,
         NEW new, new = [table EXCEPT ![i].thread_created = FALSE]
  PROVE  /\ new \in [Slots -> SessRecords]
         /\ \A k \in Slots : /\ (new[k].active <=> table[k].active)
                             /\ new[k].client_fd = table[k].client_fd
                             /\ k # i => new[k] = table[k]
         /\ ~new[i].thread_created
<1>1. /\ new[i] = [table[i] EXCEPT !.thread_created = FALSE]
      /\ \A k \in Slots : k # i => new[k] = table[k]
      /\ DOMAIN new = Slots /\ new = [k \in Slots |-> new[k]]
  BY Zenon
<1>2. table[i] \in SessRecords
  BY Zenon
<1>3. /\ new[i] \in SessRecords /\ ~new[i].thread_created
      /\ (new[i].active <=> table[i].active) /\ new[i].client_fd = table[i].client_fd
  BY <1>1, <1>2, Zenon DEF SessRecords
<1>4. QED
  BY <1>1, <1>3, Zenon

(* A connection is placed in slot i of a table.                            *)
LEMMA Published ==
  ASSUME Typed, NEW i \in Slots, NEW table \in [Slots -> SessRecords], Publish(i, table)
  PROVE  /\ sess' \in [Slots -> SessRecords]
         /\ \A k \in Slots : /\ sess'[k].thread_created = table[k].thread_created
                             /\ k # i => sess'[k] = table[k]
         /\ sess'[i].active /\ sess'[i].client_fd = afd /\ apc' = "create"
<1>1. /\ sess' = [table EXCEPT ![i] = [table[i] EXCEPT !.active = TRUE, !.client_fd = afd,
                                                     !.target = atarget]]
      /\ apc' = "create"
  BY Zenon DEF Publish
<1>2. table[i] \in SessRecords /\ afd \in Fds \cup {-1} /\ atarget \in Targets
  BY Zenon DEF Typed
<1>3. /\ sess'[i] = [table[i] EXCEPT !.active = TRUE, !.client_fd = afd, !.target = atarget]
      /\ \A k \in Slots : k # i => sess'[k] = table[k]
      /\ DOMAIN sess' = Slots /\ sess' = [k \in Slots |-> sess'[k]]
  BY <1>1, Zenon
<1>4. /\ sess'[i] \in SessRecords /\ sess'[i].active /\ sess'[i].client_fd = afd
      /\ sess'[i].thread_created = table[i].thread_created
  BY <1>2, <1>3, Zenon DEF SessRecords
<1>5. QED
  BY <1>1, <1>3, <1>4, Zenon

(* The same after the slot's thread was joined.                            *)
LEMMA PublishedAfterJoin ==
  ASSUME Typed, Publish(aslot, [sess EXCEPT ![aslot].thread_created = FALSE])
  PROVE  /\ sess' \in [Slots -> SessRecords]
         /\ \A k \in Slots : k # aslot => sess'[k] = sess[k]
         /\ sess'[aslot].active /\ sess'[aslot].client_fd = afd
         /\ ~sess'[aslot].thread_created /\ apc' = "create"
<1> DEFINE table == [sess EXCEPT ![aslot].thread_created = FALSE]
<1>1. /\ table \in [Slots -> SessRecords]
      /\ \A k \in Slots : k # aslot => table[k] = sess[k]
      /\ ~table[aslot].thread_created
  BY CreatedCleared, Zenon DEF Typed
<1>2. Publish(aslot, table) /\ aslot \in Slots
  BY Zenon DEF Typed
<1> HIDE DEF table
<1>3. QED
  BY <1>1, <1>2, Published

(* Every step of ldn_bridge_tcp_thread_fn keeps SlotInv.                   *)
LEMMA AcceptStep ==
  ASSUME SlotInv, Accept
  PROVE  SlotInv'
<1>0. 0 \in Slots /\ NoTarget \in Targets
  BY DEF Slots, NoTarget
<1>1. CASE AcceptInit
  <2>1. /\ apc = "init" /\ apc' \in {"loop", "exited"} /\ ready'
        /\ UNCHANGED <<thread, afd, aslot, atarget, ipc, mpc, msl>>
    BY <1>1, Zenon DEF AcceptInit, threadVars, injectVars, mainVars
  <2>2. CASE ready
    <3>1. sess' = sess
      BY <1>1, <2>2, Zenon DEF AcceptInit
    <3>2. QED
      BY <2>1, <2>2, <3>1, Zenon DEF SlotInv, Typed, TableInv, MainInv, Placing
  <2>3. CASE ~ready
    <3>1. sess' = [i \in Slots |-> [sess[i] EXCEPT !.active = FALSE,
                        !.thread_created = FALSE, !.client_fd = -1]]
      BY <1>1, <2>3, Zenon DEF AcceptInit
    <3>2. sess' \in [Slots -> SessRecords]
      BY ZenonT(30), <3>1 DEF SlotInv, Typed, SessRecords
    <3>3. \A i \in Slots : ~sess'[i].active /\ ~sess'[i].thread_created
      BY <3>1, Zenon DEF SlotInv, Typed, SessRecords
    <3>4. \A i \in Slots : thread[i] = "none"
      BY <2>3, Zenon DEF SlotInv, TableInv
    <3>5. QED
      BY <2>1, <3>2, <3>3, <3>4, Zenon DEF SlotInv, Typed, TableInv, MainInv, Placing
  <2>4. QED
    BY <2>2, <2>3, Zenon
<1>2. CASE AcceptLoop \/ AcceptNothing
  <2>1. /\ apc \in {"loop", "wait"} /\ apc' \in {"loop", "wait", "exited"}
        /\ UNCHANGED <<sess, ready, thread, afd, aslot, atarget, ipc, mpc, msl>>
    BY <1>2, Zenon DEF AcceptLoop, AcceptNothing, tableVars, threadVars, injectVars, mainVars
  <2>2. QED
    BY <2>1, Zenon DEF SlotInv, Typed, TableInv, MainInv, Placing
<1>3. CASE AcceptConn
  <2>1. /\ apc = "wait" /\ apc' = "recv4" /\ afd' \in Fds
        /\ UNCHANGED <<sess, ready, thread, aslot, atarget, ipc, mpc, msl>>
    BY <1>3, Zenon DEF AcceptConn, tableVars, threadVars, injectVars, mainVars
  <2>2. QED
    BY <2>1, Zenon DEF SlotInv, Typed, TableInv, MainInv, Placing
<1>4. CASE AcceptRecv4
  <2>1. /\ apc = "recv4" /\ apc' \in {"close", "place"} /\ atarget' \in Targets
        /\ UNCHANGED <<sess, ready, thread, afd, aslot, ipc, mpc, msl>>
    BY <1>4, Zenon DEF AcceptRecv4, tableVars, threadVars, injectVars, mainVars, SlotInv, Typed
  <2>2. QED
    BY <2>1, Zenon DEF SlotInv, Typed, TableInv, MainInv, Placing
<1>5. CASE AcceptPlace
  <2>1. /\ apc = "place"
        /\ UNCHANGED <<ready, thread, afd, atarget, ipc, mpc, msl>>
    BY <1>5, Zenon DEF AcceptPlace, injectVars, mainVars
  <2>2. ASSUME NEW i \in Slots, ~sess[i].active, aslot' = i,
               IF sess[i].thread_created
               THEN apc' = "join" /\ UNCHANGED <<sess, tconn>> ELSE Publish(i, sess)
        PROVE  SlotInv'
    <3>1. CASE sess[i].thread_created
      <4>1. apc' = "join" /\ sess' = sess
        BY <2>2, <3>1, Zenon
      <4>2. thread[i] \in {"close", "exited"}
        BY <2>2, <3>1, Zenon DEF SlotInv, Typed, TableInv
      <4>3. QED
        BY <2>1, <2>2, <4>1, <4>2, Zenon DEF SlotInv, Typed, TableInv, MainInv, Placing
    <3>2. CASE ~sess[i].thread_created
      <4>1. /\ sess' \in [Slots -> SessRecords]
            /\ \A k \in Slots : /\ sess'[k].thread_created = sess[k].thread_created
                                /\ k # i => sess'[k] = sess[k]
            /\ sess'[i].active /\ apc' = "create"
        BY <2>2, <3>2, Published, Zenon DEF SlotInv, Typed
      <4>2. thread[i] = "none"
        BY <3>2, Zenon DEF SlotInv, TableInv
      <4>3. QED
        BY <2>1, <2>2, <4>1, <4>2, Zenon DEF SlotInv, Typed, TableInv, MainInv, Placing
    <3>3. QED
      BY <3>1, <3>2, Zenon
  <2>3. ASSUME apc' = "close", UNCHANGED <<sess, tconn, aslot>> PROVE SlotInv'
    BY <2>1, <2>3, Zenon DEF SlotInv, Typed, TableInv, MainInv, Placing
  <2>4. QED
    BY <1>5, <2>2, <2>3, Zenon DEF AcceptPlace
<1>6. CASE AcceptJoin
  <2>1. /\ apc = "join" /\ thread[aslot] = "exited" /\ apc' = "create"
        /\ thread' = [thread EXCEPT ![aslot] = "none"]
        /\ UNCHANGED <<ready, afd, aslot, atarget, ipc, mpc, msl>>
    BY <1>6, Zenon DEF AcceptJoin, ThreadGone, Publish, injectVars, mainVars
  <2>2. /\ sess' \in [Slots -> SessRecords]
        /\ \A k \in Slots : k # aslot => sess'[k] = sess[k]
        /\ sess'[aslot].active /\ ~sess'[aslot].thread_created
    BY <1>6, PublishedAfterJoin, Zenon DEF AcceptJoin, SlotInv
  <2>3. QED
    BY <2>1, <2>2, Zenon DEF SlotInv, Typed, TableInv, MainInv, Placing
<1>7. CASE AcceptCreate
  <2>1. apc = "create" /\ UNCHANGED <<ready, ipc, mpc, msl>>
    BY <1>7, Zenon DEF AcceptCreate, injectVars, mainVars
  <2>2. CASE apc' = "fail" /\ UNCHANGED <<sess, thread, afd, aconn, atarget, aslot>>
    BY <2>1, <2>2, Zenon DEF SlotInv, Typed, TableInv, MainInv, Placing
  <2>3. CASE /\ sess' = [sess EXCEPT ![aslot].thread_created = TRUE]
             /\ thread' = [thread EXCEPT ![aslot] = "start"]
             /\ apc' = "loop" /\ AcceptLocalsDead
    <3>1. /\ sess' \in [Slots -> SessRecords]
          /\ \A k \in Slots :
                (sess'[k].active <=> sess[k].active) /\ (k # aslot => sess'[k] = sess[k])
          /\ sess'[aslot].thread_created
      <4> DEFINE table == [sess EXCEPT ![aslot].thread_created = TRUE]
      <4>1. /\ table \in [Slots -> SessRecords]
            /\ \A k \in Slots :
                  (table[k].active <=> sess[k].active) /\ (k # aslot => table[k] = sess[k])
            /\ table[aslot].thread_created
        <5>1. sess \in [Slots -> SessRecords] /\ aslot \in Slots /\ sess[aslot] \in SessRecords
          BY Zenon DEF SlotInv, Typed
        <5>2. /\ table[aslot] = [sess[aslot] EXCEPT !.thread_created = TRUE]
              /\ \A k \in Slots : k # aslot => table[k] = sess[k]
              /\ DOMAIN table = Slots /\ table = [k \in Slots |-> table[k]]
          BY <5>1, Zenon
        <5> HIDE DEF table
        <5>3. /\ table[aslot] \in SessRecords /\ table[aslot].thread_created
              /\ table[aslot].active <=> sess[aslot].active
          BY ONLY <5>1, <5>2, Zenon DEF SessRecords
        <5>4. table \in [Slots -> SessRecords]
          BY <5>1, <5>2, <5>3, Zenon
        <5>5. \A k \in Slots : k # aslot => (table[k].active <=> sess[k].active)
          BY <5>2, Zenon
        <5>6. QED
          BY <5>2, <5>3, <5>4, <5>5, Zenon
      <4>2. sess' = table
        BY <2>3, Zenon
      <4>3. QED
        BY ONLY <4>1, <4>2, Zenon
    <3>2. sess[aslot].active
      BY <2>1, Zenon DEF SlotInv, Typed, TableInv, Placing
    <3>3. afd' = -1 /\ atarget' \in Targets /\ aslot' \in Slots
      BY <1>0, <2>3, Zenon DEF AcceptLocalsDead
    <3>4. Typed'
      BY <2>1, <2>3, <3>1, <3>3, Zenon DEF SlotInv, Typed
    <3>5. TableInv'
      BY <2>1, <2>3, <3>1, <3>2, <3>3 DEF SlotInv, Typed, TableInv, Placing
    <3>6. QED
      BY <2>1, <2>3, <3>4, <3>5, Zenon DEF SlotInv, MainInv
  <2>4. QED
    BY <1>7, <2>2, <2>3, Zenon DEF AcceptCreate
<1>8. CASE AcceptFail
  <2>1. /\ apc = "fail" /\ apc' = "close"
        /\ sess' = [sess EXCEPT ![aslot].active = FALSE, ![aslot].client_fd = -1]
        /\ UNCHANGED <<ready, thread, afd, aslot, atarget, ipc, mpc, msl>>
    BY <1>8, Zenon DEF AcceptFail, threadVars, injectVars, mainVars
  <2>2. /\ sess' \in [Slots -> SessRecords]
        /\ \A k \in Slots : /\ sess'[k].thread_created = sess[k].thread_created
                            /\ k # aslot => sess'[k] = sess[k]
        /\ ~sess'[aslot].active
    BY <2>1, MarkedFree, Zenon DEF SlotInv, Typed
  <2>3. QED
    BY <2>1, <2>2, Zenon DEF SlotInv, Typed, TableInv, MainInv, Placing
<1>9. CASE AcceptClose
  <2>1. /\ apc = "close" /\ apc' = "loop"
        /\ afd' = -1 /\ atarget' \in Targets /\ aslot' \in Slots
        /\ UNCHANGED <<sess, ready, thread, ipc, mpc, msl>>
    BY <1>0, <1>9, Zenon
       DEF AcceptClose, AcceptLocalsDead, tableVars, threadVars, injectVars, mainVars
  <2>2. QED
    BY <2>1, Zenon DEF SlotInv, Typed, TableInv, MainInv, Placing
<1>10. QED
  BY <1>1, <1>2, <1>3, <1>4, <1>5, <1>6, <1>7, <1>8, <1>9, Zenon DEF Accept

(* Every step of the cleanup of run_service keeps SlotInv.                 *)
LEMMA TeardownStep ==
  ASSUME SlotInv, Teardown
  PROVE  SlotInv'
<1>1. CASE BridgeSnapshot
  <2>1. /\ mpc = "bridge_close" /\ mpc' = "closing"
        /\ UNCHANGED <<ready, thread, apc, afd, aslot, atarget, ipc, msl>>
    BY <1>1, Zenon DEF BridgeSnapshot, threadVars, acceptVars, injectVars
  <2>2. CASE sess' = [i \in Slots |-> [sess[i] EXCEPT !.client_fd = -1]]
    <3>1. sess' \in [Slots -> SessRecords]
      BY <2>2 DEF SlotInv, Typed, SessRecords
    <3>2. \A i \in Slots : /\ sess'[i].active <=> sess[i].active
                           /\ sess'[i].thread_created <=> sess[i].thread_created
      <4>1. ASSUME NEW i \in Slots
            PROVE  /\ sess[i] \in SessRecords
                   /\ sess'[i] = [sess[i] EXCEPT !.client_fd = -1]
        BY <2>2, Zenon DEF SlotInv, Typed
      <4>2. QED
        BY ONLY <4>1, Zenon DEF SessRecords
    <3>3. Typed' /\ MainInv'
      BY <2>1, <3>1, Zenon DEF SlotInv, Typed, MainInv
    <3>4. TableInv'
      BY <2>1, <3>2, Zenon DEF SlotInv, TableInv, Placing
    <3>5. QED
      BY <3>3, <3>4, Zenon DEF SlotInv
  <2>3. CASE sess' = sess
    BY <2>1, <2>3, Zenon DEF SlotInv, Typed, TableInv, MainInv, Placing
  <2>4. QED
    BY <1>1, <2>2, <2>3, Zenon DEF BridgeSnapshot
<1>2. CASE BridgeCloseFds
  <2>1. /\ mpc' \in {"closing", "join_tcp"}
        /\ UNCHANGED <<sess, ready, thread, apc, afd, aslot, atarget, ipc, msl>>
    BY <1>2, Zenon DEF BridgeCloseFds, tableVars, threadVars, acceptVars, injectVars
  <2>2. QED
    BY <2>1 DEF SlotInv, Typed, TableInv, MainInv, Placing
<1>3. CASE JoinThreads
  <2>1. /\ \/ mpc = "join_tcp" /\ apc = "exited" /\ mpc' = "join_relay"
           \/ mpc = "join_relay" /\ ipc = "exited" /\ mpc' = "wait_sessions"
        /\ msl' = 0
        /\ UNCHANGED <<sess, ready, thread, apc, afd, aslot, atarget, ipc>>
    BY <1>3, Zenon DEF JoinThreads, tableVars, threadVars, acceptVars, injectVars
  <2>2. \A i \in Slots : ~(i < 0)
    BY DEF Slots
  <2>3. QED
    BY <2>1, <2>2 DEF SlotInv, Typed, TableInv, MainInv, Placing
<1>4. CASE WaitSessions
  <2>1. /\ mpc = "wait_sessions"
        /\ UNCHANGED <<ready, apc, afd, aslot, atarget, ipc>>
    BY <1>4, Zenon DEF WaitSessions, acceptVars, injectVars
  <2>2. CASE msl = SessionMax
    <3>1. mpc' = "freed" /\ msl' = 0 /\ UNCHANGED <<sess, thread>>
      BY <1>4, <2>2, Zenon DEF WaitSessions
    <3>2. \A i \in Slots : thread[i] = "none"
      BY <2>1, <2>2 DEF SlotInv, MainInv, Slots
    <3>3. QED
      BY <2>1, <3>1, <3>2 DEF SlotInv, Typed, TableInv, MainInv, Placing
  <2>3. CASE msl # SessionMax
    <3>1. msl \in Slots /\ msl' = msl + 1 /\ mpc' = mpc /\ msl' \in 0 .. SessionMax
      BY <1>4, <2>3 DEF WaitSessions, SlotInv, Typed, Slots
    <3>2. \A i \in Slots : i < msl' => i < msl \/ i = msl
      BY <3>1 DEF Slots
    <3>3. CASE sess[msl].thread_created
      <4>1. thread' = [thread EXCEPT ![msl] = "none"]
        BY <1>4, <2>3, <3>3, Zenon DEF WaitSessions, ThreadGone
      <4>2. thread[msl] = "exited"
        BY <1>4, <2>3, <3>3, Zenon DEF WaitSessions
      <4>3. /\ sess' \in [Slots -> SessRecords]
            /\ \A k \in Slots : /\ sess'[k].active <=> sess[k].active
                                /\ k # msl => sess'[k] = sess[k]
            /\ ~sess'[msl].thread_created
        <5>1. sess' = [sess EXCEPT ![msl].thread_created = FALSE]
          BY <1>4, <2>3, <3>3, Zenon DEF WaitSessions
        <5>2. sess \in [Slots -> SessRecords] /\ sess[msl] \in SessRecords
          BY <3>1, Zenon DEF SlotInv, Typed
        <5>3. /\ sess'[msl] = [sess[msl] EXCEPT !.thread_created = FALSE]
              /\ \A k \in Slots : k # msl => sess'[k] = sess[k]
              /\ sess' = [k \in Slots |-> sess'[k]]
          BY <3>1, <5>1, <5>2, Zenon
        <5>4. /\ sess'[msl] \in SessRecords /\ ~sess'[msl].thread_created
              /\ sess'[msl].active <=> sess[msl].active
          BY ONLY <5>2, <5>3, Zenon DEF SessRecords
        <5>5. sess' \in [Slots -> SessRecords]
          BY <5>2, <5>3, <5>4, Zenon
        <5>6. QED
          BY <5>3, <5>4, <5>5, Zenon
      <4>4. Typed'
        BY <2>1, <3>1, <4>1, <4>3, Zenon DEF SlotInv, Typed
      <4>5. TableInv'
        BY <2>1, <3>1, <4>1, <4>2, <4>3 DEF SlotInv, Typed, TableInv, MainInv, Placing
      <4>6. MainInv'
        BY <2>1, <3>1, <3>2, <4>1, Zenon DEF SlotInv, Typed, MainInv
      <4>7. QED
        BY <4>4, <4>5, <4>6, Zenon DEF SlotInv
    <3>4. CASE ~sess[msl].thread_created
      <4>1. UNCHANGED <<thread, sess>>
        BY <1>4, <2>3, <3>4, Zenon DEF WaitSessions
      <4>2. thread[msl] = "none"
        BY <3>1, <3>4, Zenon DEF SlotInv, TableInv
      <4>3. Typed' /\ TableInv'
        BY <2>1, <3>1, <4>1, Zenon DEF SlotInv, Typed, TableInv, Placing
      <4>4. MainInv'
        BY <2>1, <3>1, <3>2, <4>1, <4>2, Zenon DEF SlotInv, MainInv
      <4>5. QED
        BY <4>3, <4>4, Zenon DEF SlotInv
    <3>5. QED
      BY <3>3, <3>4, Zenon
  <2>4. QED
    BY <2>2, <2>3, Zenon
<1>5. QED
  BY <1>1, <1>2, <1>3, <1>4, Zenon DEF Teardown

(* Every step keeps SlotInv.                                               *)
LEMMA StepKeepsSlots == SlotInv /\ [Next]_vars => SlotInv'
<1> SUFFICES ASSUME SlotInv, [Next]_vars PROVE SlotInv'
  BY Zenon
<1>1. CASE (\E t \in Targets : InjectLookup(t)) \/ InjectDone \/ RelayExit
  <2>1. /\ ipc # "exited"
        /\ UNCHANGED <<sess, ready, thread, apc, afd, aslot, atarget, mpc, msl>>
    BY <1>1, Zenon
       DEF InjectLookup, InjectDone, RelayExit, tableVars, threadVars, acceptVars, mainVars
  <2>2. QED
    BY <2>1 DEF SlotInv, Typed, TableInv, MainInv, Placing
<1>2. CASE LinkDown \/ StopRunning
  <2>1. /\ mpc = "run" /\ mpc' \in {"run", "bridge_close"}
        /\ UNCHANGED <<sess, ready, thread, apc, afd, aslot, atarget, ipc, msl>>
    BY <1>2, Zenon DEF LinkDown, StopRunning, tableVars, threadVars, acceptVars, injectVars
  <2>2. QED
    BY <2>1 DEF SlotInv, Typed, TableInv, MainInv, Placing
<1>3. CASE NextRun
  <2>1. /\ mpc = "freed" /\ mpc' = "run" /\ apc' \in {"init", "exited"}
        /\ UNCHANGED <<sess, ready, thread, afd, aslot, atarget, msl>>
    BY <1>3, Zenon DEF NextRun, tableVars, threadVars
  <2>2. apc = "exited"
    BY <2>1, Zenon DEF SlotInv, MainInv
  <2>3. QED
    BY <2>1, <2>2, Zenon DEF SlotInv, Typed, TableInv, MainInv, Placing
<1>4. CASE UNCHANGED vars
  BY <1>4, ZenonT(30) DEF vars, tableVars, threadVars, acceptVars, injectVars, mainVars,
              SlotInv, Typed, TableInv, MainInv, Placing
<1>5. QED
  BY <1>1, <1>2, <1>3, <1>4, SessionStep, AcceptStep, TeardownStep, Zenon DEF Next, Finished

(* StackIsFree for every size of the table: threadCreate never gets a      *)
(* stack that a thread still uses.                                         *)
THEOREM StacksAreFree == Spec => []StackIsFree
<1>1. SlotInv => StackIsFree
  BY Zenon DEF SlotInv, TableInv, StackIsFree, Placing
<1>2. QED
  BY <1>1, InitSlot, StepKeepsSlots, PTL DEF Spec

(* NoSlotLost for every size of the table.                                 *)
THEOREM SlotsAreKept == Spec => []NoSlotLost
<1>1. SlotInv => NoSlotLost
  BY Zenon DEF SlotInv, TableInv, NoSlotLost, Placing
<1>2. QED
  BY <1>1, InitSlot, StepKeepsSlots, PTL DEF Spec
-----------------------------------------------------------------------------
Holding == apc \in {"recv4", "place", "join", "create", "fail", "close"}
Live(i) == thread[i] \in {"loop", "mark", "close"}

FdTyped ==
    /\ fdtab \in [Fds -> Nat] /\ nconn \in Nat /\ aconn \in Nat
    /\ tfd \in [Slots -> Fds \cup {-1}] /\ tconn \in [Slots -> Nat]

(* Who will close a descriptor that is open: the accept thread, the main   *)
(* thread, or a session thread that has read it or has yet to.             *)
Owned(fd) ==
    \/ Holding /\ afd = fd
    \/ fd \in snap
    \/ \E i \in Slots : thread[i] = "start" /\ sess[i].client_fd = fd
    \/ \E i \in Slots : Live(i) /\ tfd[i] = fd

(* Every open descriptor is owned.  The one the accept thread is about to  *)
(* hand over may have been taken by ldn_bridge_close.                      *)
OwnInv ==
    /\ FdTyped
    /\ mpc # "closing" => snap = {}
    /\ Holding => afd \in Fds
    /\ apc = "create" => fdtab[afd] = 0 \/ sess[aslot].client_fd = afd \/ afd \in snap
    /\ \A fd \in Fds : fdtab[fd] # 0 => Owned(fd)

(* Before anything is open nothing has to be owned.                        *)
LEMMA InitOwn == Init => OwnInv
  BY DEF Init, OwnInv, FdTyped, Holding

(* What close does to the descriptors.                                     *)
LEMMA Closed ==
  ASSUME FdTyped, NEW fd \in Fds \cup {-1}, Close(fd)
  PROVE  /\ fdtab' \in [Fds -> Nat]
         /\ \A g \in Fds : fdtab'[g] = IF g = fd THEN 0 ELSE fdtab[g]
BY Zenon DEF FdTyped, Close, Fds

(* The steps of the session threads keep every open descriptor owned.      *)
LEMMA SessionOwn ==
  ASSUME SlotInv, OwnInv, NEW i \in Slots, Session(i)
  PROVE  OwnInv'
<1>1. UNCHANGED <<apc, afd, aconn, aslot, nconn, mpc, snap>>
  BY Zenon DEF Session, SessionStart, SessionLoopEnds, SessionMarkFree, SessionClose,
         connVars, acceptVars, mainVars
<1>2. thread[aslot] = "none" \/ apc # "create"
  BY Zenon DEF SlotInv, TableInv, Placing
<1>3. CASE SessionStart(i)
  <2>1. /\ thread[i] = "start" /\ thread' = [thread EXCEPT ![i] = "loop"]
        /\ tfd' = [tfd EXCEPT ![i] = sess[i].client_fd] /\ UNCHANGED <<fdtab, sess, tconn>>
    BY <1>3, Zenon DEF SessionStart, connVars, tableVars
  <2>2. FdTyped'
    BY <1>1, <2>1, Zenon DEF OwnInv, FdTyped, SlotInv, Typed, SessRecords
  <2>3. ASSUME NEW fd \in Fds, fdtab[fd] # 0 PROVE Owned(fd)'
    <3>1. Owned(fd)
      BY <2>3, Zenon DEF OwnInv
    <3>2. ASSUME NEW k \in Slots, thread[k] = "start" /\ sess[k].client_fd = fd PROVE Owned(fd)'
      BY <2>1, <3>2 DEF Owned, Live, SlotInv, Typed, OwnInv, FdTyped
    <3>3. ASSUME NEW k \in Slots, Live(k) /\ tfd[k] = fd PROVE Owned(fd)'
      BY <2>1, <3>3 DEF Owned, Live, SlotInv, Typed, OwnInv, FdTyped
    <3>4. QED
      BY <1>1, <3>1, <3>2, <3>3, Zenon DEF Owned, Holding
  <2>4. QED
    BY <1>1, <2>1, <2>2, <2>3, Zenon DEF OwnInv, Holding
<1>4. CASE SessionLoopEnds(i) \/ SessionMarkFree(i)
  <2>1. /\ Live(i) /\ thread'[i] \in {"mark", "close"} /\ UNCHANGED <<fdtab, tfd, tconn>>
        /\ \A k \in Slots : k # i => thread'[k] = thread[k]
    BY <1>4, Zenon DEF SessionLoopEnds, SessionMarkFree, Live, connVars, SlotInv, Typed
  <2>2. \A k \in Slots : k # i => sess'[k] = sess[k]
    <3>1. CASE SessionLoopEnds(i)
      BY <3>1, Zenon DEF SessionLoopEnds, tableVars
    <3>2. CASE SessionMarkFree(i)
      BY <3>2, MarkedFree, Zenon DEF SessionMarkFree, SlotInv
    <3>3. QED
      BY <1>4, <3>1, <3>2, Zenon
  <2>3. ASSUME NEW fd \in Fds, Owned(fd) PROVE Owned(fd)'
    BY <1>1, <2>1, <2>2, <2>3, Zenon DEF Owned, Live, Holding
  <2>4. aslot \in Slots /\ (apc = "create" => aslot # i)
    BY <1>2, <2>1, Zenon DEF Live, SlotInv, Typed
  <2>5. QED
    BY <1>1, <2>1, <2>2, <2>3, <2>4, Zenon DEF OwnInv, FdTyped, Holding
<1>5. CASE SessionClose(i)
  <2>1. /\ thread[i] = "close" /\ thread' = [thread EXCEPT ![i] = "exited"]
        /\ tconn' = [tconn EXCEPT ![i] = 0] /\ Close(tfd[i]) /\ UNCHANGED <<sess, tfd>>
    BY <1>5, Zenon DEF SessionClose, tableVars
  <2>2. /\ fdtab' \in [Fds -> Nat]
        /\ \A g \in Fds : fdtab'[g] = IF g = tfd[i] THEN 0 ELSE fdtab[g]
    BY <2>1, Closed, Zenon DEF OwnInv, FdTyped
  <2>3. FdTyped'
    BY <1>1, <2>1, <2>2, Zenon DEF OwnInv, FdTyped
  <2>4. ASSUME NEW fd \in Fds, fdtab'[fd] # 0 PROVE Owned(fd)'
    <3>1. fd # tfd[i] /\ Owned(fd)
      BY <2>2, <2>4, Zenon DEF OwnInv
    <3>2. QED
      BY <1>1, <2>1, <3>1, Zenon DEF Owned, Live, Holding, SlotInv, Typed
  <2>5. QED
    BY <1>1, <2>1, <2>2, <2>3, <2>4, Zenon DEF OwnInv, Holding
<1>6. QED
  BY <1>3, <1>4, <1>5, Zenon DEF Session

(* A connection handed to a slot without a thread leaves the others owned. *)
LEMMA PublishOwn ==
  ASSUME SlotInv, OwnInv, Holding, NEW i \in Slots, aslot' = i, apc' = "create",
         \A k \in Slots : k # i => sess'[k] = sess[k] /\ thread'[k] = thread[k] /\ tfd'[k] = tfd[k],
         sess'[i].client_fd = afd, thread[i] \in {"none", "exited"},
         thread'[i] = "none", tconn' = [tconn EXCEPT ![i] = aconn],
         tfd' \in [Slots -> Fds \cup {-1}],
         UNCHANGED <<afd, aconn, fdtab, nconn, mpc, snap>>
  PROVE  OwnInv'
<1>1. FdTyped'
  BY Zenon DEF OwnInv, FdTyped
<1>2. ASSUME NEW fd \in Fds, Owned(fd) PROVE Owned(fd)'
  BY <1>2, Zenon DEF Owned, Live, Holding
<1>3. QED
  BY <1>1, <1>2, Zenon DEF OwnInv, Holding

(* The steps of ldn_bridge_tcp_thread_fn keep every open descriptor owned. *)
LEMMA AcceptOwn ==
  ASSUME SlotInv, OwnInv, Accept
  PROVE  OwnInv'
<1>1. CASE AcceptInit
  <2>1. /\ apc = "init" /\ apc' \in {"loop", "exited"}
        /\ UNCHANGED <<thread, tfd, tconn, afd, aconn, fdtab, nconn, mpc, snap>>
    BY <1>1, Zenon DEF AcceptInit, threadVars, connVars, mainVars
  <2>2. ready => sess' = sess
    BY <1>1, Zenon DEF AcceptInit
  <2>3. ~ready => \A i \in Slots : thread[i] = "none"
    BY Zenon DEF SlotInv, TableInv
  <2>4. ASSUME NEW fd \in Fds, Owned(fd) PROVE Owned(fd)'
    BY <2>1, <2>2, <2>3, <2>4, Zenon DEF Owned, Live, Holding
  <2>5. QED
    BY <2>1, <2>4, Zenon DEF OwnInv, FdTyped, Holding
<1>2. CASE AcceptLoop \/ AcceptNothing
  <2>1. /\ apc \in {"loop", "wait"} /\ apc' \in {"loop", "wait", "exited"}
        /\ UNCHANGED <<sess, thread, tfd, tconn, afd, aconn, fdtab, nconn, mpc, snap>>
    BY <1>2, Zenon DEF AcceptLoop, AcceptNothing, tableVars, threadVars, connVars, mainVars
  <2>2. ASSUME NEW fd \in Fds, Owned(fd) PROVE Owned(fd)'
    BY <2>1, <2>2, Zenon DEF Owned, Live, Holding
  <2>3. QED
    BY <2>1, <2>2, Zenon DEF OwnInv, FdTyped, Holding
<1>3. CASE AcceptConn
  <2>1. /\ apc = "wait" /\ apc' = "recv4" /\ afd' \in Fds
        /\ fdtab' = [fdtab EXCEPT ![afd'] = nconn + 1]
        /\ nconn' = nconn + 1 /\ aconn' = nconn + 1
        /\ UNCHANGED <<sess, thread, tfd, tconn, mpc, snap>>
    BY <1>3, Zenon DEF AcceptConn, tableVars, threadVars, mainVars
  <2>2. FdTyped'
    BY <2>1 DEF OwnInv, FdTyped
  <2>3. ASSUME NEW fd \in Fds, fdtab'[fd] # 0 PROVE Owned(fd)'
    <3>1. CASE fd = afd'
      BY <2>1, <3>1, Zenon DEF Owned, Holding
    <3>2. CASE fd # afd'
      <4>1. Owned(fd)
        BY <2>1, <2>3, <3>2, Zenon DEF OwnInv, FdTyped
      <4>2. QED
        BY <2>1, <4>1, Zenon DEF Owned, Live, Holding
    <3>3. QED
      BY <3>1, <3>2, Zenon
  <2>4. QED
    BY <2>1, <2>2, <2>3, Zenon DEF OwnInv, Holding
<1>4. CASE AcceptRecv4
  <2>1. /\ apc = "recv4" /\ apc' \in {"close", "place"}
        /\ UNCHANGED <<sess, thread, tfd, tconn, afd, aconn, fdtab, nconn, mpc, snap>>
    BY <1>4, Zenon DEF AcceptRecv4, tableVars, threadVars, connVars, mainVars
  <2>2. ASSUME NEW fd \in Fds, Owned(fd) PROVE Owned(fd)'
    BY <2>1, <2>2, Zenon DEF Owned, Live, Holding
  <2>3. QED
    BY <2>1, <2>2, Zenon DEF OwnInv, FdTyped, Holding
<1>5. CASE AcceptPlace
  <2>1. apc = "place" /\ UNCHANGED <<thread, tfd, afd, aconn, fdtab, nconn, mpc, snap>>
    BY <1>5, Zenon DEF AcceptPlace, connVars, mainVars
  <2>2. CASE apc' \in {"join", "close"} /\ UNCHANGED <<sess, tconn>>
    <3>1. ASSUME NEW fd \in Fds, Owned(fd) PROVE Owned(fd)'
      BY <2>1, <2>2, <3>1, Zenon DEF Owned, Live, Holding
    <3>2. QED
      BY <2>1, <2>2, <3>1, Zenon DEF OwnInv, FdTyped, Holding
  <2>3. ASSUME NEW i \in Slots, ~sess[i].thread_created, aslot' = i, Publish(i, sess)
        PROVE  OwnInv'
    <3>1. /\ \A k \in Slots : k # i => sess'[k] = sess[k]
          /\ sess'[i].client_fd = afd /\ apc' = "create"
      BY <2>3, Published DEF SlotInv, Typed
    <3>2. tconn' = [tconn EXCEPT ![i] = aconn]
      BY <2>3, Zenon DEF Publish
    <3>3. thread[i] = "none" /\ Holding
      BY <2>1, <2>3, Zenon DEF SlotInv, TableInv, Holding
    <3>4. QED
      BY <2>1, <2>3, <3>1, <3>2, <3>3, PublishOwn, Zenon DEF OwnInv, FdTyped
  <2>4. QED
    BY <1>5, <2>2, <2>3, Zenon DEF AcceptPlace
<1>6. CASE AcceptJoin
  <2>1. /\ apc = "join" /\ thread[aslot] = "exited" /\ aslot' = aslot
        /\ thread' = [thread EXCEPT ![aslot] = "none"] /\ tfd' = [tfd EXCEPT ![aslot] = -1]
        /\ tconn' = [tconn EXCEPT ![aslot] = aconn]
        /\ UNCHANGED <<afd, aconn, fdtab, nconn, mpc, snap>>
    BY <1>6, Zenon DEF AcceptJoin, ThreadGone, Publish, connVars, mainVars
  <2>2. /\ \A k \in Slots : k # aslot => sess'[k] = sess[k]
        /\ sess'[aslot].client_fd = afd /\ apc' = "create"
    BY <1>6, PublishedAfterJoin, Zenon DEF AcceptJoin, SlotInv
  <2>3. aslot \in Slots /\ Holding
    BY <2>1, Zenon DEF SlotInv, Typed, Holding
  <2>4. /\ \A k \in Slots : k # aslot => thread'[k] = thread[k] /\ tfd'[k] = tfd[k]
        /\ thread'[aslot] = "none" /\ tfd' \in [Slots -> Fds \cup {-1}]
    BY <2>1, <2>3, Zenon DEF SlotInv, Typed, OwnInv, FdTyped
  <2>5. QED
    BY <2>1, <2>2, <2>3, <2>4, PublishOwn, Zenon
<1>7. CASE AcceptCreate
  <2>1. apc = "create" /\ UNCHANGED <<tfd, tconn, fdtab, nconn, mpc, snap>>
    BY <1>7, Zenon DEF AcceptCreate, connVars, mainVars
  <2>2. CASE apc' = "fail" /\ UNCHANGED <<sess, thread, afd, aconn, atarget, aslot>>
    <3>1. ASSUME NEW fd \in Fds, Owned(fd) PROVE Owned(fd)'
      BY <2>1, <2>2, <3>1, Zenon DEF Owned, Live, Holding
    <3>2. QED
      BY <2>1, <2>2, <3>1, Zenon DEF OwnInv, FdTyped, Holding
  <2>3. CASE /\ sess' = [sess EXCEPT ![aslot].thread_created = TRUE]
             /\ thread' = [thread EXCEPT ![aslot] = "start"]
             /\ apc' = "loop" /\ AcceptLocalsDead
    <3>1. aslot \in Slots /\ \A k \in Slots : sess'[k].client_fd = sess[k].client_fd
      BY <2>3, Zenon DEF SlotInv, Typed, SessRecords
    <3>2. /\ thread'[aslot] = "start" /\ thread[aslot] = "none"
          /\ \A k \in Slots : k # aslot => thread'[k] = thread[k]
      BY <2>1, <2>3, Zenon DEF SlotInv, Typed, TableInv, Placing
    <3>3. ASSUME NEW fd \in Fds, fdtab[fd] # 0 PROVE Owned(fd)'
      <4>1. Owned(fd)
        BY <3>3, Zenon DEF OwnInv
      <4>2. CASE fd = afd
        <5>1. sess[aslot].client_fd = fd \/ fd \in snap
          BY <2>1, <3>3, <4>2, Zenon DEF OwnInv
        <5>2. QED
          BY <2>1, <3>1, <3>2, <5>1, Zenon DEF Owned
      <4>3. CASE fd # afd
        BY <2>1, <3>1, <3>2, <4>1, <4>3, Zenon DEF Owned, Live
      <4>4. QED
        BY <4>2, <4>3, Zenon
    <3>4. FdTyped'
      BY <2>1, <2>3, Zenon DEF OwnInv, FdTyped, AcceptLocalsDead
    <3>5. QED
      BY <2>1, <2>3, <3>3, <3>4, Zenon DEF OwnInv, Holding
  <2>4. QED
    BY <1>7, <2>2, <2>3, Zenon DEF AcceptCreate
<1>8. CASE AcceptFail
  <2>1. /\ apc = "fail" /\ apc' = "close"
        /\ sess' = [sess EXCEPT ![aslot].active = FALSE, ![aslot].client_fd = -1]
        /\ UNCHANGED <<thread, tfd, tconn, afd, aconn, fdtab, nconn, mpc, snap>>
    BY <1>8, Zenon DEF AcceptFail, threadVars, connVars, mainVars
  <2>2. \A k \in Slots : k # aslot => sess'[k] = sess[k]
    BY <2>1, MarkedFree, Zenon DEF SlotInv, Typed
  <2>3. thread[aslot] = "none"
    BY <2>1, Zenon DEF SlotInv, TableInv, Placing
  <2>4. ASSUME NEW fd \in Fds, Owned(fd) PROVE Owned(fd)'
    BY <2>1, <2>2, <2>3, <2>4, Zenon DEF Owned, Live, Holding
  <2>5. QED
    BY <2>1, <2>4, Zenon DEF OwnInv, FdTyped, Holding
<1>9. CASE AcceptClose
  <2>1. /\ apc = "close" /\ apc' = "loop" /\ Close(afd) /\ aconn' = 0
        /\ UNCHANGED <<sess, thread, tfd, tconn, nconn, mpc, snap>>
    BY <1>9, Zenon DEF AcceptClose, AcceptLocalsDead, tableVars, threadVars, mainVars
  <2>2. /\ fdtab' \in [Fds -> Nat]
        /\ \A g \in Fds : fdtab'[g] = IF g = afd THEN 0 ELSE fdtab[g]
    BY <2>1, Closed, Zenon DEF OwnInv, SlotInv, Typed
  <2>3. ASSUME NEW fd \in Fds, fdtab'[fd] # 0 PROVE Owned(fd)'
    <3>1. fd # afd /\ Owned(fd)
      BY <2>2, <2>3, Zenon DEF OwnInv
    <3>2. QED
      BY <2>1, <3>1, Zenon DEF Owned, Live, Holding
  <2>4. QED
    BY <2>1, <2>2, <2>3, Zenon DEF OwnInv, FdTyped, Holding
<1>10. QED
  BY <1>1, <1>2, <1>3, <1>4, <1>5, <1>6, <1>7, <1>8, <1>9, Zenon DEF Accept

(* The steps of the cleanup keep every open descriptor owned.              *)
LEMMA TeardownOwn ==
  ASSUME SlotInv, OwnInv, Teardown
  PROVE  OwnInv'
<1>1. CASE BridgeSnapshot
  <2>1. /\ mpc = "bridge_close" /\ mpc' = "closing"
        /\ UNCHANGED <<fdtab, nconn, thread, tfd, tconn, apc, afd, aconn, aslot>>
    BY <1>1, Zenon DEF BridgeSnapshot, connVars, threadVars, acceptVars
  <2>2. FdTyped'
    BY <2>1, Zenon DEF OwnInv, FdTyped
  <2>3. snap = {}
    BY <2>1, Zenon DEF OwnInv
  <2>4. CASE ready /\ snap' = {sess[i].client_fd : i \in Slots} \ {-1}
    <3>1. \A i \in Slots : sess[i].client_fd \in Fds => sess[i].client_fd \in snap'
      BY <2>4 DEF Fds
    <3>2. ASSUME NEW fd \in Fds, Owned(fd) PROVE Owned(fd)'
      BY <2>1, <2>3, <3>1, <3>2, Zenon DEF Owned, Live, Holding
    <3>3. apc = "create" => fdtab[afd] = 0 \/ afd \in snap'
      BY <2>3, <3>1, Zenon DEF OwnInv, SlotInv, Typed, Holding
    <3>4. QED
      BY <2>1, <2>2, <3>2, <3>3, Zenon DEF OwnInv, Holding
  <2>5. CASE ~ready /\ UNCHANGED <<snap, sess>>
    <3>1. ASSUME NEW fd \in Fds, Owned(fd) PROVE Owned(fd)'
      BY <2>1, <2>5, <3>1, Zenon DEF Owned, Live, Holding
    <3>2. QED
      BY <2>1, <2>2, <2>5, <3>1, Zenon DEF OwnInv, Holding
  <2>6. QED
    BY <1>1, <2>4, <2>5, Zenon DEF BridgeSnapshot
<1>2. CASE BridgeCloseFds
  <2>1. /\ mpc = "closing"
        /\ UNCHANGED <<nconn, sess, thread, tfd, tconn, apc, afd, aconn, aslot>>
    BY <1>2, Zenon DEF BridgeCloseFds, tableVars, threadVars, acceptVars
  <2>2. ASSUME NEW fd \in snap, Close(fd), snap' = snap \ {fd}, mpc' = mpc PROVE OwnInv'
    <3>1. \/ fd \in Fds /\ fdtab' = [fdtab EXCEPT ![fd] = 0]
          \/ fd \notin Fds /\ fdtab' = fdtab
      BY <2>2, Zenon DEF Close
    <3>2. FdTyped' /\ \A g \in Fds : fdtab'[g] = IF g = fd THEN 0 ELSE fdtab[g]
      BY <2>1, <3>1 DEF OwnInv, FdTyped
    <3>3. ASSUME NEW g \in Fds, fdtab'[g] # 0 PROVE Owned(g)'
      <4>1. g # fd /\ Owned(g)
        BY <3>2, <3>3, Zenon DEF OwnInv
      <4>2. QED
        BY <2>1, <2>2, <4>1, Zenon DEF Owned, Live, Holding
    <3>4. apc = "create" => fdtab'[afd] = 0 \/ sess[aslot].client_fd = afd \/ afd \in snap'
      BY <2>2, <3>2, Zenon DEF OwnInv, Holding
    <3>5. QED
      BY <2>1, <2>2, <3>2, <3>3, <3>4, Zenon DEF OwnInv, Holding
  <2>3. CASE snap = {} /\ mpc' = "join_tcp" /\ UNCHANGED <<fdtab, snap>>
    <3>1. ASSUME NEW g \in Fds, Owned(g) PROVE Owned(g)'
      BY <2>1, <2>3, <3>1, Zenon DEF Owned, Live, Holding
    <3>2. QED
      BY <2>1, <2>3, <3>1, Zenon DEF OwnInv, FdTyped, Holding
  <2>4. QED
    BY <1>2, <2>2, <2>3, Zenon DEF BridgeCloseFds
<1>3. CASE JoinThreads
  <2>1. /\ mpc # "closing" /\ mpc' # "closing"
        /\ UNCHANGED <<fdtab, nconn, sess, thread, tfd, tconn, apc, afd, aconn, aslot, snap>>
    BY <1>3, Zenon DEF JoinThreads, connVars, tableVars, threadVars, acceptVars
  <2>2. ASSUME NEW g \in Fds, Owned(g) PROVE Owned(g)'
    BY <2>1, <2>2, Zenon DEF Owned, Live, Holding
  <2>3. QED
    BY <2>1, <2>2, Zenon DEF OwnInv, FdTyped, Holding
<1>4. CASE WaitSessions
  <2>1. /\ mpc = "wait_sessions" /\ mpc' # "closing" /\ apc = "exited" /\ msl \in 0 .. SessionMax
        /\ UNCHANGED <<fdtab, nconn, tconn, apc, afd, aconn, aslot, snap>>
    BY <1>4, Zenon DEF WaitSessions, connVars, acceptVars, SlotInv, Typed, MainInv
  <2>2. CASE UNCHANGED <<sess, thread, tfd>>
    <3>1. ASSUME NEW g \in Fds, Owned(g) PROVE Owned(g)'
      BY <2>1, <2>2, <3>1, Zenon DEF Owned, Live, Holding
    <3>2. QED
      BY <2>1, <2>2, <3>1, Zenon DEF OwnInv, FdTyped, Holding
  <2>3. CASE /\ msl # SessionMax /\ thread[msl] = "exited" /\ ThreadGone(msl)
             /\ sess' = [sess EXCEPT ![msl].thread_created = FALSE]
    <3>1. msl \in Slots
      BY <2>1, <2>3 DEF Slots
    <3>2. \A k \in Slots : k # msl => /\ sess'[k] = sess[k] /\ thread'[k] = thread[k]
                                      /\ tfd'[k] = tfd[k]
      BY <2>3, <3>1, Zenon DEF ThreadGone, SlotInv, Typed, OwnInv, FdTyped
    <3>3. tfd' \in [Slots -> Fds \cup {-1}]
      BY <2>3, <3>1, Zenon DEF ThreadGone, OwnInv, FdTyped
    <3>4. ASSUME NEW g \in Fds, Owned(g) PROVE Owned(g)'
      BY <2>1, <2>3, <3>2, <3>4, Zenon DEF Owned, Live, Holding
    <3>5. QED
      BY <2>1, <3>3, <3>4, Zenon DEF OwnInv, FdTyped, Holding
  <2>4. QED
    BY <1>4, <2>2, <2>3, Zenon DEF WaitSessions
<1>5. QED
  BY <1>1, <1>2, <1>3, <1>4, Zenon DEF Teardown

(* Every step keeps OwnInv.                                                *)
LEMMA StepKeepsOwners == SlotInv /\ OwnInv /\ [Next]_vars => OwnInv'
<1> SUFFICES ASSUME SlotInv, OwnInv, [Next]_vars PROVE OwnInv'
  BY Zenon
<1>1. CASE \/ (\E t \in Targets : InjectLookup(t)) \/ InjectDone \/ RelayExit
           \/ LinkDown \/ StopRunning \/ NextRun \/ UNCHANGED vars
  <2>1. /\ UNCHANGED <<fdtab, nconn, sess, thread, tfd, tconn, afd, aconn, aslot, snap>>
        /\ apc' = apc \/ (apc = "exited" /\ apc' = "init")
        /\ mpc = "closing" <=> mpc' = "closing"
    <3>1. mpc = "freed" => apc = "exited"
      BY Zenon DEF SlotInv, MainInv
    <3>2. QED
      BY <1>1, <3>1, Zenon
         DEF InjectLookup, InjectDone, RelayExit, LinkDown, StopRunning, NextRun, vars,
             connVars, tableVars, threadVars, acceptVars, mainVars
  <2>2. ASSUME NEW fd \in Fds, Owned(fd) PROVE Owned(fd)'
    BY <2>1, <2>2, Zenon DEF Owned, Live, Holding
  <2>3. QED
    BY <2>1, <2>2, Zenon DEF OwnInv, FdTyped, Holding
<1>2. QED
  BY <1>1, SessionOwn, AcceptOwn, TeardownOwn, Zenon DEF Next, Finished

(* NothingOutlivesLp for every number of slots, descriptors, connections   *)
(* and runs: at lan_play_free no thread is left to close a descriptor, so  *)
(* none is open.                                                           *)
THEOREM NothingIsLeft == Spec => []NothingOutlivesLp
<1>1. SlotInv /\ OwnInv => NothingOutlivesLp
  <2> SUFFICES ASSUME SlotInv, OwnInv, mpc = "freed"
               PROVE  /\ apc = "exited" /\ ipc = "exited"
                      /\ \A i \in Slots : thread[i] = "none"
                      /\ \A fd \in Fds : fdtab[fd] = 0
    BY Zenon DEF NothingOutlivesLp
  <2>1. /\ apc = "exited" /\ ipc = "exited"
        /\ \A i \in Slots : thread[i] = "none"
    BY Zenon DEF SlotInv, MainInv
  <2>2. \A fd \in Fds : ~Owned(fd)
    BY <2>1, Zenon DEF OwnInv, Owned, Holding, Live
  <2>3. QED
    BY <2>1, <2>2, Zenon DEF OwnInv
<1>2. QED
  BY <1>1, InitSlot, StepKeepsSlots, InitOwn, StepKeepsOwners, PTL DEF Spec
-----------------------------------------------------------------------------
Busy(i) == thread[i] \in {"start", "loop", "mark", "close"}

(* The descriptor the thread of slot i uses, or is going to use.           *)
Held(i) == IF thread[i] = "start" THEN sess[i].client_fd ELSE tfd[i]

(* Until the main thread closes descriptors under their owners: a thread's *)
(* descriptor names the thread's connection, and no two threads have the   *)
(* same connection, so no two have the same descriptor either.             *)
RunInv ==
    mpc = "run" =>
       /\ \A i \in Slots : Busy(i) => /\ Held(i) \in Fds /\ fdtab[Held(i)] = tconn[i]
                                      /\ tconn[i] \in 1 .. nconn
       /\ \A i, k \in Slots : Busy(i) /\ Busy(k) /\ i # k => tconn[i] # tconn[k]
       /\ Holding => /\ fdtab[afd] = aconn /\ aconn \in 1 .. nconn
                     /\ \A i \in Slots : Busy(i) => tconn[i] # aconn
       /\ apc = "create" => sess[aslot].client_fd = afd /\ tconn[aslot] = aconn

(* What RunInv says of one thread, and of two.                             *)
LEMMA OfOne ==
  ASSUME RunInv, mpc = "run", NEW k \in Slots, Busy(k)
  PROVE  Held(k) \in Fds /\ fdtab[Held(k)] = tconn[k] /\ tconn[k] \in 1 .. nconn
BY Zenon DEF RunInv

(* Two threads serve two connections.                                      *)
LEMMA OfTwo ==
  ASSUME RunInv, mpc = "run", NEW k \in Slots, NEW l \in Slots, Busy(k), Busy(l), k # l
  PROVE  tconn[k] # tconn[l]
BY Zenon DEF RunInv

(* A step keeps RunInv if it starts no thread, leaves the threads their    *)
(* descriptors and connections, and does right by the accept thread.       *)
LEMMA RunKept ==
  ASSUME RunInv, mpc = "run", nconn \in Nat, nconn' \in Nat, nconn <= nconn',
         \A k \in Slots : Busy(k)' => /\ Busy(k) /\ Held(k)' = Held(k) /\ tconn'[k] = tconn[k]
                                      /\ fdtab'[Held(k)] = fdtab[Held(k)],
         Holding' => /\ fdtab'[afd'] = aconn' /\ aconn' \in 1 .. nconn'
                     /\ \A k \in Slots : Busy(k)' => tconn'[k] # aconn',
         apc' = "create" => sess'[aslot'].client_fd = afd' /\ tconn'[aslot'] = aconn'
  PROVE  RunInv'
<1>1. ASSUME NEW k \in Slots, Busy(k)'
      PROVE  Held(k)' \in Fds /\ fdtab'[Held(k)'] = tconn'[k] /\ tconn'[k] \in 1 .. nconn'
  <2>1. Held(k) \in Fds /\ fdtab[Held(k)] = tconn[k] /\ tconn[k] \in 1 .. nconn
    BY <1>1, OfOne, Zenon
  <2>2. tconn[k] \in 1 .. nconn'
    BY ONLY <2>1, nconn \in Nat, nconn' \in Nat, nconn <= nconn'
  <2>3. Held(k)' = Held(k) /\ tconn'[k] = tconn[k] /\ fdtab'[Held(k)] = fdtab[Held(k)]
    BY <1>1, Zenon
  <2>4. QED
    BY ONLY <2>1, <2>2, <2>3, Zenon
<1>2. ASSUME NEW k \in Slots, NEW l \in Slots, Busy(k)', Busy(l)', k # l
      PROVE  tconn'[k] # tconn'[l]
  <2>1. tconn[k] # tconn[l]
    BY <1>2, OfTwo, Zenon
  <2>2. QED
    BY <1>2, <2>1, Zenon
<1>3. QED
  BY <1>1, <1>2, Zenon DEF RunInv

(* The steps of a session thread keep RunInv: its close hits only its own  *)
(* connection.                                                             *)
LEMMA SessionRun ==
  ASSUME SlotInv, OwnInv, RunInv, NEW i \in Slots, Session(i)
  PROVE  RunInv'
<1>1. UNCHANGED <<apc, afd, aconn, aslot, nconn, mpc>>
  BY Zenon DEF Session, SessionStart, SessionLoopEnds, SessionMarkFree, SessionClose,
         connVars, acceptVars, mainVars
<1>2. Busy(i) /\ (apc = "create" => aslot # i) /\ aslot \in Slots
  BY Zenon DEF Session, SessionStart, SessionLoopEnds, SessionMarkFree, SessionClose, Busy,
         SlotInv, Typed, TableInv, Placing
<1>3. \A k \in Slots : k # i => sess'[k] = sess[k]
  <2>1. CASE SessionMarkFree(i)
    BY <2>1, MarkedFree, Zenon DEF SessionMarkFree, SlotInv
  <2>2. CASE ~SessionMarkFree(i)
    BY <2>2, Zenon DEF Session, SessionStart, SessionLoopEnds, SessionClose, tableVars
  <2>3. QED
    BY <2>1, <2>2, Zenon
<1>4. \A k \in Slots : k # i => thread'[k] = thread[k] /\ tfd'[k] = tfd[k] /\ tconn'[k] = tconn[k]
  BY Zenon DEF Session, SessionStart, SessionLoopEnds, SessionMarkFree, SessionClose,
         SlotInv, Typed, OwnInv, FdTyped
<1>5. \A k \in Slots : k # i => (Busy(k)' <=> Busy(k)) /\ Held(k)' = Held(k)
  BY <1>3, <1>4, Zenon DEF Busy, Held
<1>6. CASE SessionStart(i) \/ SessionLoopEnds(i) \/ SessionMarkFree(i)
  <2>1. UNCHANGED <<fdtab, tconn>>
    BY <1>6, Zenon DEF SessionStart, SessionLoopEnds, SessionMarkFree, connVars
  <2>2. Held(i)' = Held(i)
    BY <1>6, Zenon DEF SessionStart, SessionLoopEnds, SessionMarkFree, Held, SlotInv, Typed, OwnInv,
                FdTyped
  <2>3. \A k \in Slots : (Busy(k)' => Busy(k)) /\ Held(k)' = Held(k)
    BY <1>2, <1>5, <2>2, Zenon
  <2>4. QED
    BY <1>1, <1>2, <1>3, <2>1, <2>3, Zenon DEF RunInv, Holding
<1>7. CASE SessionClose(i)
  <2>1. /\ thread[i] = "close" /\ thread'[i] = "exited" /\ Close(tfd[i])
    BY <1>7, Zenon DEF SessionClose, SlotInv, Typed
  <2>2. \A g \in Fds : fdtab'[g] = IF g = tfd[i] THEN 0 ELSE fdtab[g]
    BY <2>1, Closed, Zenon DEF OwnInv, FdTyped
  <2>3. ~Busy(i)' /\ Held(i) = tfd[i]
    BY <2>1, Zenon DEF Busy, Held
  <2> SUFFICES ASSUME mpc = "run" PROVE RunInv'
    BY <1>1, Zenon DEF RunInv
  <2>4. ASSUME NEW k \in Slots, Busy(k), k # i PROVE Held(k) # tfd[i]
    <3>1. fdtab[Held(k)] = tconn[k]
      BY <2>4, OfOne, Zenon
    <3>2. fdtab[Held(i)] = tconn[i]
      BY <1>2, OfOne, Zenon
    <3>3. tconn[k] # tconn[i]
      BY <1>2, <2>4, OfTwo, Zenon
    <3>4. QED
      BY <2>3, <3>1, <3>2, <3>3, Zenon
  <2>5. Holding => afd # tfd[i] /\ afd \in Fds
    BY <1>2, <2>3, Zenon DEF RunInv, OwnInv
  <2>6. ASSUME NEW k \in Slots, Busy(k)'
        PROVE  /\ Busy(k) /\ Held(k)' = Held(k) /\ tconn'[k] = tconn[k]
               /\ fdtab'[Held(k)] = fdtab[Held(k)]
    <3>1. k # i
      BY <2>3, <2>6, Zenon
    <3>2. Busy(k) /\ Held(k)' = Held(k) /\ tconn'[k] = tconn[k]
      BY <1>4, <1>5, <2>6, <3>1, Zenon
    <3>3. QED
      BY <2>2, <2>4, <3>1, <3>2, OfOne, Zenon
  <2>7. Holding' => /\ fdtab'[afd'] = aconn' /\ aconn' \in 1 .. nconn'
                    /\ \A k \in Slots : Busy(k)' => tconn'[k] # aconn'
    BY <1>1, <2>2, <2>5, <2>6, Zenon DEF RunInv, Holding
  <2>8. apc' = "create" => sess'[aslot'].client_fd = afd' /\ tconn'[aslot'] = aconn'
    BY <1>1, <1>2, <1>3, <1>4, Zenon DEF RunInv
  <2>9. nconn \in Nat /\ nconn' \in Nat /\ nconn <= nconn'
    BY <1>1 DEF OwnInv, FdTyped
  <2>10. QED
    BY <2>6, <2>7, <2>8, <2>9, RunKept, Zenon
<1>8. QED
  BY <1>6, <1>7, Zenon DEF Session

(* The steps of the accept thread keep RunInv: a number it gets is free,   *)
(* so nobody holds it, and the slot it fills has no thread.                *)
LEMMA AcceptRun ==
  ASSUME SlotInv, OwnInv, RunInv, Accept
  PROVE  RunInv'
<1>0. UNCHANGED mpc
  BY Zenon DEF Accept, AcceptInit, AcceptLoop, AcceptNothing, AcceptConn, AcceptRecv4, AcceptPlace,
         AcceptJoin, AcceptCreate, AcceptFail, AcceptClose, mainVars
<1>1. CASE AcceptInit
  <2>1. /\ apc' \in {"loop", "exited"} /\ UNCHANGED <<fdtab, nconn, thread, tfd, tconn>>
    BY <1>1, Zenon DEF AcceptInit, connVars, threadVars
  <2>2. ready => sess' = sess
    BY <1>1, Zenon DEF AcceptInit
  <2>3. \A k \in Slots : (Busy(k)' <=> Busy(k)) /\ (Busy(k) => Held(k)' = Held(k))
    BY <2>1, <2>2, Zenon DEF Busy, Held, SlotInv, TableInv
  <2>4. QED
    BY <1>0, <2>1, <2>3, Zenon DEF RunInv, Holding
<1>2. CASE AcceptLoop \/ AcceptNothing \/ AcceptRecv4
  <2>1. /\ apc' \in {"loop", "wait", "exited", "close", "place"} /\ (Holding' => Holding)
        /\ UNCHANGED <<fdtab, nconn, sess, thread, tfd, tconn, afd, aconn>>
    BY <1>2, Zenon
       DEF AcceptLoop, AcceptNothing, AcceptRecv4, connVars, tableVars, threadVars, Holding
  <2>2. \A k \in Slots : (Busy(k)' <=> Busy(k)) /\ Held(k)' = Held(k)
    BY <2>1, Zenon DEF Busy, Held
  <2>3. QED
    BY <1>0, <2>1, <2>2, Zenon DEF RunInv
<1>3. CASE AcceptConn
  <2>1. /\ apc' = "recv4" /\ afd' \in Fds /\ fdtab[afd'] = 0
        /\ fdtab' = [fdtab EXCEPT ![afd'] = nconn + 1]
        /\ nconn' = nconn + 1 /\ aconn' = nconn + 1
        /\ UNCHANGED <<sess, thread, tfd, tconn>>
    BY <1>3, Zenon DEF AcceptConn, tableVars, threadVars
  <2>2. \A k \in Slots : (Busy(k)' <=> Busy(k)) /\ Held(k)' = Held(k)
    BY <2>1, Zenon DEF Busy, Held
  <2>3. /\ fdtab'[afd'] = nconn + 1 /\ \A g \in Fds : g # afd' => fdtab'[g] = fdtab[g]
        /\ nconn \in Nat
    BY <2>1, Zenon DEF OwnInv, FdTyped
  <2> SUFFICES ASSUME mpc = "run" PROVE RunInv'
    BY <1>0, Zenon DEF RunInv
  <2>4. ASSUME NEW k \in Slots, Busy(k)'
        PROVE  /\ Busy(k) /\ Held(k)' = Held(k) /\ tconn'[k] = tconn[k]
               /\ fdtab'[Held(k)] = fdtab[Held(k)] /\ tconn[k] \in 1 .. nconn
    <3>1. Busy(k) /\ Held(k)' = Held(k) /\ tconn'[k] = tconn[k]
      BY <2>1, <2>2, <2>4, Zenon
    <3>2. Held(k) \in Fds /\ fdtab[Held(k)] = tconn[k] /\ tconn[k] \in 1 .. nconn
      BY <3>1, OfOne, Zenon
    <3>3. Held(k) # afd'
      BY <2>1, <2>3, <3>2
    <3>4. QED
      BY <2>3, <3>1, <3>2, <3>3, Zenon
  <2>5. Holding' => /\ fdtab'[afd'] = aconn' /\ aconn' \in 1 .. nconn'
                    /\ \A k \in Slots : Busy(k)' => tconn'[k] # aconn'
    BY <2>1, <2>3, <2>4
  <2>6. nconn \in Nat /\ nconn' \in Nat /\ nconn <= nconn' /\ apc' # "create"
    BY <2>1, <2>3
  <2>7. QED
    BY <2>4, <2>5, <2>6, RunKept, Zenon
<1>4. CASE AcceptPlace
  <2>1. apc = "place" /\ UNCHANGED <<thread, tfd, afd, aconn, fdtab, nconn>>
    BY <1>4, Zenon DEF AcceptPlace, connVars
  <2>2. CASE apc' \in {"join", "close"} /\ UNCHANGED <<sess, tconn>>
    <3>1. \A k \in Slots : (Busy(k)' <=> Busy(k)) /\ Held(k)' = Held(k)
      BY <2>1, <2>2, Zenon DEF Busy, Held
    <3>2. QED
      BY <1>0, <2>1, <2>2, <3>1, Zenon DEF RunInv, Holding
  <2>3. ASSUME NEW i \in Slots, ~sess[i].thread_created, aslot' = i, Publish(i, sess)
        PROVE  RunInv'
    <3>1. /\ \A k \in Slots : k # i => sess'[k] = sess[k]
          /\ sess'[i].client_fd = afd /\ apc' = "create"
      BY <2>3, Published DEF SlotInv, Typed
    <3>2. tconn'[i] = aconn /\ \A k \in Slots : k # i => tconn'[k] = tconn[k]
      BY <2>3, Zenon DEF Publish, OwnInv, FdTyped
    <3>3. thread[i] = "none"
      BY <2>3, Zenon DEF SlotInv, TableInv
    <3>4. \A k \in Slots : /\ Busy(k)' <=> Busy(k)
                           /\ Busy(k) => k # i /\ Held(k)' = Held(k)
      BY <2>1, <3>1, <3>3, Zenon DEF Busy, Held
    <3> SUFFICES ASSUME mpc = "run" PROVE RunInv'
      BY <1>0, Zenon DEF RunInv
    <3>5. \A k \in Slots : Busy(k)' => /\ Busy(k) /\ Held(k)' = Held(k) /\ tconn'[k] = tconn[k]
                                       /\ fdtab'[Held(k)] = fdtab[Held(k)]
      BY <2>1, <3>2, <3>4, Zenon
    <3>6. Holding' => /\ fdtab'[afd'] = aconn' /\ aconn' \in 1 .. nconn'
                      /\ \A k \in Slots : Busy(k)' => tconn'[k] # aconn'
      BY <2>1, <3>5, Zenon DEF RunInv, Holding
    <3>7. apc' = "create" => sess'[aslot'].client_fd = afd' /\ tconn'[aslot'] = aconn'
      BY <2>1, <2>3, <3>1, <3>2, Zenon
    <3>8. nconn \in Nat /\ nconn' \in Nat /\ nconn <= nconn'
      BY <2>1 DEF OwnInv, FdTyped
    <3>9. RunInv /\ mpc = "run"
      BY Zenon
    <3>10. QED
      BY ONLY <3>5, <3>6, <3>7, <3>8, <3>9, RunKept, Zenon
  <2>4. QED
    BY <1>4, <2>2, <2>3, Zenon DEF AcceptPlace
<1>5. CASE AcceptJoin
  <2>1. /\ apc = "join" /\ thread[aslot] = "exited" /\ aslot' = aslot /\ aslot \in Slots
        /\ thread' = [thread EXCEPT ![aslot] = "none"] /\ tfd' = [tfd EXCEPT ![aslot] = -1]
        /\ tconn' = [tconn EXCEPT ![aslot] = aconn]
        /\ UNCHANGED <<afd, aconn, fdtab, nconn>>
    BY <1>5, Zenon DEF AcceptJoin, ThreadGone, Publish, connVars, SlotInv, Typed
  <2>2. /\ \A k \in Slots : k # aslot => sess'[k] = sess[k]
        /\ sess'[aslot].client_fd = afd /\ apc' = "create"
    BY <1>5, PublishedAfterJoin, Zenon DEF AcceptJoin, SlotInv
  <2>3. /\ thread'[aslot] = "none" /\ tconn'[aslot] = aconn
        /\ \A k \in Slots : k # aslot => /\ thread'[k] = thread[k] /\ tfd'[k] = tfd[k]
                                          /\ tconn'[k] = tconn[k]
    BY <2>1, Zenon DEF SlotInv, Typed, OwnInv, FdTyped
  <2>4. \A k \in Slots : /\ Busy(k)' <=> Busy(k)
                         /\ Busy(k) => k # aslot /\ Held(k)' = Held(k)
    BY <2>1, <2>2, <2>3, Zenon DEF Busy, Held
  <2> SUFFICES ASSUME mpc = "run" PROVE RunInv'
    BY <1>0, Zenon DEF RunInv
  <2>5. \A k \in Slots : Busy(k)' => /\ Busy(k) /\ Held(k)' = Held(k) /\ tconn'[k] = tconn[k]
                                     /\ fdtab'[Held(k)] = fdtab[Held(k)]
    BY <2>1, <2>3, <2>4, Zenon
  <2>6. Holding' => /\ fdtab'[afd'] = aconn' /\ aconn' \in 1 .. nconn'
                    /\ \A k \in Slots : Busy(k)' => tconn'[k] # aconn'
    BY <2>1, <2>5, Zenon DEF RunInv, Holding
  <2>7. apc' = "create" => sess'[aslot'].client_fd = afd' /\ tconn'[aslot'] = aconn'
    BY <2>1, <2>2, <2>3, Zenon
  <2>8. nconn' = nconn /\ nconn \in Nat
    BY <2>1, Zenon DEF OwnInv, FdTyped
  <2>9. nconn' \in Nat /\ nconn <= nconn'
    BY ONLY <2>8
  <2>10. QED
    BY <2>5, <2>6, <2>7, <2>8, <2>9, RunKept, Zenon
<1>6. CASE AcceptCreate
  <2>1. apc = "create" /\ aslot \in Slots /\ UNCHANGED <<tfd, tconn, fdtab, nconn>>
    BY <1>6, Zenon DEF AcceptCreate, connVars, SlotInv, Typed
  <2>2. CASE apc' = "fail" /\ UNCHANGED <<sess, thread, afd, aconn, atarget, aslot>>
    <3>1. \A k \in Slots : (Busy(k)' <=> Busy(k)) /\ Held(k)' = Held(k)
      BY <2>1, <2>2, Zenon DEF Busy, Held
    <3>2. QED
      BY <1>0, <2>1, <2>2, <3>1, Zenon DEF RunInv, Holding
  <2>3. CASE /\ sess' = [sess EXCEPT ![aslot].thread_created = TRUE]
             /\ thread' = [thread EXCEPT ![aslot] = "start"]
             /\ apc' = "loop" /\ AcceptLocalsDead
    <3>1. \A k \in Slots : sess'[k].client_fd = sess[k].client_fd
      BY <2>1, <2>3 DEF SlotInv, Typed, SessRecords
    <3>2. /\ thread'[aslot] = "start" /\ thread[aslot] = "none"
          /\ \A k \in Slots : k # aslot => thread'[k] = thread[k]
      BY <2>1, <2>3, Zenon DEF SlotInv, Typed, TableInv, Placing
    <3>3. /\ \A k \in Slots : k # aslot => (Busy(k)' <=> Busy(k)) /\ Held(k)' = Held(k)
          /\ \A k \in Slots : k = aslot => Held(k)' = sess[k].client_fd
      <4>1. tfd' = tfd
        BY <2>1, Zenon
      <4>2. QED
        BY <2>1, <3>1, <3>2, <4>1, Zenon DEF Busy, Held
    <3>4. Holding /\ ~Holding' /\ afd \in Fds /\ apc' # "create"
      BY <2>1, <2>3, Zenon DEF Holding, OwnInv
    <3>5. mpc = "run" => \A k \in Slots : k = aslot => Held(k)' = afd /\ tconn[k] = aconn
      BY <2>1, <3>3, Zenon DEF RunInv
    <3>6. QED
      BY <1>0, <2>1, <3>3, <3>4, <3>5, Zenon DEF RunInv
  <2>4. QED
    BY <1>6, <2>2, <2>3, Zenon DEF AcceptCreate
<1>7. CASE AcceptFail
  <2>1. /\ apc = "fail" /\ apc' = "close"
        /\ sess' = [sess EXCEPT ![aslot].active = FALSE, ![aslot].client_fd = -1]
        /\ UNCHANGED <<thread, tfd, tconn, afd, aconn, fdtab, nconn>>
    BY <1>7, Zenon DEF AcceptFail, threadVars, connVars
  <2>2. \A k \in Slots : k # aslot => sess'[k] = sess[k]
    BY <2>1, MarkedFree, Zenon DEF SlotInv, Typed
  <2>3. thread[aslot] = "none"
    BY <2>1, Zenon DEF SlotInv, TableInv, Placing
  <2>4. thread' = thread /\ tfd' = tfd
    BY <2>1, Zenon
  <2>5. \A k \in Slots : (Busy(k)' <=> Busy(k)) /\ (Busy(k) => Held(k)' = Held(k))
    BY <2>2, <2>3, <2>4, Zenon DEF Busy, Held
  <2>6. QED
    BY <1>0, <2>1, <2>5, Zenon DEF RunInv, Holding
<1>8. CASE AcceptClose
  <2>1. /\ apc = "close" /\ apc' = "loop" /\ Close(afd)
        /\ UNCHANGED <<sess, thread, tfd, tconn, nconn>>
    BY <1>8, Zenon DEF AcceptClose, AcceptLocalsDead, tableVars, threadVars
  <2>2. \A g \in Fds : fdtab'[g] = IF g = afd THEN 0 ELSE fdtab[g]
    BY <2>1, Closed, Zenon DEF OwnInv, SlotInv, Typed
  <2>3. \A k \in Slots : (Busy(k)' <=> Busy(k)) /\ Held(k)' = Held(k)
    BY <2>1, Zenon DEF Busy, Held
  <2>4. ASSUME mpc = "run", NEW k \in Slots, Busy(k) PROVE Held(k) # afd
    <3>1. fdtab[Held(k)] = tconn[k]
      BY <2>4, OfOne, Zenon
    <3>2. fdtab[afd] = aconn /\ tconn[k] # aconn
      BY <2>1, <2>4, Zenon DEF RunInv, Holding
    <3>3. QED
      BY <3>1, <3>2, Zenon
  <2>5. QED
    BY <1>0, <2>1, <2>2, <2>3, <2>4, ZenonT(30) DEF RunInv, Holding
<1>9. QED
  BY <1>1, <1>2, <1>3, <1>4, <1>5, <1>6, <1>7, <1>8, Zenon DEF Accept

(* Every step keeps RunInv.                                                *)
LEMMA StepKeepsRun == SlotInv /\ OwnInv /\ RunInv /\ [Next]_vars => RunInv'
<1> SUFFICES ASSUME SlotInv, OwnInv, RunInv, [Next]_vars PROVE RunInv'
  BY Zenon
<1>1. CASE \/ (\E t \in Targets : InjectLookup(t)) \/ InjectDone \/ RelayExit
           \/ LinkDown \/ StopRunning \/ UNCHANGED vars
  <2>1. /\ UNCHANGED <<fdtab, nconn, sess, thread, tfd, tconn, apc, afd, aconn, aslot>>
        /\ mpc' = "run" => mpc = "run"
    BY <1>1, Zenon DEF InjectLookup, InjectDone, RelayExit, LinkDown, StopRunning, vars,
           connVars, tableVars, threadVars, acceptVars, mainVars
  <2>2. \A k \in Slots : (Busy(k)' <=> Busy(k)) /\ Held(k)' = Held(k)
    BY <2>1, Zenon DEF Busy, Held
  <2>3. QED
    BY <2>1, <2>2, Zenon DEF RunInv, Holding
<1>2. CASE NextRun
  <2>1. \A k \in Slots : thread'[k] = "none"
    BY <1>2, Zenon DEF NextRun, threadVars, SlotInv, MainInv
  <2>2. apc' \in {"init", "exited"}
    BY <1>2, Zenon DEF NextRun
  <2>3. QED
    BY <2>1, <2>2, Zenon DEF RunInv, Busy, Holding
<1>3. CASE Teardown
  <2>1. mpc' # "run"
    BY <1>3, Zenon DEF Teardown, BridgeSnapshot, BridgeCloseFds, JoinThreads, WaitSessions
  <2>2. QED
    BY <2>1, Zenon DEF RunInv
<1>4. QED
  BY <1>1, <1>2, <1>3, SessionRun, AcceptRun, Zenon DEF Next, Finished

(* ThreadsOwnTheirSockets for every number of slots, descriptors and       *)
(* connections, although descriptor numbers are reused at once.            *)
THEOREM SocketsAreOwned == Spec => []ThreadsOwnTheirSockets
<1>1. Init => RunInv
  BY Zenon DEF Init, RunInv, Busy, Holding
<1>2. RunInv => ThreadsOwnTheirSockets
  <2> SUFFICES ASSUME RunInv, mpc = "run"
               PROVE  /\ \A i \in Slots : thread[i] \in {"loop", "mark", "close"} =>
                            tfd[i] # -1 /\ fdtab[tfd[i]] = tconn[i]
                      /\ Holding => fdtab[afd] = aconn
    BY Zenon DEF ThreadsOwnTheirSockets, Holding
  <2>1. \A i \in Slots : Live(i) => Busy(i) /\ Held(i) = tfd[i]
    BY Zenon DEF Live, Busy, Held
  <2>2. -1 \notin Fds
    BY DEF Fds
  <2>3. ASSUME NEW i \in Slots, Live(i) PROVE tfd[i] # -1 /\ fdtab[tfd[i]] = tconn[i]
    BY <2>1, <2>2, <2>3, OfOne, Zenon
  <2>4. Holding => fdtab[afd] = aconn
    BY Zenon DEF RunInv
  <2>5. QED
    BY <2>3, <2>4, Zenon DEF Live
<1>3. QED
  BY <1>1, <1>2, InitSlot, StepKeepsSlots, InitOwn, StepKeepsOwners, StepKeepsRun, PTL DEF Spec
=============================================================================
