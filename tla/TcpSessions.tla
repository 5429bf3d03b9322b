---------------------------- MODULE TcpSessions -----------------------------
(***************************************************************************)
(* The TCP half of the LDN bridge (sysmodule/source/ldn_bridge.cpp): the   *)
(* table g_sessions, shared by the accept thread, one thread per session,  *)
(* the relay thread that writes into sessions, and the main thread that    *)
(* starts and tears the bridge down once per run of run_service            *)
(* (main.cpp).  A step is what happens between two points where another    *)
(* thread can interleave; a critical section of g_sessions_mtx is one step *)
(* unless it blocks inside (the join in ldn_bridge_tcp_thread_fn).         *)
(*                                                                         *)
(* Descriptors are numbers that the system reuses, lowest first, so a      *)
(* number a thread remembers may name another connection later.            *)
(*                                                                         *)
(* A definition named Mut_X_Y is X with a slip of the kind Y; it is used   *)
(* only to see that a property notices the slip.                           *)
(***************************************************************************)
EXTENDS Integers, FiniteSets

CONSTANTS
    SessionMax,   \* TCP_SESSION_MAX
    MaxConns,     \* bound on the connections ldn_mitm opens, over all runs
    MaxFds,       \* descriptor numbers available to client sockets
    Targets,      \* target_ip values (remote virtual addresses)
    MaxRuns       \* bound on the runs of run_service

ASSUME TcpSessionsAssumption ==
    /\ SessionMax \in Nat \ {0} /\ MaxConns \in Nat /\ MaxFds \in Nat \ {0}
    /\ MaxRuns \in Nat \ {0} /\ Targets # {}

Slots == 0 .. SessionMax - 1
Fds   == 0 .. MaxFds - 1
Conns == 1 .. MaxConns

VARIABLES
    fdtab,     \* [Fds -> Conns \cup {0}]: the connection a number names, 0: closed
    nconn,     \* connections accepted so far
    sess,      \* g_sessions: active, thread_created, client_fd, target
    ready,     \* g_sessions_ready
    thread,    \* [Slots -> where the slot's session thread is]
    tfd,       \* [Slots -> the client_fd local of the session thread]
    tconn,     \* [Slots -> history: the connection the slot was filled for]
    apc, afd, aconn, atarget, aslot, \* the accept thread and its locals
    ipc, ifd, iconn,                 \* the relay thread in inject_from_relay
    mpc, snap, msl, runs,            \* the main thread, snap_fds, loop index
    running,   \* lp->running
    listening  \* g_bridge_tcp_fd >= 0

connVars   == <<fdtab, nconn>>
tableVars  == <<sess, ready>>
threadVars == <<thread, tfd, tconn>>
acceptVars == <<apc, afd, aconn, atarget, aslot>>
injectVars == <<ipc, ifd, iconn>>
mainVars   == <<mpc, snap, msl, runs, running, listening>>
vars == <<connVars, tableVars, threadVars, acceptVars, injectVars, mainVars>>

TypeOK ==
    /\ fdtab \in [Fds -> Conns \cup {0}] /\ nconn \in 0 .. MaxConns
    /\ sess \in [Slots -> [active : BOOLEAN, thread_created : BOOLEAN,
                           client_fd : Fds \cup {-1}, target : Targets]]
    /\ ready \in BOOLEAN /\ running \in BOOLEAN /\ listening \in BOOLEAN
    /\ thread \in [Slots -> {"none", "start", "loop", "mark", "close", "exited"}]
    /\ tfd \in [Slots -> Fds \cup {-1}] /\ tconn \in [Slots -> Conns \cup {0}]
    /\ apc \in {"init", "loop", "wait", "recv4", "place", "join", "create",
                "fail", "close", "exited"}
    /\ afd \in Fds \cup {-1} /\ aconn \in Conns \cup {0} /\ aslot \in Slots
    /\ atarget \in Targets
    /\ ipc \in {"idle", "send", "exited"} /\ ifd \in Fds \cup {-1}
    /\ iconn \in Conns \cup {0}
    /\ mpc \in {"run", "bridge_close", "closing", "join_tcp", "join_relay",
                "wait_sessions", "freed"}
    /\ snap \subseteq Fds /\ msl \in 0 .. SessionMax /\ runs \in 1 .. MaxRuns
-----------------------------------------------------------------------------
(* g_sessions_mtx is held across steps only while the accept thread joins  *)
(* the previous thread of a slot.                                          *)
TableUnlocked == apc # "join"

NoTarget == CHOOSE t \in Targets : TRUE

(* Locals that are dead are reset, to keep equal states equal.             *)
AcceptLocalsDead == afd' = -1 /\ aconn' = 0 /\ atarget' = NoTarget /\ aslot' = 0
ThreadGone(i) ==
    /\ thread' = [thread EXCEPT ![i] = "none"]
    /\ tfd' = [tfd EXCEPT ![i] = -1]

Close(fd) == fdtab' = IF fd \in Fds THEN [fdtab EXCEPT ![fd] = 0] ELSE fdtab

(* The session thread of slot i: tcp_session_thread_fn.                    *)
SessionStart(i) ==
    /\ thread[i] = "start"
    /\ tfd' = [tfd EXCEPT ![i] = sess[i].client_fd]
    /\ thread' = [thread EXCEPT ![i] = "loop"]
    /\ UNCHANGED <<connVars, tableVars, tconn, acceptVars, injectVars, mainVars>>

(* recv ends the loop when the peer closes, on an error, and when the      *)
(* timeout lets the thread see lp->running; data is forwarded and the loop *)
(* goes on without a change of this state.                                 *)
SessionLoopEnds(i) ==
    /\ thread[i] = "loop"
    /\ thread' = [thread EXCEPT ![i] = "mark"]
    /\ UNCHANGED <<connVars, tableVars, tfd, tconn, acceptVars, injectVars, mainVars>>

Mut_SessionMarkFree_ClosesToo(i) ==
    /\ thread[i] = "mark" /\ TableUnlocked
    /\ sess' = [sess EXCEPT ![i].active = FALSE, ![i].client_fd = -1]
    /\ Close(sess[i].client_fd)
    /\ thread' = [thread EXCEPT ![i] = "close"]
    /\ UNCHANGED <<nconn, ready, tfd, tconn, acceptVars, injectVars, mainVars>>

SessionMarkFree(i) ==
    /\ thread[i] = "mark" /\ TableUnlocked
    /\ sess' = [sess EXCEPT ![i].active = FALSE, ![i].client_fd = -1]
    /\ thread' = [thread EXCEPT ![i] = "close"]
    /\ UNCHANGED <<connVars, ready, tfd, tconn, acceptVars, injectVars, mainVars>>

SessionClose(i) ==
    /\ thread[i] = "close"
    /\ Close(tfd[i])
    /\ thread' = [thread EXCEPT ![i] = "exited"]
    /\ tconn' = [tconn EXCEPT ![i] = 0]
    /\ UNCHANGED <<nconn, tableVars, tfd, acceptVars, injectVars, mainVars>>
-----------------------------------------------------------------------------
(* The accept thread: ldn_bridge_tcp_thread_fn.                            *)

AcceptInit ==
    /\ apc = "init"
    /\ ready' = TRUE
    /\ sess' = IF ready THEN sess
               ELSE [i \in Slots |-> [sess[i] EXCEPT !.active = FALSE,
                        !.thread_created = FALSE, !.client_fd = -1]]
    /\ apc' = IF listening THEN "loop" ELSE "exited"
    /\ UNCHANGED <<connVars, threadVars, afd, aconn, atarget, aslot, injectVars, mainVars>>

Mut_AcceptLoop_NoCheck ==
    /\ apc = "loop"
    /\ apc' = "wait"
    /\ UNCHANGED <<connVars, tableVars, threadVars, afd, aconn, atarget, aslot,
                   injectVars, mainVars>>

AcceptLoop ==
    /\ apc = "loop"
    /\ apc' = IF running THEN "wait" ELSE "exited"
    /\ UNCHANGED <<connVars, tableVars, threadVars, afd, aconn, atarget, aslot,
                   injectVars, mainVars>>

(* poll times out or fails, or accept fails; on EBADF the thread ends.     *)
AcceptNothing ==
    /\ apc = "wait"
    /\ apc' \in {"loop"} \cup (IF listening THEN {} ELSE {"exited"})
    /\ UNCHANGED <<connVars, tableVars, threadVars, afd, aconn, atarget, aslot,
                   injectVars, mainVars>>

AcceptConn ==
    /\ apc = "wait" /\ listening /\ nconn < MaxConns
    /\ \E fd \in Fds :
          /\ fdtab[fd] = 0 /\ \A g \in Fds : g < fd => fdtab[g] # 0
          /\ afd' = fd
          /\ fdtab' = [fdtab EXCEPT ![fd] = nconn + 1]
    /\ nconn' = nconn + 1 /\ aconn' = nconn + 1
    /\ apc' = "recv4"
    /\ UNCHANGED <<tableVars, threadVars, atarget, aslot, injectVars, mainVars>>

(* The four bytes of the target address arrive, or recv fails or times out *)
(* (the accepted socket inherits the listening socket's two seconds).      *)
AcceptRecv4 ==
    /\ apc = "recv4"
    /\ \/ apc' = "close" /\ UNCHANGED atarget
       \/ apc' = "place" /\ atarget' \in Targets
    /\ UNCHANGED <<connVars, tableVars, threadVars, afd, aconn, aslot, injectVars, mainVars>>

Publish(i, table) ==
    /\ sess' = [table EXCEPT ![i].active = TRUE, ![i].client_fd = afd, ![i].target = atarget]
    /\ tconn' = [tconn EXCEPT ![i] = aconn]
    /\ apc' = "create"

(* Under the mutex: take the first inactive slot; its previous thread, if  *)
(* one was created, has to be joined first.                                *)
Mut_AcceptPlace_NoJoin ==
    /\ apc = "place"
    /\ \E i \in Slots :
          /\ ~sess[i].active /\ \A k \in Slots : k < i => sess[k].active
          /\ aslot' = i
          /\ Publish(i, sess)
    /\ UNCHANGED <<connVars, ready, thread, tfd, afd, aconn, atarget, injectVars, mainVars>>

AcceptPlace ==
    /\ apc = "place"
    /\ \/ \E i \in Slots :
             /\ ~sess[i].active /\ \A k \in Slots : k < i => sess[k].active
             /\ aslot' = i
             /\ IF sess[i].thread_created
                THEN apc' = "join" /\ UNCHANGED <<sess, tconn>>
                ELSE Publish(i, sess)
       \/ /\ \A i \in Slots : sess[i].active
          /\ apc' = "close"
          /\ UNCHANGED <<sess, tconn, aslot>>
    /\ UNCHANGED <<connVars, ready, thread, tfd, afd, aconn, atarget, injectVars, mainVars>>

AcceptJoin ==
    /\ apc = "join" /\ thread[aslot] = "exited"
    /\ ThreadGone(aslot)
    /\ Publish(aslot, [sess EXCEPT ![aslot].thread_created = FALSE])
    /\ UNCHANGED <<connVars, ready, afd, aconn, atarget, aslot, injectVars, mainVars>>

AcceptCreate ==
    /\ apc = "create"
    /\ \/ /\ apc' = "fail"                               \* threadCreate fails
          /\ UNCHANGED <<sess, thread, afd, aconn, atarget, aslot>>
       \/ /\ sess' = [sess EXCEPT ![aslot].thread_created = TRUE]
          /\ thread' = [thread EXCEPT ![aslot] = "start"]
          /\ apc' = "loop" /\ AcceptLocalsDead
    /\ UNCHANGED <<connVars, ready, tfd, tconn, injectVars, mainVars>>

AcceptFail ==
    /\ apc = "fail"
    /\ sess' = [sess EXCEPT ![aslot].active = FALSE, ![aslot].client_fd = -1]
    /\ apc' = "close"
    /\ UNCHANGED <<connVars, ready, threadVars, afd, aconn, atarget, aslot, injectVars, mainVars>>

(* close(client_fd) on each of the three paths that drop a connection.     *)
AcceptClose ==
    /\ apc = "close"
    /\ Close(afd)
    /\ apc' = "loop" /\ AcceptLocalsDead
    /\ UNCHANGED <<nconn, tableVars, threadVars, injectVars, mainVars>>
-----------------------------------------------------------------------------
(* The relay thread: ldn_bridge_tcp_inject_from_relay.  The lookup copies  *)
(* the descriptor under the mutex; the sends happen after it is released.  *)
InjectLookup(t) ==
    /\ ipc = "idle" /\ ready /\ TableUnlocked
    /\ \E i \in Slots :
          /\ sess[i].active /\ sess[i].target = t
          /\ \A k \in Slots : k < i => ~(sess[k].active /\ sess[k].target = t)
          /\ sess[i].client_fd # -1
          /\ ifd' = sess[i].client_fd /\ iconn' = tconn[i]
    /\ ipc' = "send"
    /\ UNCHANGED <<connVars, tableVars, threadVars, acceptVars, mainVars>>

(* The last send of the loop returned.                                     *)
InjectDone ==
    /\ ipc = "send"
    /\ ipc' = "idle" /\ ifd' = -1 /\ iconn' = 0
    /\ UNCHANGED <<connVars, tableVars, threadVars, acceptVars, mainVars>>

RelayExit ==
    /\ ipc = "idle" /\ ~running
    /\ ipc' = "exited"
    /\ UNCHANGED <<connVars, tableVars, threadVars, acceptVars, ifd, iconn, mainVars>>
-----------------------------------------------------------------------------
(* The main thread: the cleanup of run_service, and the next run.          *)

(* A relay, keepalive, tap or capture thread gives the runtime up.         *)
LinkDown ==
    /\ mpc = "run" /\ running
    /\ running' = FALSE
    /\ UNCHANGED <<connVars, tableVars, threadVars, acceptVars, injectVars,
                   mpc, snap, msl, runs, listening>>

(* The service loop ends, by itself or because it sees lp->running unset.  *)
StopRunning ==
    /\ mpc = "run"
    /\ running' = FALSE /\ mpc' = "bridge_close"
    /\ UNCHANGED <<connVars, tableVars, threadVars, acceptVars, injectVars,
                   snap, msl, runs, listening>>

(* ldn_bridge_close: copy the descriptors under the mutex ...              *)
BridgeSnapshot ==
    /\ mpc = "bridge_close"
    /\ \/ /\ ready /\ TableUnlocked
          /\ snap' = {sess[i].client_fd : i \in Slots} \ {-1}
          /\ sess' = [i \in Slots |-> [sess[i] EXCEPT !.client_fd = -1]]
       \/ ~ready /\ UNCHANGED <<snap, sess>>
    /\ mpc' = "closing"
    /\ UNCHANGED <<connVars, ready, threadVars, acceptVars, injectVars, msl, runs,
                   running, listening>>

(* ... and close them after releasing it; then close the listener.         *)
BridgeCloseFds ==
    /\ mpc = "closing"
    /\ \/ \E fd \in snap : /\ Close(fd) /\ snap' = snap \ {fd}
                           /\ UNCHANGED <<mpc, listening>>
       \/ /\ snap = {} /\ listening' = FALSE /\ mpc' = "join_tcp"
          /\ UNCHANGED <<fdtab, snap>>
    /\ UNCHANGED <<nconn, tableVars, threadVars, acceptVars, injectVars, msl, runs, running>>

Mut_JoinThreads_NotTcp ==
    /\ mpc' = CASE mpc = "join_tcp" -> "join_relay"
                [] mpc = "join_relay" /\ ipc = "exited" -> "wait_sessions"
                [] OTHER -> mpc
    /\ mpc' # mpc /\ msl' = 0
    /\ UNCHANGED <<connVars, tableVars, threadVars, acceptVars, injectVars, snap, runs,
                   running, listening>>

JoinThreads ==
    /\ \/ mpc = "join_tcp" /\ apc = "exited" /\ mpc' = "join_relay"
       \/ mpc = "join_relay" /\ ipc = "exited" /\ mpc' = "wait_sessions"
    /\ msl' = 0
    /\ UNCHANGED <<connVars, tableVars, threadVars, acceptVars, injectVars, snap, runs,
                   running, listening>>

(* ldn_bridge_wait_sessions, then lan_play_free.                           *)
WaitSessions ==
    /\ mpc = "wait_sessions"
    /\ IF msl = SessionMax
       THEN mpc' = "freed" /\ msl' = 0 /\ UNCHANGED <<sess, thread, tfd>>
       ELSE /\ sess[msl].thread_created => thread[msl] = "exited"
            /\ IF sess[msl].thread_created
               THEN /\ ThreadGone(msl)
                    /\ sess' = [sess EXCEPT ![msl].thread_created = FALSE]
               ELSE UNCHANGED <<thread, tfd, sess>>
            /\ msl' = msl + 1 /\ UNCHANGED mpc
    /\ UNCHANGED <<connVars, ready, tconn, acceptVars, injectVars, snap, runs,
                   running, listening>>

(* The next run: the bridge may come up without its TCP socket, and the    *)
(* accept thread may fail to start; neither is fatal to the run.           *)
NextRun ==
    /\ mpc = "freed" /\ runs < MaxRuns
    /\ runs' = runs + 1 /\ running' = TRUE /\ mpc' = "run"
    /\ listening' \in BOOLEAN /\ apc' \in {"init", "exited"} /\ ipc' = "idle"
    /\ UNCHANGED <<connVars, tableVars, threadVars, afd, aconn, atarget, aslot,
                   ifd, iconn, snap, msl>>

Finished == mpc = "freed" /\ runs = MaxRuns /\ UNCHANGED vars
-----------------------------------------------------------------------------
Init ==
    /\ fdtab = [fd \in Fds |-> 0] /\ nconn = 0
    /\ sess \in [Slots -> [active : {FALSE}, thread_created : {FALSE},
                           client_fd : {0}, target : {NoTarget}]]
    /\ ready = FALSE
    /\ thread = [i \in Slots |-> "none"]
    /\ tfd = [i \in Slots |-> -1] /\ tconn = [i \in Slots |-> 0]
    /\ apc \in {"init", "exited"} /\ afd = -1 /\ aconn = 0 /\ aslot = 0
    /\ atarget = NoTarget
    /\ ipc = "idle" /\ ifd = -1 /\ iconn = 0
    /\ mpc = "run" /\ snap = {} /\ msl = 0 /\ runs = 1
    /\ running = TRUE /\ listening \in BOOLEAN

Session(i) == SessionStart(i) \/ SessionLoopEnds(i) \/ SessionMarkFree(i) \/ SessionClose(i)

Accept == \/ AcceptInit \/ AcceptLoop \/ AcceptNothing \/ AcceptConn \/ AcceptRecv4
          \/ AcceptPlace \/ AcceptJoin \/ AcceptCreate \/ AcceptFail \/ AcceptClose

Teardown == BridgeSnapshot \/ BridgeCloseFds \/ JoinThreads \/ WaitSessions

Next ==
    \/ \E i \in Slots : Session(i)
    \/ Accept
    \/ \E t \in Targets : InjectLookup(t)
    \/ InjectDone \/ RelayExit
    \/ LinkDown \/ StopRunning \/ Teardown \/ NextRun \/ Finished

(* Every thread is scheduled, and every blocking call it makes returns:    *)
(* poll after 500 ms, recv after one or two seconds, send at the latest    *)
(* when ldn_bridge_close shuts the socket down.  A session has no reason   *)
(* to leave its loop while the runtime is up.                              *)
Fairness ==
    /\ WF_vars(Accept) /\ WF_vars(InjectDone) /\ WF_vars(RelayExit)
    /\ WF_vars(Teardown) /\ WF_vars(StopRunning /\ ~running)
    /\ \A i \in Slots : WF_vars(Session(i) /\ (thread[i] # "loop" \/ ~running))

Spec == Init /\ [][Next]_vars /\ Fairness
-----------------------------------------------------------------------------
(* Properties.                                                             *)

(* While the runtime is up a session thread reads, and in the end closes,  *)
(* the connection its slot was filled for, and the accept thread drops the *)
(* connection it accepted, though descriptor numbers are reused.           *)
ThreadsOwnTheirSockets ==
    mpc = "run" =>
       /\ \A i \in Slots : thread[i] \in {"loop", "mark", "close"} =>
             tfd[i] # -1 /\ fdtab[tfd[i]] = tconn[i]
       /\ apc \in {"recv4", "place", "join", "create", "fail", "close"} =>
             fdtab[afd] = aconn

(* threadCreate gets a slot's stack only after the thread that last ran on *)
(* it has exited and been closed, although that thread marks the slot free *)
(* before its last instructions.                                           *)
StackIsFree == apc = "create" => thread[aslot] = "none"

(* A slot is in use only while a thread exists, or is being made, that     *)
(* will free it: failed creations and teardown lose no slot of the table.  *)
NoSlotLost ==
    \A i \in Slots : sess[i].active =>
       thread[i] \in {"start", "loop", "mark"} \/ (apc \in {"create", "fail"} /\ aslot = i)

(* When run_service frees lp no thread that uses it and no client socket   *)
(* is left, not even of a session accepted while the bridge was already    *)
(* being closed.                                                           *)
NothingOutlivesLp ==
    mpc = "freed" => /\ apc = "exited" /\ ipc = "exited"
                     /\ \A i \in Slots : thread[i] = "none"
                     /\ \A fd \in Fds : fdtab[fd] = 0

(* Once lp->running is unset, by whatever thread, run_service gets to free *)
(* lp: no join waits for ever, in particular not the one made under        *)
(* g_sessions_mtx.                                                         *)
TeardownCompletes == ~running ~> mpc = "freed"

(* ldn_bridge.cpp:745 marks the slot free before closing the descriptor    *)
(* "so inject_from_relay stops writing": once a session thread has closed  *)
(* its socket, the relay thread is not writing to that descriptor.         *)
InjectStopsWriting ==
    mpc = "run" /\ ipc = "send" /\ (\E i \in Slots : thread[i] = "exited" /\ tfd[i] = ifd)
       => fdtab[ifd] = iconn
=============================================================================
