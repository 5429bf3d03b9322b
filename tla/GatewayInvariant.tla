-------------------------- MODULE GatewayInvariant --------------------------
(***************************************************************************)
(* The inductive invariant of Gateway (GatewayInv), and the relations in   *)
(* which the proofs of GatewaySteps and GatewayProofs say what a function  *)
(* of uv_lwip or of the gateway does to a connection.  Between the         *)
(* callbacks of one tcp_input the buffers do not agree yet; OpenInput and  *)
(* ClosedInput say by how much they differ.                                *)
(***************************************************************************)
EXTENDS Gateway, PcbInvariant

IsConn(d) ==
    d \in [mode : {d.mode}, pcb : {d.pcb}, accepted : {d.accepted}, closed : {d.closed},
           read_cb : {d.read_cb}, recv_buf : {d.recv_buf}, writes : {d.writes},
           read_req : {d.read_req}, write_req : {d.write_req}, handles : {d.handles},
           closing : {d.closing}, killed : {d.killed}, proxy : {d.proxy},
           reading : {d.reading}, inflight : {d.inflight}, toRemote : {d.toRemote},
           fromRemote : {d.fromRemote}, wire : {d.wire}, released : {d.released},
           aborted : {d.aborted}, crashed : {d.crashed}]
-----------------------------------------------------------------------------
(* The inductive invariant.                                                *)

(* The octets the remote end has produced.                                 *)
Limit(d) == IF d.mode = "fake" THEN Down ELSE d.fromRemote

(* Before the connection is accepted.                                      *)
Fresh(d) ==
    /\ d.pcb.state \in {"LISTEN", "SYN_RCVD", "FREE"} /\ ~d.closed /\ ~d.pcb.called
    /\ d.toRemote = <<>> /\ d.recv_buf = <<>> /\ d.writes = <<>> /\ d.wire = <<>>
    /\ d.fromRemote = 0 /\ d.proxy = "none" /\ ~d.reading /\ ~d.inflight /\ ~d.read_cb
    /\ d.handles = "open" /\ ~d.closing /\ ~d.killed /\ ~d.crashed
    /\ d.pcb.rcv_wnd = TCP_WND /\ d.pcb.rcv_nxt = 1 /\ d.pcb.ooseq = {} /\ ~d.pcb.refused
    /\ "RXCLOSED" \notin d.pcb.flags /\ d.pcb.fin \in Nat \ {0}
    /\ d.pcb.state # "FREE" =>
         /\ SendOK(d.pcb) /\ d.pcb.snd_buf = TCP_SND_BUF
         /\ \A s \in Queue(d.pcb) : s.len = 0

(* The octets that came up but were not passed on yet are in recv_buf.     *)
Open(d) ==
    /\ d.pcb.state = "ESTABLISHED" /\ d.pcb.called /\ ~d.pcb.refused
    /\ "RXCLOSED" \notin d.pcb.flags
    /\ d.handles = "open" /\ ~d.closing /\ ~d.killed
    /\ d.pcb.rcv_wnd + Len(d.recv_buf) = TCP_WND
    /\ Len(d.toRemote) + Len(d.recv_buf) + 1 = d.pcb.rcv_nxt
    /\ d.pcb.rcv_nxt <= d.pcb.fin

(* After tcp_close: only a reset, or nothing left to pass on.              *)
Complete(d) == d.pcb.rst \/ Least(d.pcb.rcv_nxt, d.pcb.fin) = Len(d.toRemote) + 1

(* A closed connection is on its way to FREE.                              *)
Closed(d) ==
    /\ ~d.pcb.called /\ ~d.read_cb
    /\ d.pcb.state \in Leaving \cup {"TIME_WAIT", "FREE"}
    /\ d.pcb.state = "FREE" \/ ("RXCLOSED" \in d.pcb.flags /\ Complete(d))

(* What the remote end has, and after it recv_buf, is the console's        *)
(* stream.                                                                 *)
Upstream(d) ==
    /\ d.toRemote \in Seq(Nat) /\ d.recv_buf \in Seq(Nat)
    /\ \A i \in 1 .. Len(d.toRemote) : d.toRemote[i] = i
    /\ \A i \in 1 .. Len(d.recv_buf) : d.recv_buf[i] = Len(d.toRemote) + i
    /\ Len(d.toRemote) < d.pcb.fin

(* Only an open connection with nothing in flight waits for data.          *)
Reader(d) == d.read_cb => d.proxy = "open" /\ ~d.inflight /\ ~d.closed

(* TcpConnection, its proxy and uv_lwip about each other.                  *)
Linked(d) ==
    /\ d.inflight \/ d.reading => d.proxy = "open"
    /\ d.proxy # "none" => d.accepted
    /\ d.mode = "fake" => d.proxy \in {"none", "closed"}
    /\ d.killed => d.closing /\ d.proxy # "open" /\ (d.proxy = "closed" \/ d.crashed)
    /\ d.closing => d.closed
    /\ d.closed => d.accepted
    /\ d.handles # "open" => d.closing
    /\ d.closing /\ d.mode # "fake" => d.killed \/ d.released
    /\ d.crashed => d.released
    /\ ~d.aborted

(* Who may read, and how the parts hang together.                          *)
Control(d) == Reader(d) /\ Linked(d)

(* What was given to lwIP is the remote end's stream.                      *)
Wire(d) ==
    /\ d.wire \in Seq(Nat) /\ \A i \in 1 .. Len(d.wire) : d.wire[i] = i
    /\ d.fromRemote \in Nat /\ Len(d.wire) <= Limit(d)

(* All of the request's data is with lwIP.                                 *)
AllSent(d) == d.writes # <<>> /\ d.writes[1].sent = Len(d.writes[1].data)

(* The one request: what of its data is on the wire.                       *)
Request(d, r) ==
    /\ r \in [data : Seq(Nat), sent : Nat, pending : Nat]
    /\ r.sent <= Len(r.data) /\ r.sent <= Len(d.wire)
    /\ Len(d.wire) - r.sent + Len(r.data) = Limit(d)
    /\ \A i \in 1 .. Len(r.data) : r.data[i] = Len(d.wire) - r.sent + i

(* There is at most one request, and none while the remote end is read.    *)
Requests(d) ==
    /\ d.writes = <<>> \/ (\E r : d.writes = <<r>> /\ Request(d, r))
    /\ d.reading => d.writes = <<>>
    /\ d.mode = "fake" => d.writes # <<>>
    /\ d.mode # "fake" /\ d.proxy # "open" => d.writes = <<>>
    /\ d.writes = <<>> => Len(d.wire) = Limit(d)

(* The octets uvl_client_sent_func has still to be told of.                *)
Pending(d) == IF d.writes = <<>> THEN 0 ELSE d.writes[1].pending

(* The send buffer is filled by whole segments until all of the request is *)
(* with lwIP.                                                              *)
Filled(d) == AllSent(d) \/ (Whole(d.pcb.snd_buf) /\ Full(Queue(d.pcb)))

(* The request, lwIP's queues and its send buffer agree.                   *)
Downstream(d) ==
    Requests(d) /\ SendOK(d.pcb) /\ Octets(Queue(d.pcb)) = Pending(d) /\ Filled(d)

(* What holds of a connection at all times, also between the callbacks of  *)
(* a step.                                                                 *)
Common(d) ==
    /\ IsConn(d) /\ IsPcb(d.pcb) /\ RecvOK(d.pcb) /\ d.mode \in Modes
    /\ Upstream(d) /\ Control(d) /\ Wire(d)

(* A connection is fresh, open or closed.                                  *)
Core(d) ==
    /\ Common(d)
    /\ ~d.accepted => Fresh(d)
    /\ d.accepted /\ ~d.closed => Open(d) /\ Downstream(d)
    /\ d.closed => Closed(d)

(* No input is being processed.                                            *)
Idle(p) == p.input = FALSE /\ p.recv_flags = {} /\ p.recv_acked = 0 /\ p.recv_data = <<>>

(* Nothing is left over from the step before.                              *)
GatewayInv == Core(c) /\ Idle(c.pcb)
-----------------------------------------------------------------------------
(* Closing.                                                                *)

(* What closing leaves alone.                                              *)
Kept(d, e) ==
    /\ e.mode = d.mode /\ e.accepted = d.accepted /\ e.released = d.released
    /\ e.aborted = d.aborted /\ e.toRemote = d.toRemote /\ e.fromRemote = d.fromRemote
    /\ e.wire = d.wire /\ e.recv_buf = d.recv_buf

(* The proxy's side is left alone.                                         *)
SameProxy(d, e) ==
    /\ e.killed = d.killed /\ e.proxy = d.proxy /\ e.reading = d.reading
    /\ e.inflight = d.inflight /\ e.crashed = d.crashed

(* What close and kill need to find.                                       *)
CanEnd(d) ==
    /\ IsConn(d)
    /\ d.closing => d.closed
    /\ \/ d.closed
       \/ /\ IsPcb(d.pcb) /\ RecvOK(d.pcb) /\ d.pcb.input \in BOOLEAN
          /\ d.pcb.state \in {"ESTABLISHED", "CLOSE_WAIT"}

(* What they leave.                                                        *)
Shut(d, e) ==
    /\ IsConn(e) /\ Kept(d, e) /\ e.closed /\ e.closing
    /\ IF d.closed THEN e.pcb = d.pcb ELSE Ended(d.pcb, e.pcb)

(* A connection that may be closed now.                                    *)
Endable(d) ==
    /\ Common(d) /\ d.accepted
    /\ IF d.closed THEN Closed(d)
       ELSE /\ d.pcb.state \in {"ESTABLISHED", "CLOSE_WAIT"} /\ d.pcb.input \in BOOLEAN
            /\ d.pcb.rcv_wnd + Len(d.recv_buf) = TCP_WND
            /\ Len(d.toRemote) + Len(d.recv_buf) + 1 = Least(d.pcb.rcv_nxt, d.pcb.fin)
-----------------------------------------------------------------------------
(* Steps that change nothing but what is sent and queued.                  *)

(* A change of the pcb that the connection does not notice.                *)
Quiet(p, q) ==
    /\ IsPcb(q) /\ SameControl(p, q) /\ RecvOK(q)
    /\ q.fin = p.fin /\ q.rcv_nxt = p.rcv_nxt /\ q.rcv_wnd = p.rcv_wnd
    /\ p.ooseq = {} => q.ooseq = {}
    /\ SendOK(p) => SameSend(p, q)

(* The connection is the same but for its pcb and its requests to the      *)
(* loop.                                                                   *)
SameConn(d, e) ==
    /\ Kept(d, e) /\ SameProxy(d, e) /\ e.closed = d.closed /\ e.closing = d.closing
    /\ e.handles = d.handles /\ e.read_cb = d.read_cb /\ e.writes = d.writes
-----------------------------------------------------------------------------
(* The two streams.                                                        *)

(* The octets after the first k.                                           *)
Counts(s, k) == s \in Seq(Nat) /\ \A i \in 1 .. Len(s) : s[i] = k + i
-----------------------------------------------------------------------------
(* tcp_input.                                                              *)

(* Between tcp_process and the callbacks: acked octets are still counted   *)
(* by the request, and data is not in recv_buf yet.                        *)
OpenInput(m, acked, data) ==
    /\ Common(m) /\ m.accepted /\ ~m.closed
    /\ m.pcb.called /\ ~m.pcb.refused /\ "RXCLOSED" \notin m.pcb.flags /\ m.pcb.input = TRUE
    /\ m.handles = "open" /\ ~m.closing /\ ~m.killed
    /\ IF "GOT_FIN" \in m.pcb.recv_flags
       THEN /\ m.pcb.recv_flags = {"GOT_FIN"} /\ m.pcb.state = "CLOSE_WAIT"
            /\ m.pcb.rcv_wnd + Len(m.recv_buf) + Len(data) + 1 = TCP_WND
       ELSE /\ m.pcb.recv_flags = {} /\ m.pcb.state = "ESTABLISHED"
            /\ m.pcb.rcv_nxt <= m.pcb.fin
            /\ m.pcb.rcv_wnd + Len(m.recv_buf) + Len(data) = TCP_WND
    /\ Counts(data, Len(m.toRemote) + Len(m.recv_buf))
    /\ Len(m.toRemote) + Len(m.recv_buf) + Len(data) + 1 = Least(m.pcb.rcv_nxt, m.pcb.fin)
    /\ Requests(m) /\ SendOK(m.pcb) /\ acked \in Nat
    /\ Octets(Queue(m.pcb)) + acked = Pending(m) /\ Filled(m)

(* The same for a connection that was closed: data that still comes aborts *)
(* it.                                                                     *)
ClosedInput(m, data) ==
    /\ Common(m) /\ m.closed /\ ~m.pcb.called /\ ~m.read_cb
    /\ m.pcb.state \in Leaving \cup {"TIME_WAIT"} /\ "RXCLOSED" \in m.pcb.flags
    /\ data \in Seq(Nat)
    /\ m.pcb.rst \/ Least(m.pcb.rcv_nxt, m.pcb.fin) = Len(m.toRemote) + 1 + Len(data)

(* tcp_input after tcp_process.                                            *)
Callbacks(m) ==
    LET sent == EventSent(m)
        got == EventRecv(sent)
        end == EventClosed(got)
    IN  IF tcp_input_delayed_close(sent) THEN [sent EXCEPT !.pcb = Freed(@)]
        ELSE IF got.pcb.state = "FREE" THEN got
        ELSE IF tcp_input_delayed_close(end) THEN [end EXCEPT !.pcb = Freed(@)]
        ELSE [end EXCEPT !.pcb = tcp_output([@ EXCEPT !.input = FALSE])]

(* The connection as uvl_listener_accept_func finds it.                    *)
Accepting(d) ==
    [[d EXCEPT !.pcb.state = "ESTABLISHED"] EXCEPT !.accepted = TRUE, !.pcb.called = TRUE]
=============================================================================
