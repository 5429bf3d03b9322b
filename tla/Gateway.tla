------------------------------ MODULE Gateway ------------------------------
(* The steps of the loop that carry a console's TCP connection (UvLwip):   *)
(* lwIP's input and timers, the async handles of uv_lwip, the events of    *)
(* the proxy's connection, and the gateway's release at shutdown.          *)
(*                                                                         *)
(* The console keeps no state of its own: at any time it may send any part *)
(* of its stream that the window announced to it allows, with any          *)
(* acknowledgement of what it was sent, which covers loss, duplication and *)
(* reordering on the network.  Its window, and lwIP's congestion window,   *)
(* are any of Windows at every step.                                       *)
EXTENDS UvLwip

CONSTANT Windows

VARIABLE c

vars == <<c>>

(* What a step leaves of its own fields.                                   *)
Done(d) ==
    [d EXCEPT !.pcb = [@ EXCEPT !.input = FALSE, !.wnd = 0, !.recv_flags = {},
                                !.recv_acked = 0, !.recv_data = <<>>]]

Windowed(w) == [c EXCEPT !.pcb.wnd = w]

Runs == ~c.aborted /\ ~c.crashed
LwipRuns == Runs /\ ~c.released
Active == c.pcb.state \notin {"LISTEN", "TIME_WAIT", "FREE"}
-----------------------------------------------------------------------------
(* tcp_input.                                                              *)

(* uvl_listener_accept_func, UvLwipBase::onConnect, onConnection.  The     *)
(* proxy's connect may fail at once, which kills the connection while it   *)
(* is being accepted.                                                      *)
accept(d, fails) ==
    LET e == [d EXCEPT !.accepted = TRUE, !.pcb.called = TRUE]
    IN  CASE e.mode = "fake" -> uvl_write(e, [i \in 1 .. Down |-> i])
          [] e.mode = "socks5" -> [e EXCEPT !.proxy = "connecting"]
          [] e.mode = "direct" ->
               IF fails THEN kill(e) ELSE [e EXCEPT !.proxy = "connecting"]

tcp_process(d, s, fails) ==
    IF d.pcb.state # "SYN_RCVD" THEN [d EXCEPT !.pcb = tcp_process_synchronized(@, s)]
    ELSE LET e == accept([d EXCEPT !.pcb.state = "ESTABLISHED"], fails)
             p == tcp_receive(e.pcb, s)
             q == [p EXCEPT !.recv_acked = Greatest(0, @ - 1)]
         IN  [e EXCEPT !.pcb = IF "GOT_FIN" \in q.recv_flags
                               THEN [tcp_ack_now(q) EXCEPT !.state = "CLOSE_WAIT"] ELSE q]

(* The callbacks of tcp_input, in its order.                               *)
EventSent(d) ==
    IF d.pcb.recv_acked > 0 /\ d.pcb.called THEN uvl_client_sent_func(d, d.pcb.recv_acked) ELSE d

EventRecv(d) ==
    IF d.pcb.recv_data = <<>> THEN d
    ELSE IF "RXCLOSED" \in d.pcb.flags THEN [d EXCEPT !.pcb = tcp_abandon(@)]
    ELSE uvl_client_recv_func(d, d.pcb.recv_data)

EventClosed(d) ==
    IF "GOT_FIN" \notin d.pcb.recv_flags \/ d.pcb.refused THEN d
    ELSE LET e == [d EXCEPT !.pcb.rcv_wnd = IF @ # TCP_WND THEN @ + 1 ELSE @]
         IN  IF e.pcb.called THEN uvl_client_close_func(e) ELSE e

tcp_input_delayed_close(d) == "CLOSED" \in d.pcb.recv_flags

tcp_input(d, s, fails) ==
    LET sent == EventSent(tcp_process([d EXCEPT !.pcb.input = TRUE], s, fails))
        got == EventRecv(sent)
        end == EventClosed(got)
    IN  IF tcp_input_delayed_close(sent) THEN [sent EXCEPT !.pcb = Freed(@)]
        ELSE IF got.pcb.state = "FREE" THEN got
        ELSE IF tcp_input_delayed_close(end) THEN [end EXCEPT !.pcb = Freed(@)]
        ELSE [end EXCEPT !.pcb = tcp_output([@ EXCEPT !.input = FALSE])]
-----------------------------------------------------------------------------
(* The console.                                                            *)

ConsoleSyn ==
    /\ LwipRuns
    /\ \E w \in Windows :
         \/ /\ c.pcb.state = "LISTEN"
            /\ c' = Done([c EXCEPT !.pcb = tcp_output(tcp_enqueue_flags(
                            [@ EXCEPT !.state = "SYN_RCVD", !.wnd = w], "SYN"))])
         \/ /\ Active
            /\ c' = LET p == [c.pcb EXCEPT !.wnd = w]
                    IN  Done([c EXCEPT !.pcb = tcp_output(
                          IF p.state = "SYN_RCVD" THEN tcp_rexmit(p) ELSE tcp_ack_now(p))])

(* What the announced window allows it to send, and its probe of a window  *)
(* of zero.                                                                *)
Segments ==
    {s \in [seqno : 1 .. c.pcb.fin + 1, len : 0 .. c.pcb.fin - 1, fin : BOOLEAN,
            ackno : 1 .. c.pcb.snd_nxt, dup3 : BOOLEAN] :
       /\ s.seqno + s.len <= c.pcb.fin + (IF s.len = 0 /\ ~s.fin THEN 1 ELSE 0)
       /\ s.fin => s.seqno + s.len = c.pcb.fin
       /\ TcpLenOf(s) > 0 =>
            \/ s.seqno + TcpLenOf(s) <= c.pcb.right_edge
            \/ TcpLenOf(s) = 1 /\ s.seqno = c.pcb.right_edge /\ c.pcb.rcv_nxt = c.pcb.right_edge
       /\ s.dup3 => TcpLenOf(s) = 0 /\ s.ackno = c.pcb.lastack /\ c.pcb.unacked # {}}

Cuts(s) ==
    IF c.pcb.ooseq = {} \/ s.seqno <= c.pcb.rcv_nxt THEN {{}}
    ELSE SUBSET (c.pcb.ooseq \cup (s.seqno .. s.seqno + TcpLenOf(s) - 1))

(* The segment, with what its insertion drops of the octets out of order.  *)
WithCut(s, cut) ==
    [seqno |-> s.seqno, len |-> s.len, fin |-> s.fin, ackno |-> s.ackno, dup3 |-> s.dup3,
     cut |-> cut]

ConsoleSegment ==
    /\ LwipRuns /\ c.pcb.state \notin {"LISTEN", "FREE"}
    /\ \E s \in Segments, w \in Windows, fails \in BOOLEAN :
         /\ fails => c.mode = "direct" /\ c.pcb.state = "SYN_RCVD"
         /\ IF c.pcb.state = "TIME_WAIT"
            THEN c' = Done([Windowed(w) EXCEPT !.pcb = tcp_timewait_input(@, s)])
            ELSE \E cut \in Cuts(s) :
                   c' = Done(tcp_input(Windowed(w), WithCut(s, cut), fails))

(* A reset is taken only at the next sequence number.                      *)
ConsoleReset ==
    /\ LwipRuns /\ Active
    /\ \/ c' = LET e == IF c.pcb.called THEN uvl_client_freed(c) ELSE c
               IN  Done([e EXCEPT !.pcb = Freed(@)])
       \/ \E w \in Windows :
            c' = Done([Windowed(w) EXCEPT !.pcb = tcp_output(tcp_ack_now(@))])
-----------------------------------------------------------------------------
(* tcp_tmr.                                                                *)

(* The pcb is removed, and the application told.                           *)
Removed(d) == [IF d.pcb.called THEN uvl_client_freed(d) ELSE d EXCEPT !.pcb = Freed(@)]

(* tcp_slowtmr: retransmission, the probe of a zero window, giving up, the *)
(* states that time out, the out-of-sequence queue and the poll.           *)
tcp_slowtmr ==
    /\ LwipRuns
    /\ \E w \in Windows :
         LET p == [c.pcb EXCEPT !.wnd = w]
             queued == p.unacked \cup p.unsent
         IN  \/ Active /\ p.unacked # {} /\ c' = Done([c EXCEPT !.pcb = tcp_rexmit_rto(p)])
             \/ Active /\ c.accepted /\ queued # {}
                /\ c' = Done([c EXCEPT !.pcb = tcp_zero_window_probe(p)])
             \/ Active /\ queued # {} /\ c' = Removed(c)
             \/ /\ p.state \in {"SYN_RCVD", "FIN_WAIT_2", "LAST_ACK", "TIME_WAIT"}
                /\ c' = Removed(c)
             \/ Active /\ p.ooseq # {} /\ c' = [c EXCEPT !.pcb.ooseq = {}]
             \/ Active /\ c' = Done([c EXCEPT !.pcb = tcp_output(p)])

(* tcp_fasttmr sends a delayed acknowledgement.                            *)
tcp_fasttmr ==
    /\ LwipRuns /\ Active /\ "ACK_DELAY" \in c.pcb.flags
    /\ \E w \in Windows : c' = Done([Windowed(w) EXCEPT !.pcb = tcp_output(tcp_ack_now(@))])
-----------------------------------------------------------------------------
(* The async handles of uv_lwip.                                           *)

ReadAsync ==
    /\ Runs /\ c.handles = "open" /\ c.read_req
    /\ \E w \in Windows :
         c' = Done(uvl_async_tcp_read_cb([Windowed(w) EXCEPT !.read_req = FALSE]))

WriteAsync ==
    /\ Runs /\ c.handles = "open" /\ c.write_req
    /\ \E w \in Windows :
         c' = Done(uvl_async_tcp_write_cb([Windowed(w) EXCEPT !.write_req = FALSE]))

(* uvl_tcp_close_handle_cb, then onClosed.                                 *)
HandlesClosed ==
    /\ Runs /\ c.handles = "closing"
    /\ c' = LET d == [c EXCEPT !.handles = "closed", !.read_req = FALSE, !.write_req = FALSE,
                               !.recv_buf = <<>>]
            IN  IF c.mode = "fake" THEN d ELSE kill(d)
-----------------------------------------------------------------------------
(* The proxy's connection.                                                 *)

(* The handshake of SOCKS5, one answer at a time.                          *)
Handshake == [connecting |-> {"method"}, method |-> {"auth", "request"}, auth |-> {"request"}]

SocksAnswer ==
    /\ Runs /\ c.mode = "socks5" /\ c.proxy \in DOMAIN Handshake
    /\ \E next \in Handshake[c.proxy] : c' = [c EXCEPT !.proxy = next]

(* An answer the protocol does not accept, or an error: nobody is told.    *)
SocksFails ==
    /\ Runs /\ c.mode = "socks5" /\ c.proxy \in DOMAIN Handshake \cup {"request"}
    /\ c' = [c EXCEPT !.proxy = "failed"]

(* onConnect.                                                              *)
ProxyConnects ==
    /\ Runs /\ c.proxy = (IF c.mode = "direct" THEN "connecting" ELSE "request")
    /\ \E w \in Windows :
         c' = Done(uvl_read_start([Windowed(w) EXCEPT !.proxy = "open", !.reading = TRUE]))

(* onClose: the connect fails, a write fails, or the remote end is done,   *)
(* which only a reader hears.                                              *)
ProxyCloses ==
    /\ Runs
    /\ \/ c.mode = "direct" /\ c.proxy = "connecting"
       \/ c.proxy = "open" /\ (c.reading \/ c.inflight)
    /\ \E w \in Windows : c' = Done(kill(Windowed(w)))

(* onData of the proxy: it stops reading until these are written.          *)
ProxyData ==
    /\ Runs /\ c.proxy = "open" /\ c.reading
    /\ \E n \in 1 .. Down - c.fromRemote :
         c' = uvl_write([c EXCEPT !.reading = FALSE, !.fromRemote = @ + n],
                        [i \in 1 .. n |-> c.fromRemote + i])

(* onWrite of the proxy.                                                   *)
ProxyWritten ==
    /\ Runs /\ c.proxy = "open" /\ c.inflight
    /\ \E w \in Windows : c' = Done(uvl_read_start([Windowed(w) EXCEPT !.inflight = FALSE]))

(* UvLwipBase::release: the timer and the interface go, and every          *)
(* connection is closed.                                                   *)
release ==
    /\ LwipRuns
    /\ c' = LET d == [c EXCEPT !.released = TRUE] IN IF c.accepted THEN Done(close(d)) ELSE d
-----------------------------------------------------------------------------
Init == \E mode \in Modes, up \in 0 .. MaxUp : c = NewConnection(mode, up)

Proxy == SocksAnswer \/ SocksFails \/ ProxyConnects \/ ProxyCloses \/ ProxyData \/ ProxyWritten

Loop == ReadAsync \/ WriteAsync \/ HandlesClosed

Next ==
    \/ ConsoleSyn \/ ConsoleSegment \/ ConsoleReset
    \/ tcp_slowtmr \/ tcp_fasttmr \/ Loop \/ Proxy \/ release

(* libuv runs the callbacks that are due, and a connect or a write of the  *)
(* proxy's connection ends, one way or the other.  That a SOCKS5 server    *)
(* answers, or that the remote end goes on, is not assumed.                *)
Completion ==
    (c.proxy = "connecting" \/ c.inflight) /\ (ProxyConnects \/ ProxyCloses \/ ProxyWritten)

Spec == Init /\ [][Next]_vars /\ WF_vars(HandlesClosed) /\ WF_vars(Completion)
-----------------------------------------------------------------------------
(* What the remote end is given is the start of what the console sent, and *)
(* what lwIP is given the start of what the remote end sent, in order and  *)
(* once, however segments arrive and however a write is cut by the send    *)
(* buffer.                                                                 *)
StreamsIntact ==
    /\ c.toRemote = [i \in 1 .. Len(c.toRemote) |-> i] /\ Len(c.toRemote) < c.pcb.fin
    /\ c.wire = [i \in 1 .. Len(c.wire) |-> i]
    /\ Len(c.wire) <= IF c.mode = "fake" THEN Down ELSE c.fromRemote

(* The three parties account for the same octets: what lwIP may still      *)
(* receive is the room in recv_buf, it has promised and queued no more     *)
(* than that, and the requests' pending counts are the octets lwIP holds.  *)
(* So "no buffer for data" never happens, no data is refused, and          *)
(* uvl_client_sent_func does not run off the end of the requests.  The     *)
(* remote end is read, and so its end is heard, only when the console has  *)
(* acknowledged everything read before: no octet on its way is cut off.    *)
BuffersAgree ==
    LET p == c.pcb
        held == Octets(p.unsent \cup p.unacked)
    IN  c.accepted /\ ~c.closed /\ Runs =>
          /\ p.rcv_wnd + Len(c.recv_buf) = TCP_WND
          /\ p.right_edge <= p.rcv_nxt + p.rcv_wnd
          /\ p.ooseq \subseteq p.rcv_nxt + 1 .. p.rcv_nxt + p.rcv_wnd - 1
          /\ held + p.snd_buf = TCP_SND_BUF
          /\ held = IF c.writes = <<>> THEN 0 ELSE c.writes[1].pending
          /\ Len(c.writes) <= 1 /\ ~p.refused /\ p.state = "ESTABLISHED"
          /\ c.reading => held = 0 /\ Len(c.wire) = c.fromRemote

(* No assertion of the path fails: there is never a second reader, lwIP    *)
(* never calls a client that has closed, and it acknowledges no more than  *)
(* was written.  The null proxy of a SOCKS5 handshake is reached only when *)
(* the gateway is released in the middle of it.                            *)
NoAssertFails == ~c.aborted /\ (c.crashed => c.released)

(* A connection that ends by FIN has passed on every octet it had          *)
(* acknowledged; octets nobody took are announced by a reset.              *)
OrderlyEndLosesNothing ==
    /\ c.closed /\ ~c.released /\ ~c.pcb.rst
    /\ c.pcb.state \in {"FIN_WAIT_1", "FIN_WAIT_2", "CLOSING", "LAST_ACK", "TIME_WAIT"}
    => Least(c.pcb.rcv_nxt, c.pcb.fin) = Len(c.toRemote) + 1

(* A connection lwIP has closed does not stay behind: TcpConnection hears  *)
(* of it from its reader or when the write it waits for ends, and frees    *)
(* it.  A SOCKS5 handshake that fails, and a fake connection, are not      *)
(* covered: nobody reads.                                                  *)
ClosedIsNoticed ==
    (c.closed /\ (c.mode = "direct" \/ c.proxy = "open")) ~> (c.handles = "closed" \/ ~Runs)
=============================================================================
