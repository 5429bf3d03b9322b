------------------------------- MODULE UvLwip -------------------------------
(* A TCP connection of a console through the PC client's gateway: lwIP     *)
(* accepts it (LwipTcp), uv_lwip.c gives it libuv's shape, and             *)
(* gateway.cpp's TcpConnection joins it to a TCP connection of the proxy,  *)
(* direct or through SOCKS5; or SwitchFakeTcpConnection answers it.  All   *)
(* of it runs in one loop and calls back and forth, so a function is an    *)
(* operator from connection to connection and a callback of the loop, in   *)
(* Gateway, one step.                                                      *)
(*                                                                         *)
(* uvl_client_close_func ends in the reader's callback, which closes the   *)
(* connection, which calls uvl_client_close_func if the client is still    *)
(* open.  The cycle has no second round: IConnection::closing is set       *)
(* before uvl_tcp_close, and with it the reader's callback does nothing.   *)
(*                                                                         *)
(* Mut_X_Y is X with a slip of the kind Y.                                 *)
EXTENDS LwipTcp

CONSTANTS
    MaxUp,      \* octets the console has to send
    Down        \* octets the remote end has to send

ASSUME LengthsAreNatural == {MaxUp, Down} \subseteq Nat

Modes == {"direct", "socks5", "fake"}

(* The connection before its SYN.                                          *)
NewConnection(mode, up) ==
    [mode |-> mode,
     pcb |-> [NewPcb(up + 1) EXCEPT !.state = "LISTEN"],
     accepted |-> FALSE, closed |-> FALSE,     \* uvl_tcp_t
     read_cb |-> FALSE, recv_buf |-> <<>>, writes |-> <<>>,
     read_req |-> FALSE, write_req |-> FALSE,  \* uv_async_send without its callback yet
     handles |-> "open",                       \* of read_req and write_req
     closing |-> FALSE, killed |-> FALSE,      \* IConnection's and TcpConnection's closing
     proxy |-> "none", reading |-> FALSE, inflight |-> FALSE,  \* ptcp
     toRemote |-> <<>>, fromRemote |-> 0, wire |-> <<>>,       \* written, read, given to lwIP
     released |-> FALSE, aborted |-> FALSE, crashed |-> FALSE]

Ready(c) == c.mode = "direct" \/ c.proxy = "open"
-----------------------------------------------------------------------------
(* Closing.                                                                *)

(* uvl_client_close_func before it tells the reader.                       *)
Detached(c) == [c EXCEPT !.pcb = tcp_close([@ EXCEPT !.called = FALSE]), !.closed = TRUE]

(* A reader is left only in uvl_tcp_close, where closing is set and its    *)
(* callback does nothing.                                                  *)
uvl_cancel_reqs(c) == [c EXCEPT !.writes = <<>>, !.read_cb = FALSE]

uvl_tcp_close(c) ==
    [uvl_cancel_reqs(IF c.closed THEN c ELSE Detached(c)) EXCEPT !.handles = "closing"]

(* IConnection::close.                                                     *)
close(c) == IF c.closing THEN c ELSE uvl_tcp_close([c EXCEPT !.closing = TRUE])

(* Socks5ProxyTcp has no tcp before the handshake is over.                 *)
proxy_close(c) ==
    IF Ready(c) THEN [c EXCEPT !.proxy = "closed", !.reading = FALSE, !.inflight = FALSE]
    ELSE [c EXCEPT !.crashed = TRUE]

kill(c) ==
    IF c.killed THEN c
    ELSE close(proxy_close([c EXCEPT !.killed = TRUE, !.read_cb = FALSE]))

onClose(c) == IF c.mode = "fake" THEN c ELSE kill(c)

readEnd(c) == IF c.closing THEN c ELSE onClose(c)

Mut_uvl_client_freed_NotTold(c) == [c EXCEPT !.closed = TRUE, !.read_cb = FALSE]

uvl_client_freed(c) ==
    LET d == [c EXCEPT !.closed = TRUE]
    IN  IF c.read_cb THEN [readEnd(d) EXCEPT !.read_cb = FALSE] ELSE d

uvl_client_close_func(c) ==
    IF c.closed THEN [c EXCEPT !.aborted = TRUE]
    ELSE uvl_client_freed([c EXCEPT !.pcb = tcp_close([@ EXCEPT !.called = FALSE])])
-----------------------------------------------------------------------------
(* From the console to the remote end.                                     *)

uvl_client_recv_func(c, data) ==
    IF Len(data) > TCP_WND - Len(c.recv_buf) THEN [c EXCEPT !.pcb.refused = TRUE]
    ELSE [c EXCEPT !.recv_buf = @ \o data, !.read_req = TRUE]

(* read: its RT_ASSERT fails when there is a reader already.               *)
uvl_read_start(c) ==
    IF c.read_cb THEN [c EXCEPT !.aborted = TRUE]
    ELSE IF c.closed THEN readEnd(c)
    ELSE [c EXCEPT !.read_req = TRUE, !.read_cb = TRUE]

Mut_onData_NotStopped(c, data) == [c EXCEPT !.toRemote = @ \o data, !.inflight = TRUE]

(* TcpConnection::onData.                                                  *)
onData(c, data) ==
    [c EXCEPT !.read_cb = FALSE, !.toRemote = @ \o data, !.inflight = TRUE]

Mut_uvl_async_tcp_read_cb_NotRecved(c) ==
    IF ~c.read_cb \/ c.recv_buf = <<>> THEN c ELSE onData([c EXCEPT !.recv_buf = <<>>], c.recv_buf)

uvl_async_tcp_read_cb(c) ==
    IF ~c.read_cb \/ c.recv_buf = <<>> THEN c
    ELSE onData([c EXCEPT !.pcb = tcp_recved(@, Len(c.recv_buf)), !.recv_buf = <<>>], c.recv_buf)
-----------------------------------------------------------------------------
(* From the remote end to the console.                                     *)

uvl_write(c, data) ==
    [c EXCEPT !.writes = Append(@, [data |-> data, sent |-> 0, pending |-> 0]), !.write_req = TRUE]

(* uvl_imp_write_to_tcp for its one request: what fits in the send buffer  *)
(* goes to lwIP.                                                           *)
Mut_uvl_imp_write_to_tcp_Restarts(c) ==
    LET req == Head(c.writes)
        n == Least(Len(req.data) - req.sent, c.pcb.snd_buf)
    IN  [c EXCEPT !.writes[1] = [req EXCEPT !.sent = @ + n, !.pending = @ + n],
                  !.wire = @ \o SubSeq(req.data, 1, n),
                  !.pcb = tcp_output(tcp_write(@, n))]

uvl_imp_write_to_tcp(c) ==
    LET req == Head(c.writes)
        n == Least(Len(req.data) - req.sent, c.pcb.snd_buf)
    IN  [c EXCEPT !.writes[1] = [req EXCEPT !.sent = @ + n, !.pending = @ + n],
                  !.wire = @ \o SubSeq(req.data, req.sent + 1, req.sent + n),
                  !.pcb = tcp_output(tcp_write(@, n))]

(* The console has acknowledged n octets of it.                            *)
uvl_client_sent_func(c, n) ==
    IF c.closed \/ c.writes = <<>> THEN [c EXCEPT !.aborted = TRUE]
    ELSE IF c.writes[1].pending < n THEN [c EXCEPT !.aborted = TRUE]
    ELSE [c EXCEPT !.writes[1].pending = @ - n, !.write_req = TRUE]

onWrite(c) ==
    IF c.mode = "fake" THEN close(c) ELSE [c EXCEPT !.reading = (c.proxy = "open")]

Written(req) == req.sent = Len(req.data) /\ req.pending = 0

uvl_async_tcp_write_cb(c) ==
    LET d == IF c.writes # <<>> /\ Written(Head(c.writes))
             THEN onWrite([c EXCEPT !.writes = Tail(@)]) ELSE c
    IN  IF d.closed THEN uvl_cancel_reqs(d)
        ELSE IF d.writes = <<>> THEN d ELSE uvl_imp_write_to_tcp(d)
=============================================================================
