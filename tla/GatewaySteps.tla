---------------------------- MODULE GatewaySteps ----------------------------
(***************************************************************************)
(* The steps of Gateway keep the invariant: the SYN, the timers, the       *)
(* reset, what the proxy's connection reports, the close, the release, and *)
(* the requests that read and write; and what each callback of tcp_input   *)
(* leaves.  GatewayProofs has the arrival of a segment and the theorems.   *)
(*                                                                         *)
(* The functions of UvLwip and Gateway map a connection to a               *)
(* connection.  The lemmas go from the callbacks of uv_lwip to the steps   *)
(* of the loop.                                                            *)
(***************************************************************************)
EXTENDS GatewayInvariant, LwipTcpProofs

(* Time limits of the provers, for the many facts in scope.                *)
USE SMTT(20), ZenonT(30)

-----------------------------------------------------------------------------
(* Closing.                                                                *)

(* IConnection::close: once it is closing, it does nothing more.           *)
LEMMA CloseShuts ==
  ASSUME NEW d, CanEnd(d)
  PROVE  LET e == close(d)
         IN  /\ Shut(d, e) /\ SameProxy(d, e)
             /\ IF d.closing THEN e = d ELSE ~e.read_cb
<1>1. CASE d.closing
  <2>1. close(d) = d
    BY <1>1, Zenon DEF close
  <2> QED  BY <1>1, <2>1, Zenon DEF CanEnd, Shut, SameProxy, Kept
<1>2. CASE ~d.closing
  <2> DEFINE x == [d EXCEPT !.closing = TRUE]
             p == tcp_close([x.pcb EXCEPT !.called = FALSE])
             y == [x EXCEPT !.pcb = p, !.closed = TRUE]
             z == IF x.closed THEN x ELSE y
             u == [z EXCEPT !.writes = <<>>, !.read_cb = FALSE]
             e == [u EXCEPT !.handles = "closing"]
  <2>1. close(d) = e
    BY <1>2, Zenon DEF close, uvl_tcp_close, uvl_cancel_reqs, Detached
  <2>2. /\ IsConn(x) /\ Kept(d, x) /\ SameProxy(d, x) /\ x.closing
        /\ x.closed = d.closed /\ x.pcb = d.pcb
    BY Zenon DEF CanEnd, IsConn, Kept, SameProxy
  <2>3. ~d.closed => Ended(d.pcb, p)
    BY <2>2, CloseEnds, Zenon DEF CanEnd
  <2> HIDE DEF x, p
  <2>4. IsConn(y)
    BY <2>2, Zenon DEF IsConn
  <2>5. Kept(d, y) /\ SameProxy(d, y) /\ y.closing /\ y.closed /\ y.pcb = p
    BY <2>2 DEF IsConn, Kept, SameProxy
  <2> HIDE DEF y
  <2>6. IsConn(z) /\ Kept(d, z) /\ SameProxy(d, z) /\ z.closing /\ z.closed
    BY <2>2, <2>4, <2>5, Zenon
  <2>7. IF d.closed THEN z.pcb = d.pcb ELSE Ended(d.pcb, z.pcb)
    BY <2>2, <2>3, <2>5, Zenon
  <2> HIDE DEF z
  <2>8. IsConn(u)
    BY <2>6, Zenon DEF IsConn
  <2>9. /\ Kept(d, u) /\ SameProxy(d, u) /\ u.closing /\ u.closed /\ ~u.read_cb
        /\ u.pcb = z.pcb
    BY <2>6 DEF IsConn, Kept, SameProxy
  <2> HIDE DEF u
  <2>10. /\ IsConn(e) /\ Kept(d, e) /\ SameProxy(d, e) /\ e.closing /\ e.closed /\ ~e.read_cb
         /\ e.pcb = z.pcb
    BY <2>8, <2>9, Zenon DEF IsConn, Kept, SameProxy
  <2> HIDE DEF e
  <2> QED  BY <1>2, <2>1, <2>7, <2>10, Zenon DEF Shut
<1> QED  BY <1>1, <1>2, Zenon

(* kill closes the proxy, if there is one, and the connection.             *)
LEMMA KillShuts ==
  ASSUME NEW d, CanEnd(d), Ready(d) \/ d.released \/ d.killed
  PROVE  LET e == kill(d)
         IN  IF d.killed THEN e = d
             ELSE /\ Shut(d, e) /\ e.killed /\ ~e.read_cb
                  /\ e.crashed => d.crashed \/ d.released
                  /\ IF Ready(d) THEN e.proxy = "closed" /\ ~e.reading /\ ~e.inflight
                     ELSE /\ e.proxy = d.proxy /\ e.reading = d.reading
                          /\ e.inflight = d.inflight /\ e.crashed
<1>1. CASE d.killed
  BY <1>1, Zenon DEF kill
<1>2. CASE ~d.killed
  <2> DEFINE x == [d EXCEPT !.killed = TRUE, !.read_cb = FALSE]
             y == proxy_close(x)
             e == close(y)
  <2>1. kill(d) = e
    BY <1>2, Zenon DEF kill
  <2>2. IsConn(x)
    BY Zenon DEF CanEnd, IsConn
  <2>3. /\ Kept(d, x) /\ x.killed /\ ~x.read_cb /\ x.crashed = d.crashed /\ x.proxy = d.proxy
        /\ x.reading = d.reading /\ x.inflight = d.inflight /\ x.pcb = d.pcb
        /\ x.closed = d.closed /\ x.closing = d.closing
    BY Zenon DEF CanEnd, IsConn, Kept
  <2> HIDE DEF x
  <2>4. Ready(x) <=> Ready(d)
    BY <2>3, Zenon DEF Ready, Kept
  <2> DEFINE a == [x EXCEPT !.proxy = "closed", !.reading = FALSE, !.inflight = FALSE]
             b == [x EXCEPT !.crashed = TRUE]
  <2>5. y = IF Ready(x) THEN a ELSE b
    BY Zenon DEF proxy_close
  <2>6. IsConn(a)
    BY <2>2, Zenon DEF IsConn
  <2>7. /\ Kept(d, a) /\ a.killed /\ ~a.read_cb /\ a.crashed = d.crashed /\ a.proxy = "closed"
        /\ ~a.reading /\ ~a.inflight /\ a.pcb = d.pcb
        /\ a.closed = d.closed /\ a.closing = d.closing
    BY <2>2, <2>3, Zenon DEF IsConn, Kept
  <2>8. /\ IsConn(b) /\ Kept(d, b) /\ b.killed /\ ~b.read_cb /\ b.proxy = d.proxy
        /\ b.reading = d.reading /\ b.inflight = d.inflight /\ b.pcb = d.pcb
        /\ b.closed = d.closed /\ b.closing = d.closing /\ b.crashed
    BY <2>2, <2>3, Zenon DEF IsConn, Kept
  <2> HIDE DEF a, b, y
  <2>9. /\ IsConn(y) /\ Kept(d, y) /\ y.killed /\ ~y.read_cb /\ y.pcb = d.pcb
        /\ y.closed = d.closed /\ y.closing = d.closing
        /\ y.crashed => d.crashed \/ d.released
        /\ IF Ready(d) THEN y.proxy = "closed" /\ ~y.reading /\ ~y.inflight
           ELSE /\ y.proxy = d.proxy /\ y.reading = d.reading
                /\ y.inflight = d.inflight /\ y.crashed
    BY <1>2, <2>4, <2>5, <2>6, <2>7, <2>8, Zenon
  <2>10. CanEnd(y)
    BY <2>9, Zenon DEF CanEnd
  <2>11. Shut(y, e) /\ SameProxy(y, e) /\ ~e.read_cb
    BY <2>9, <2>10, CloseShuts, Zenon
  <2> HIDE DEF e
  <2>12. Shut(d, e)
    BY <2>9, <2>11 DEF Shut, Kept
  <2> QED
    BY <1>2, <2>1, <2>9, <2>11, <2>12, Zenon DEF SameProxy
<1> QED  BY <1>1, <1>2, Zenon

(* After kill the parts still hang together.                               *)
LEMMA KillLinked ==
  ASSUME NEW d, CanEnd(d), Linked(d), d.accepted, Ready(d) \/ d.released \/ d.killed, ~d.killed
  PROVE  Control(kill(d))
<1> DEFINE e == kill(d)
<1>1. /\ Shut(d, e) /\ e.killed /\ ~e.read_cb
      /\ e.crashed => d.crashed \/ d.released
      /\ IF Ready(d) THEN e.proxy = "closed" /\ ~e.reading /\ ~e.inflight
         ELSE /\ e.proxy = d.proxy /\ e.reading = d.reading
              /\ e.inflight = d.inflight /\ e.crashed
  BY KillShuts, Zenon
<1> SUFFICES Control(e)
  BY Zenon
<1> HIDE DEF e
<1>2. /\ e.mode = d.mode /\ e.accepted /\ e.released = d.released /\ e.aborted = d.aborted
      /\ e.closed /\ e.closing
  BY <1>1, Zenon DEF Shut, Kept
<1>3. CASE Ready(d)
  BY <1>1, <1>2, <1>3, Zenon DEF Control, Reader, Linked
<1>4. CASE ~Ready(d)
  <2>1. d.proxy # "open"
    BY <1>4, Zenon DEF Ready
  <2> QED  BY <1>1, <1>2, <1>4, <2>1, Zenon DEF Control, Reader, Linked
<1> QED  BY <1>3, <1>4, Zenon

(* Such a connection can be closed.                                        *)
LEMMA EndableCanEnd ==
  ASSUME NEW d, Endable(d)
  PROVE  CanEnd(d) /\ Linked(d) /\ d.accepted
BY Zenon DEF Endable, CanEnd, Common, Control, Linked

(* Once it is closed, only a reset lets octets of the console be lost.     *)
LEMMA ShutCloses ==
  ASSUME NEW d, NEW e, Endable(d), IsConn(e), Kept(d, e), e.closed,
         IF d.closed THEN e.pcb = d.pcb ELSE Ended(d.pcb, e.pcb), Control(e), ~e.read_cb
  PROVE  Core(e)
<1>1. /\ IsConn(e) /\ Kept(d, e) /\ e.closed
      /\ IF d.closed THEN e.pcb = d.pcb ELSE Ended(d.pcb, e.pcb)
  BY Zenon
<1>2. IsPcb(e.pcb) /\ RecvOK(e.pcb) /\ e.pcb.fin = d.pcb.fin
  BY <1>1, Zenon DEF Endable, Common, Ended
<1>3. Upstream(e)
  BY <1>1, <1>2, Zenon DEF Endable, Common, Upstream, Kept
<1>4. Wire(e) /\ e.mode \in Modes
  BY <1>1 DEF Endable, Common, Wire, Limit, Kept
<1>5. Closed(e)
  <2>1. CASE d.closed
    BY <1>1, <2>1, Zenon DEF Endable, Closed, Complete, Kept
  <2>2. CASE ~d.closed
    <3>1. Ended(d.pcb, e.pcb)
      BY <1>1, <2>2, Zenon
    <3>2. Complete(e)
      <4>1. CASE e.pcb.rst
        BY <4>1, Zenon DEF Complete
      <4>2. CASE d.pcb.rcv_wnd = TCP_WND
        <5>1. Len(d.recv_buf) = 0
          <6>1. Len(d.recv_buf) \in Nat
            BY DEF Endable, Common, Upstream
          <6>2. d.pcb.rcv_wnd + Len(d.recv_buf) = TCP_WND /\ TCP_WND \in Nat
            BY <2>2, SizesAreAtLeastOne, Zenon DEF Endable
          <6> QED  BY <4>2, <6>1, <6>2
        <5>2. Len(d.toRemote) \in Nat
          BY DEF Endable, Common, Upstream
        <5>3. Len(d.toRemote) + Len(d.recv_buf) + 1 = Least(d.pcb.rcv_nxt, d.pcb.fin)
          BY <2>2, Zenon DEF Endable
        <5>4. Least(d.pcb.rcv_nxt, d.pcb.fin) = Len(d.toRemote) + 1
          BY <5>1, <5>2, <5>3
        <5>5. e.pcb.rcv_nxt = d.pcb.rcv_nxt /\ e.toRemote = d.toRemote
          BY <1>1, <3>1, Zenon DEF Ended, Kept
        <5> QED  BY <1>2, <5>4, <5>5, Zenon DEF Complete
      <4> QED  BY <3>1, <4>1, <4>2, Zenon DEF Ended
    <3> QED  BY <3>1, <3>2, Zenon DEF Ended, Closed
  <2> QED  BY <2>1, <2>2, Zenon
<1> QED
  BY <1>1, <1>2, <1>3, <1>4, <1>5, Zenon DEF Core, Common, Control, Linked

(* kill keeps the invariant.                                               *)
LEMMA KillCore ==
  ASSUME NEW d, Endable(d), Ready(d) \/ d.released \/ d.killed
  PROVE  /\ Core(kill(d)) /\ kill(d).closed
         /\ ~d.killed => Shut(d, kill(d))
<1>1. CanEnd(d) /\ Linked(d) /\ d.accepted
  BY EndableCanEnd, Zenon
<1>2. CASE d.killed
  <2>1. kill(d) = d
    BY <1>2, Zenon DEF kill
  <2>2. d.closed /\ Closed(d) /\ Common(d)
    BY <1>1, <1>2, Zenon DEF Linked, Endable
  <2> QED  BY <1>1, <1>2, <2>1, <2>2, Zenon DEF Core
<1>3. CASE ~d.killed
  <2>1. Control(kill(d))
    BY <1>1, <1>3, KillLinked, Zenon
  <2>2. Shut(d, kill(d)) /\ ~kill(d).read_cb
    BY <1>1, <1>3, KillShuts, Zenon
  <2>3. Core(kill(d))
    BY <2>1, <2>2, ShutCloses, Zenon DEF Shut
  <2> QED  BY <2>2, <2>3, Zenon DEF Shut
<1> QED  BY <1>2, <1>3, Zenon

(* So does close, for a connection without a proxy.                        *)
LEMMA CloseCore ==
  ASSUME NEW d, Endable(d), d.mode = "fake" \/ d.released
  PROVE  Core(close(d)) /\ close(d).closed
<1> DEFINE e == close(d)
<1>1. CanEnd(d) /\ Linked(d) /\ d.accepted
  BY EndableCanEnd, Zenon
<1>2. /\ Shut(d, e) /\ SameProxy(d, e)
      /\ IF d.closing THEN e = d ELSE ~e.read_cb
  BY <1>1, CloseShuts, Zenon
<1> HIDE DEF e
<1>3. CASE d.closing
  <2>1. e = d /\ d.closed /\ Closed(d) /\ Common(d)
    BY <1>1, <1>2, <1>3, Zenon DEF Linked, Endable
  <2> QED  BY <1>1, <2>1, Zenon DEF Core, e
<1>4. CASE ~d.closing
  <2>1. ~e.read_cb
    BY <1>2, <1>4, Zenon
  <2>2. Control(e)
    BY <1>1, <1>2, <2>1, Zenon DEF Control, Reader, Linked, Shut, Kept, SameProxy
  <2>3. Core(e)
    BY <1>2, <2>1, <2>2, ShutCloses DEF Shut
  <2> QED  BY <1>2, <2>3, Zenon DEF Shut, e
<1> QED  BY <1>3, <1>4, Zenon

(* uvl_client_freed marks the connection closed and tells its reader.      *)
LEMMA FreedConn ==
  ASSUME NEW d, IsConn(d), Control(d), d.accepted, ~d.closed
  PROVE  LET e == uvl_client_freed(d)
         IN  /\ IsConn(e) /\ Kept(d, e) /\ e.closed /\ ~e.read_cb /\ e.pcb = d.pcb
             /\ Control(e)
<1> DEFINE x == [d EXCEPT !.closed = TRUE]
           y == [readEnd(x) EXCEPT !.read_cb = FALSE]
<1>1. uvl_client_freed(d) = IF d.read_cb THEN y ELSE x
  BY Zenon DEF uvl_client_freed
<1>2. /\ IsConn(x) /\ Kept(d, x) /\ x.closed /\ x.pcb = d.pcb /\ x.read_cb = d.read_cb
      /\ x.closing = d.closing /\ x.handles = d.handles /\ SameProxy(d, x)
  BY Zenon DEF IsConn, Kept, SameProxy
<1> HIDE DEF x
<1>3. Linked(x) /\ x.accepted
  BY <1>2, Zenon DEF Control, Linked, Kept, SameProxy
<1>4. CASE ~d.read_cb
  BY <1>1, <1>2, <1>3, <1>4, Zenon DEF Control, Reader
<1>5. CASE d.read_cb
  <2> DEFINE k == kill(x)
  <2>1. /\ d.proxy = "open" /\ ~d.killed /\ ~d.closing /\ d.mode # "fake"
    BY <1>5, Zenon DEF Control, Reader, Linked
  <2>2. readEnd(x) = k
    BY <1>2, <2>1, Zenon DEF readEnd, onClose, Kept
  <2>3. CanEnd(x) /\ Ready(x) /\ ~x.killed
    BY <1>2, <2>1, Zenon DEF CanEnd, Ready, SameProxy
  <2>4. Control(k)
    BY <1>3, <2>3, KillLinked, Zenon
  <2>5. Shut(x, k) /\ ~k.read_cb
    BY <2>3, KillShuts, Zenon
  <2>6. y = [k EXCEPT !.read_cb = FALSE]
    BY <2>2, Zenon
  <2> HIDE DEF k, y
  <2>7. /\ IsConn(y) /\ Kept(k, y) /\ ~y.read_cb /\ y.pcb = k.pcb /\ y.closed = k.closed
        /\ y.closing = k.closing /\ y.handles = k.handles /\ SameProxy(k, y)
    BY <2>5, <2>6, Zenon DEF Shut, IsConn, Kept, SameProxy
  <2>8. Control(y)
    BY <2>4, <2>7, ZenonT(30) DEF Control, Reader, Linked, Kept, SameProxy
  <2>9. Kept(d, y) /\ y.closed /\ y.pcb = d.pcb
    BY <1>2, <2>5, <2>7 DEF Shut, Kept
  <2> QED  BY <1>1, <1>5, <2>7, <2>8, <2>9, Zenon
<1> QED  BY <1>4, <1>5, Zenon
-----------------------------------------------------------------------------
(* Steps that change nothing but what is sent and queued.                  *)

(* Output is quiet.                                                        *)
LEMMA OutputsQuiet ==
  ASSUME NEW p, NEW q, RecvOK(p), Outputs(p, q)
  PROVE  Quiet(p, q)
<1>1. RecvOK(q)
  BY OutputsRecv, Zenon
<1> QED  BY <1>1, Zenon DEF Outputs, Quiet, SameRecv

(* Two quiet changes are one.                                              *)
LEMMA QuietTwice ==
  ASSUME NEW p, NEW q, NEW r, Quiet(p, q), Quiet(q, r)
  PROVE  Quiet(p, r)
<1>1. SendOK(p) => SameSend(p, r)
  BY Zenon DEF Quiet, SameSend, SendOK
<1> QED  BY <1>1, Zenon DEF Quiet, SameControl

(* What always holds is kept when only the pcb changes.                    *)
LEMMA CommonKept ==
  ASSUME NEW d, NEW e, Common(d), IsConn(e), SameConn(d, e),
         IsPcb(e.pcb), RecvOK(e.pcb), e.pcb.fin = d.pcb.fin
  PROVE  Common(e)
<1>1. Upstream(e)
  BY Zenon DEF Common, Upstream, SameConn, Kept
<1>2. Control(e)
  BY DEF Common, Control, Reader, Linked, SameConn, Kept, SameProxy
<1>3. Wire(e) /\ e.mode \in Modes
  BY Zenon DEF Common, Wire, Limit, SameConn, Kept
<1> QED  BY <1>1, <1>2, <1>3, Zenon DEF Common

(* A quiet change keeps the invariant.                                     *)
LEMMA QuietCore ==
  ASSUME NEW d, NEW e, Core(d), IsConn(e), SameConn(d, e), Quiet(d.pcb, e.pcb)
  PROVE  Core(e)
<1>1. Common(e)
  BY CommonKept, Zenon DEF Core, Quiet
<1>2. ASSUME ~e.accepted PROVE Fresh(e)
  <2>1. Fresh(d)
    BY <1>2, Zenon DEF Core, SameConn, Kept
  <2>2. ASSUME e.pcb.state # "FREE"
        PROVE  /\ SendOK(e.pcb) /\ e.pcb.snd_buf = TCP_SND_BUF
               /\ \A s \in Queue(e.pcb) : s.len = 0
    <3>1. /\ SendOK(d.pcb) /\ d.pcb.snd_buf = TCP_SND_BUF
          /\ \A s \in Queue(d.pcb) : s.len = 0
      BY <2>1, <2>2, Zenon DEF Fresh, Quiet, SameControl
    <3> QED  BY <3>1, Zenon DEF Quiet, SameSend, SendOK
  <2>3. /\ e.pcb.state \in {"LISTEN", "SYN_RCVD", "FREE"} /\ ~e.pcb.called
        /\ e.pcb.rcv_wnd = TCP_WND /\ e.pcb.rcv_nxt = 1 /\ e.pcb.ooseq = {} /\ ~e.pcb.refused
        /\ "RXCLOSED" \notin e.pcb.flags /\ e.pcb.fin \in Nat \ {0}
    BY <2>1, Zenon DEF Fresh, Quiet, SameControl
  <2>4. /\ ~e.closed
        /\ e.toRemote = <<>> /\ e.recv_buf = <<>> /\ e.writes = <<>> /\ e.wire = <<>>
        /\ e.fromRemote = 0 /\ e.proxy = "none" /\ ~e.reading /\ ~e.inflight /\ ~e.read_cb
        /\ e.handles = "open" /\ ~e.closing /\ ~e.killed /\ ~e.crashed
    BY <2>1 DEF Fresh, SameConn, Kept, SameProxy
  <2> QED  BY <2>2, <2>3, <2>4, Zenon DEF Fresh
<1>3. ASSUME e.accepted, ~e.closed PROVE Open(e) /\ Downstream(e)
  <2>1. Open(d) /\ Downstream(d)
    BY <1>3, Zenon DEF Core, SameConn, Kept
  <2>2. Open(e)
    BY <2>1, Zenon DEF Open, Quiet, SameControl, SameConn, Kept, SameProxy
  <2>3. SameSend(d.pcb, e.pcb)
    BY <2>1, Zenon DEF Downstream, Quiet
  <2>4. SendOK(e.pcb) /\ Octets(Queue(e.pcb)) = Pending(e)
    BY <2>1, <2>3, Zenon DEF Downstream, SameSend, SendOK, Pending, SameConn
  <2>5. Filled(e)
    BY <2>1, <2>3, Zenon DEF Downstream, Filled, AllSent, SameSend, SameConn
  <2>6. Requests(e)
    <3>1. Limit(e) = Limit(d) /\ e.wire = d.wire
      BY Zenon DEF Limit, SameConn, Kept
    <3>2. \A r : Request(e, r) <=> Request(d, r)
      BY <3>1, Zenon DEF Request
    <3>3. /\ e.writes = d.writes /\ e.reading = d.reading /\ e.mode = d.mode
          /\ e.proxy = d.proxy
      BY Zenon DEF SameConn, Kept, SameProxy
    <3> QED  BY <2>1, <3>1, <3>2, <3>3, Zenon DEF Downstream, Requests
  <2> QED  BY <2>2, <2>4, <2>5, <2>6, Zenon DEF Downstream
<1>4. ASSUME e.closed PROVE Closed(e)
  <2>1. Closed(d)
    BY <1>4, Zenon DEF Core, SameConn
  <2>2. Complete(d) => Complete(e)
    BY Zenon DEF Complete, Quiet, SameControl, SameConn, Kept
  <2> QED  BY <2>1, <2>2, Zenon DEF Closed, Quiet, SameControl, SameConn
<1> QED  BY <1>1, <1>2, <1>3, <1>4, Zenon DEF Core

(* The step is over.                                                       *)
LEMMA DoneCore ==
  ASSUME NEW d, Core(d)
  PROVE  Core(Done(d)) /\ Idle(Done(d).pcb)
<1> DEFINE p == d.pcb
           q == [p EXCEPT !.input = FALSE, !.wnd = 0, !.recv_flags = {}, !.recv_acked = 0,
                          !.recv_data = <<>>]
           e == [d EXCEPT !.pcb = q]
<1>1. Done(d) = e
  BY Zenon DEF Done
<1>2. IsPcb(p) /\ IsConn(d) /\ RecvOK(p)
  BY Zenon DEF Core, Common
<1> HIDE DEF p
<1>3. IsPcb(q)
  BY <1>2, Zenon DEF IsPcb
<1>4. /\ SameControl(p, q) /\ SameRecv(p, q) /\ q.right_edge = p.right_edge /\ SameSend(p, q)
      /\ Idle(q)
  BY <1>2 DEF IsPcb, SameControl, SameRecv, SameSend, Queue, Idle
<1> HIDE DEF q
<1>5. Quiet(p, q)
  BY <1>2, <1>3, <1>4, Zenon DEF Quiet, SameRecv, RecvOK
<1>6. IsConn(e) /\ SameConn(d, e) /\ e.pcb = q
  BY <1>2, Zenon DEF IsConn, SameConn, Kept, SameProxy
<1> HIDE DEF e
<1>7. Core(e)
  BY <1>5, <1>6, QuietCore, Zenon DEF p
<1> QED  BY <1>1, <1>4, <1>6, <1>7

(* The pcb changes quietly, and then the step is over.                     *)
LEMMA PcbCore ==
  ASSUME NEW d, NEW q, Core(d), Quiet(d.pcb, q)
  PROVE  LET e == Done([d EXCEPT !.pcb = q]) IN Core(e) /\ Idle(e.pcb)
<1> DEFINE e == [d EXCEPT !.pcb = q]
<1>1. IsConn(e) /\ SameConn(d, e) /\ e.pcb = q
  BY Zenon DEF Core, Common, IsConn, SameConn, Kept, SameProxy
<1> HIDE DEF e
<1>2. Core(e)
  BY <1>1, QuietCore, Zenon
<1>3. Core(Done(e)) /\ Idle(Done(e).pcb)
  BY <1>2, DoneCore, Zenon
<1> QED  BY <1>3, Zenon DEF e
-----------------------------------------------------------------------------
(* The SYN, the timers and the reset.                                      *)

(* The step begins: the console has announced a window.                    *)
LEMMA WindowedCore ==
  ASSUME GatewayInv, NEW w
  PROVE  LET d == Windowed(w)
         IN  /\ Core(d) /\ Idle(d.pcb) /\ IsConn(d) /\ SameConn(c, d)
             /\ Outputs(c.pcb, d.pcb) /\ d.pcb = [c.pcb EXCEPT !.wnd = w]
<1> DEFINE q == [c.pcb EXCEPT !.wnd = w]
           d == [c EXCEPT !.pcb = q]
<1>1. Windowed(w) = d
  BY Zenon DEF Windowed
<1>2. IsPcb(c.pcb) /\ IsConn(c) /\ RecvOK(c.pcb)
  BY Zenon DEF GatewayInv, Core, Common
<1>3. Outputs(c.pcb, q) /\ Quiet(c.pcb, q)
  BY <1>2, WindowOutputs, OutputsQuiet
<1> HIDE DEF q
<1>4. IsConn(d) /\ SameConn(c, d) /\ d.pcb = q
  BY <1>2 DEF IsConn, SameConn, Kept, SameProxy
<1> HIDE DEF d
<1>5. Core(d)
  BY <1>3, <1>4, QuietCore, Zenon DEF GatewayInv
<1>6. Idle(d.pcb)
  BY <1>3, <1>4, Zenon DEF GatewayInv, Idle, Outputs, SameStep
<1> QED  BY <1>1, <1>3, <1>4, <1>5, <1>6, Zenon DEF q

(* A segment that is only acknowledged.                                    *)
LEMMA AckStep ==
  ASSUME GatewayInv, NEW w
  PROVE  LET e == Done([Windowed(w) EXCEPT !.pcb = tcp_output(tcp_ack_now(@))])
         IN  Core(e) /\ Idle(e.pcb)
<1> DEFINE d == Windowed(w)
           q == tcp_output(tcp_ack_now(d.pcb))
<1>1. Core(d) /\ IsPcb(d.pcb) /\ RecvOK(d.pcb)
  BY WindowedCore, Zenon DEF Core, Common
<1>2. Outputs(d.pcb, tcp_ack_now(d.pcb))
  BY <1>1, AckNowOutputs, Zenon
<1>3. Outputs(tcp_ack_now(d.pcb), q)
  BY <1>2, OutputOutputs, Zenon DEF Outputs
<1>4. Quiet(d.pcb, q)
  BY <1>1, <1>2, <1>3, OutputsTwice, OutputsQuiet, Zenon
<1> HIDE DEF d, q
<1>5. LET e == Done([d EXCEPT !.pcb = q]) IN Core(e) /\ Idle(e.pcb)
  BY <1>1, <1>4, PcbCore, Zenon
<1> QED  BY <1>5, Zenon DEF d, q

(* The SYN makes a pcb with the whole window and the whole send buffer.    *)
LEMMA SynStep ==
  ASSUME SetFacts, GatewayInv, ConsoleSyn
  PROVE  GatewayInv'
<1>1. PICK w \in Windows :
         \/ /\ c.pcb.state = "LISTEN"
            /\ c' = Done([c EXCEPT !.pcb = tcp_output(tcp_enqueue_flags(
                            [@ EXCEPT !.state = "SYN_RCVD", !.wnd = w], "SYN"))])
         \/ /\ Active
            /\ c' = LET p == [c.pcb EXCEPT !.wnd = w]
                    IN  Done([c EXCEPT !.pcb = tcp_output(
                          IF p.state = "SYN_RCVD" THEN tcp_rexmit(p) ELSE tcp_ack_now(p))])
  BY Zenon DEF ConsoleSyn
<1> DEFINE p == c.pcb
<1>2. Core(c) /\ IsConn(c) /\ IsPcb(p) /\ RecvOK(p)
  BY Zenon DEF GatewayInv, Core, Common
<1>3. CASE /\ c.pcb.state = "LISTEN"
           /\ c' = Done([c EXCEPT !.pcb = tcp_output(tcp_enqueue_flags(
                           [@ EXCEPT !.state = "SYN_RCVD", !.wnd = w], "SYN"))])
  <2> DEFINE u == [p EXCEPT !.state = "SYN_RCVD", !.wnd = w]
             v == tcp_enqueue_flags(u, "SYN")
             q == tcp_output(v)
             e == [c EXCEPT !.pcb = q]
  <2>1. c' = Done(e)
    BY <1>3, Zenon
  <2>2. Fresh(c) /\ ~c.accepted /\ ~c.closed
    <3>1. ~c.closed
      BY <1>2, <1>3, Zenon DEF Core, Closed, Leaving
    <3>2. ~c.accepted
      BY <1>2, <1>3, <3>1, Zenon DEF Core, Open
    <3> QED  BY <1>2, <3>1, <3>2, Zenon DEF Core
  <2>3. /\ SendOK(p) /\ p.snd_buf = TCP_SND_BUF /\ \A s \in Queue(p) : s.len = 0
        /\ ~p.called /\ p.rcv_wnd = TCP_WND /\ p.rcv_nxt = 1 /\ p.ooseq = {} /\ ~p.refused
        /\ "RXCLOSED" \notin p.flags /\ p.fin \in Nat \ {0}
    BY <1>3, <2>2, Zenon DEF Fresh
  <2> HIDE DEF p
  <2>4. IsPcb(u)
    BY <1>2, Zenon DEF IsPcb
  <2>5. /\ u.state = "SYN_RCVD" /\ SameRecv(p, u) /\ u.right_edge = p.right_edge
        /\ SameSend(p, u) /\ u.called = p.called /\ u.refused = p.refused
        /\ u.flags = p.flags
    BY <1>2, Zenon DEF IsPcb, SameRecv, SameSend, Queue
  <2> HIDE DEF u
  <2>6. SendOK(u)
    BY <2>3, <2>5, Zenon DEF SendOK, SameSend
  <2>7. /\ IsPcb(v) /\ SameControl(u, v) /\ SameRecv(u, v)
        /\ v.right_edge = u.right_edge /\ v.snd_buf = u.snd_buf /\ SendOK(v)
        /\ \A s \in Queue(v) : s \in Queue(u) \/ (s.len = 0 /\ s.flag = "SYN")
    BY <2>4, <2>6, SynSends, Zenon
  <2> HIDE DEF v
  <2>8. Outputs(v, q)
    BY <2>7, OutputOutputs, Zenon
  <2> HIDE DEF q
  <2>9. RecvOK(q)
    <3>1. RecvOK(v)
      BY <1>2, <2>5, <2>7, Zenon DEF RecvOK, SameRecv
    <3> QED  BY <2>8, <3>1, OutputsRecv
  <2>10. IsConn(e) /\ SameConn(c, e) /\ e.pcb = q
    BY <1>2, Zenon DEF IsConn, SameConn, Kept, SameProxy
  <2> HIDE DEF e
  <2>11. q.fin = p.fin /\ IsPcb(q)
    BY <2>5, <2>7, <2>8, Zenon DEF SameRecv, Outputs
  <2>12. Common(e)
    BY <1>2, <2>9, <2>10, <2>11, CommonKept, Zenon DEF Core, p
  <2>13. SendOK(q) /\ q.snd_buf = TCP_SND_BUF /\ \A s \in Queue(q) : s.len = 0
    BY <2>3, <2>5, <2>7, <2>8, Zenon DEF SendOK, SameSend, Outputs
  <2>14. /\ q.state = "SYN_RCVD" /\ ~q.called /\ q.rcv_wnd = TCP_WND /\ q.rcv_nxt = 1
         /\ q.ooseq = {} /\ ~q.refused /\ "RXCLOSED" \notin q.flags /\ q.fin \in Nat \ {0}
    BY <2>3, <2>5, <2>7, <2>8 DEF SameRecv, SameControl, Outputs
  <2>15. Fresh(e) /\ ~e.accepted /\ ~e.closed
    BY <2>2, <2>10, <2>13, <2>14 DEF Fresh, SameConn, Kept, SameProxy
  <2>16. Core(e)
    BY <2>12, <2>15, Zenon DEF Core
  <2> QED  BY <2>1, <2>16, DoneCore DEF GatewayInv
<1>4. CASE /\ Active
           /\ c' = LET r == [c.pcb EXCEPT !.wnd = w]
                   IN  Done([c EXCEPT !.pcb = tcp_output(
                         IF r.state = "SYN_RCVD" THEN tcp_rexmit(r) ELSE tcp_ack_now(r))])
  <2> DEFINE r == [p EXCEPT !.wnd = w]
             m == IF r.state = "SYN_RCVD" THEN tcp_rexmit(r) ELSE tcp_ack_now(r)
             q == tcp_output(m)
  <2>1. c' = Done([c EXCEPT !.pcb = q])
    BY <1>4, Zenon
  <2> HIDE DEF p
  <2>2. Quiet(p, r)
    BY <1>2, WindowOutputs, OutputsQuiet, Zenon
  <2> HIDE DEF r
  <2>3. Quiet(r, tcp_rexmit(r))
    BY <2>2, RexmitSends, Zenon DEF Quiet, SameRecv, RecvOK, SendOK, SameSend
  <2>4. Quiet(r, tcp_ack_now(r))
    BY <2>2, AckNowOutputs, OutputsQuiet, Zenon DEF Quiet
  <2>5. Quiet(r, m)
    BY <2>3, <2>4, Zenon
  <2> HIDE DEF m
  <2>6. Quiet(m, q)
    BY <2>5, OutputOutputs, OutputsQuiet, Zenon DEF Quiet
  <2>7. Quiet(p, q)
    BY <2>2, <2>5, <2>6, QuietTwice, Zenon
  <2> HIDE DEF q
  <2>8. LET e == Done([c EXCEPT !.pcb = q]) IN Core(e) /\ Idle(e.pcb)
    BY <1>2, <2>7, PcbCore, Zenon DEF p
  <2> QED  BY <2>1, <2>8 DEF GatewayInv
<1> QED  BY <1>1, <1>3, <1>4, Zenon

(* A pcb the timers or a reset remove is reported to uv_lwip, which closes *)
(* the connection.                                                         *)
LEMMA RemovedCore ==
  ASSUME NEW d, Core(d)
  PROVE  LET e == Removed(d) IN Core(e) /\ Idle(e.pcb)
<1> DEFINE x == IF d.pcb.called THEN uvl_client_freed(d) ELSE d
           q == Freed(x.pcb)
           e == [x EXCEPT !.pcb = q]
<1>1. Removed(d) = e
  BY Zenon DEF Removed
<1>2. Common(d) /\ IsConn(d) /\ IsPcb(d.pcb) /\ RecvOK(d.pcb) /\ Control(d)
  BY Zenon DEF Core, Common
<1>3. CASE d.pcb.called
  <2>1. d.accepted /\ ~d.closed
    BY <1>3, Zenon DEF Core, Closed, Fresh
  <2> DEFINE y == uvl_client_freed(d)
  <2>2. /\ IsConn(y) /\ Kept(d, y) /\ y.closed /\ ~y.read_cb /\ y.pcb = d.pcb
        /\ Control(y)
    BY <1>2, <2>1, FreedConn, Zenon
  <2>3. x = y
    BY <1>3, Zenon
  <2> HIDE DEF x, y
  <2>4. /\ IsPcb(q) /\ RecvOK(q) /\ q.state = "FREE" /\ ~q.called /\ q.fin = d.pcb.fin
        /\ q.input = FALSE /\ q.recv_flags = {} /\ q.recv_acked = 0 /\ q.recv_data = <<>>
    BY <1>2, <2>2, <2>3, FreedPcb, ZenonT(30)
  <2> HIDE DEF q
  <2>5. /\ IsConn(e) /\ SameConn(y, e) /\ e.pcb = q
    BY <2>2, <2>3, Zenon DEF IsConn, SameConn, Kept, SameProxy
  <2> HIDE DEF e
  <2>6. Common(e)
    <3>1. Upstream(d) /\ Wire(d) /\ d.mode \in Modes
      BY <1>2, Zenon DEF Common
    <3>2. /\ e.toRemote = d.toRemote /\ e.recv_buf = d.recv_buf /\ e.wire = d.wire
          /\ e.fromRemote = d.fromRemote /\ e.mode = d.mode /\ e.pcb.fin = d.pcb.fin
      BY <2>2, <2>4, <2>5, Zenon DEF SameConn, Kept
    <3>3. Upstream(e)
      BY ONLY <3>1, <3>2, Zenon DEF Upstream
    <3>4. Wire(e) /\ e.mode \in Modes
      BY ONLY <3>1, <3>2, Zenon DEF Wire, Limit
    <3>5. Control(e)
      BY ONLY <2>2, <2>5, ZenonT(30) DEF Control, Reader, Linked, SameConn, Kept, SameProxy
    <3> QED  BY <2>4, <2>5, <3>3, <3>4, <3>5, Zenon DEF Common
  <2>7. e.closed /\ e.accepted /\ Closed(e)
    BY <2>1, <2>2, <2>4, <2>5, Zenon DEF Closed, SameConn, Kept
  <2>8. Core(e)
    BY <2>6, <2>7, Zenon DEF Core
  <2>9. Idle(e.pcb)
    BY <2>4, <2>5, Zenon DEF Idle
  <2> QED  BY <1>1, <2>8, <2>9, Zenon
<1>4. CASE ~d.pcb.called
  <2>1. x = d
    BY <1>4, Zenon
  <2> HIDE DEF x
  <2>2. /\ IsPcb(q) /\ RecvOK(q) /\ q.state = "FREE" /\ ~q.called /\ q.fin = d.pcb.fin
        /\ q.rcv_nxt = d.pcb.rcv_nxt /\ q.rcv_wnd = TCP_WND
        /\ q.ooseq = {} /\ q.flags = {} /\ ~q.refused
        /\ q.input = FALSE /\ q.recv_flags = {} /\ q.recv_acked = 0 /\ q.recv_data = <<>>
    BY <1>2, <2>1, FreedPcb, Zenon
  <2> HIDE DEF q
  <2>3. /\ IsConn(e) /\ SameConn(d, e) /\ e.pcb = q
    BY <1>2, <2>1 DEF IsConn, SameConn, Kept, SameProxy
  <2> HIDE DEF e
  <2>4. Common(e)
    BY <1>2, <2>2, <2>3, CommonKept, Zenon
  <2>5. ~(d.accepted /\ ~d.closed)
    BY <1>4, Zenon DEF Core, Open
  <2>6. ~e.accepted => Fresh(e)
    <3>1. ~e.accepted => Fresh(d)
      BY <2>3, Zenon DEF Core, SameConn, Kept
    <3> QED  BY <2>2, <2>3, <3>1, Zenon DEF Fresh, SameConn, Kept, SameProxy
  <2>7. e.closed => Closed(e)
    BY <2>2, <2>3, Zenon DEF Core, Closed, SameConn
  <2>8. Core(e)
    BY <2>3, <2>4, <2>5, <2>6, <2>7, Zenon DEF Core, SameConn, Kept
  <2>9. Idle(e.pcb)
    BY <2>2, <2>3, Zenon DEF Idle
  <2> QED  BY <1>1, <2>8, <2>9, Zenon
<1> QED  BY <1>3, <1>4, Zenon

(* A reset from the console.                                               *)
LEMMA ResetStep ==
  ASSUME GatewayInv, ConsoleReset
  PROVE  GatewayInv'
<1>1. CASE c' = LET e == IF c.pcb.called THEN uvl_client_freed(c) ELSE c
                IN  Done([e EXCEPT !.pcb = Freed(@)])
  <2>1. c' = Done(Removed(c))
    BY <1>1, Zenon DEF Removed
  <2>2. Core(Removed(c))
    BY RemovedCore, Zenon DEF GatewayInv
  <2> QED  BY <2>1, <2>2, DoneCore, Zenon DEF GatewayInv
<1>2. CASE \E w \in Windows :
             c' = Done([Windowed(w) EXCEPT !.pcb = tcp_output(tcp_ack_now(@))])
  BY <1>2, AckStep, Zenon DEF GatewayInv
<1> QED  BY <1>1, <1>2, Zenon DEF ConsoleReset

(* The fast timer acknowledges what is due.                                *)
LEMMA FastTimerStep ==
  ASSUME GatewayInv, tcp_fasttmr
  PROVE  GatewayInv'
BY AckStep, Zenon DEF tcp_fasttmr, GatewayInv

(* The slow timer probes, sends again, or removes the pcb.                 *)
LEMMA SlowTimerStep ==
  ASSUME GatewayInv, tcp_slowtmr
  PROVE  GatewayInv'
<1> DEFINE p(w) == [c.pcb EXCEPT !.wnd = w]
<1>1. PICK w \in Windows :
         \/ c' = Done([c EXCEPT !.pcb = tcp_rexmit_rto(p(w))])
         \/ c' = Done([c EXCEPT !.pcb = tcp_zero_window_probe(p(w))])
         \/ c' = Removed(c)
         \/ c' = [c EXCEPT !.pcb.ooseq = {}]
         \/ c' = Done([c EXCEPT !.pcb = tcp_output(p(w))])
  BY Zenon DEF tcp_slowtmr
<1> DEFINE r == p(w)
<1>2. Core(c) /\ IsConn(c) /\ IsPcb(c.pcb) /\ RecvOK(c.pcb)
  BY Zenon DEF GatewayInv, Core, Common
<1>3. Outputs(c.pcb, r)
  BY <1>2, WindowOutputs
<1> HIDE DEF p
<1>4. ASSUME NEW q, Outputs(r, q), c' = Done([c EXCEPT !.pcb = q])
      PROVE  GatewayInv'
  <2>1. Quiet(c.pcb, q)
    BY <1>2, <1>3, <1>4, OutputsTwice, OutputsQuiet, Zenon
  <2>2. LET e == Done([c EXCEPT !.pcb = q]) IN Core(e) /\ Idle(e.pcb)
    BY <1>2, <2>1, PcbCore, Zenon
  <2> QED  BY <1>4, <2>2, Zenon DEF GatewayInv
<1>5. IsPcb(r)
  BY <1>3, Zenon DEF Outputs
<1>6. CASE c' = Done([c EXCEPT !.pcb = tcp_rexmit_rto(r)])
  BY <1>4, <1>5, <1>6, RtoOutputs, Zenon
<1>7. CASE c' = Done([c EXCEPT !.pcb = tcp_zero_window_probe(r)])
  BY <1>4, <1>5, <1>7, ProbeOutputs, Zenon
<1>8. CASE c' = Removed(c)
  BY <1>8, RemovedCore, Zenon DEF GatewayInv
<1>9. CASE c' = [c EXCEPT !.pcb.ooseq = {}]
  <2> DEFINE q == [c.pcb EXCEPT !.ooseq = {}]
             e == [c EXCEPT !.pcb = q]
  <2>1. c' = e
    BY <1>9, Zenon
  <2>2. IsPcb(q) /\ SameControl(c.pcb, q) /\ SameSend(c.pcb, q) /\ SameStep(c.pcb, q)
        /\ q.fin = c.pcb.fin /\ q.rcv_nxt = c.pcb.rcv_nxt /\ q.rcv_wnd = c.pcb.rcv_wnd
        /\ q.rcv_ann_wnd = c.pcb.rcv_ann_wnd /\ q.right_edge = c.pcb.right_edge /\ q.ooseq = {}
    BY <1>2 DEF IsPcb, SameControl, SameSend, SameStep, Queue
  <2> HIDE DEF q
  <2>3. Quiet(c.pcb, q)
    BY <1>2, <2>2, Zenon DEF Quiet, RecvOK
  <2>4. IsConn(e) /\ SameConn(c, e) /\ e.pcb = q
    BY <1>2, Zenon DEF IsConn, SameConn, Kept, SameProxy
  <2> HIDE DEF e
  <2>5. Core(e)
    BY <1>2, <2>3, <2>4, QuietCore, Zenon
  <2>6. Idle(e.pcb)
    BY <2>2, <2>4 DEF GatewayInv, Idle, SameStep
  <2> QED  BY <2>1, <2>5, <2>6, Zenon DEF GatewayInv
<1>10. CASE c' = Done([c EXCEPT !.pcb = tcp_output(r)])
  BY <1>4, <1>5, <1>10, OutputOutputs, Zenon
<1> QED  BY <1>1, <1>6, <1>7, <1>8, <1>9, <1>10, Zenon
-----------------------------------------------------------------------------
(* The proxy's connection, the release and the handles.                    *)

(* Between steps every accepted connection may be closed.                  *)
LEMMA CoreEndable ==
  ASSUME NEW d, Core(d), d.accepted, d.pcb.input \in BOOLEAN
  PROVE  Endable(d)
<1>1. CASE d.closed
  BY <1>1, Zenon DEF Core, Endable
<1>2. CASE ~d.closed
  <2>1. Open(d) /\ Common(d)
    BY <1>2, Zenon DEF Core
  <2>2. Least(d.pcb.rcv_nxt, d.pcb.fin) = d.pcb.rcv_nxt
    BY <2>1 DEF Open, Common, RecvOK, Least
  <2> QED  BY <1>2, <2>1, <2>2, Zenon DEF Endable, Open
<1> QED  BY <1>1, <1>2, Zenon

(* TcpConnection reads from the console.                                   *)
LEMMA ReadStartCore ==
  ASSUME NEW d, Core(d), d.proxy = "open", ~d.inflight, ~d.read_cb,
         d.pcb.input \in BOOLEAN
  PROVE  Core(uvl_read_start(d))
<1>1. Common(d) /\ d.accepted /\ d.mode # "fake" /\ ~d.killed
  BY Zenon DEF Core, Common, Control, Linked
<1>2. CASE d.closed
  <2>1. uvl_read_start(d) = IF d.closing THEN d ELSE kill(d)
    BY <1>1, <1>2, Zenon DEF uvl_read_start, readEnd, onClose
  <2>2. Core(kill(d))
    BY <1>1, CoreEndable, KillCore, Zenon DEF Ready
  <2> QED  BY <2>1, <2>2, Zenon
<1>3. CASE ~d.closed
  <2> DEFINE e == [d EXCEPT !.read_req = TRUE, !.read_cb = TRUE]
  <2>1. uvl_read_start(d) = e
    BY <1>3, Zenon DEF uvl_read_start
  <2>2. IsConn(e)
    BY <1>1, Zenon DEF Common, IsConn
  <2>3. /\ Kept(d, e) /\ SameProxy(d, e) /\ e.closed = d.closed /\ e.closing = d.closing
        /\ e.handles = d.handles /\ e.writes = d.writes /\ e.pcb = d.pcb
    BY <1>1, Zenon DEF Common, IsConn, Kept, SameProxy
  <2> HIDE DEF e
  <2>4. Common(e)
    <3>1. Upstream(e)
      BY <1>1, <2>3, Zenon DEF Common, Upstream, Kept
    <3>2. Wire(e) /\ e.mode \in Modes
      BY <1>1, <2>3, Zenon DEF Common, Wire, Limit, Kept
    <3>3. Control(e)
      BY <1>1, <1>3, <2>3, Zenon DEF Common, Control, Reader, Linked, Kept, SameProxy
    <3> QED  BY <1>1, <2>2, <2>3, <3>1, <3>2, <3>3, Zenon DEF Common
  <2>5. Open(d) /\ Downstream(d)
    BY <1>1, <1>3, Zenon DEF Core
  <2>6. Open(e)
    BY <2>3, <2>5, Zenon DEF Open, Kept, SameProxy
  <2>7. Downstream(e)
    <3>1. Limit(e) = Limit(d) /\ e.wire = d.wire
      BY <2>3, Zenon DEF Limit, Kept
    <3>2. \A r : Request(e, r) <=> Request(d, r)
      BY <3>1, Zenon DEF Request
    <3>3. Requests(e)
      BY <2>3, <2>5, <3>1, <3>2, Zenon DEF Downstream, Requests, Kept, SameProxy
    <3> QED  BY <2>3, <2>5, <3>3, Zenon DEF Downstream, Pending, Filled, AllSent
  <2>8. e.accepted /\ ~e.closed
    BY <1>1, <1>3, <2>3, Zenon DEF Kept
  <2> QED  BY <2>1, <2>4, <2>6, <2>7, <2>8, Zenon DEF Core
<1> QED  BY <1>2, <1>3, Zenon

(* The proxy's connection changes its state, and nothing is read from it   *)
(* yet, or for the first time.                                             *)
LEMMA ProxyMoves ==
  ASSUME NEW d, NEW e, Core(d), IsConn(e), Kept(d, e),
         e.closed = d.closed, e.closing = d.closing, e.handles = d.handles,
         e.read_cb = d.read_cb, e.writes = d.writes, e.pcb = d.pcb,
         e.killed = d.killed, e.crashed = d.crashed, d.accepted, ~d.read_cb,
         e.inflight \/ e.reading => e.proxy = "open",
         d.mode # "fake", ~d.killed,
         e.reading => d.writes = <<>> \/ d.closed,
         e.proxy # "open" => d.writes = <<>> \/ d.closed
  PROVE  Core(e)
<1>1. Common(d)
  BY Zenon DEF Core
<1>2. Common(e)
  <2>1. Upstream(e)
    BY <1>1, ZenonT(30) DEF Common, Upstream, Kept
  <2>2. Wire(e) /\ e.mode \in Modes
    BY <1>1, Zenon DEF Common, Wire, Limit, Kept
  <2>3. Control(e)
    BY <1>1, Zenon DEF Common, Control, Reader, Linked, Kept
  <2> QED  BY <1>1, <2>1, <2>2, <2>3 DEF Common
<1>3. e.accepted /\ (e.closed => Closed(e))
  BY DEF Core, Closed, Complete, Kept
<1>4. ASSUME ~e.closed PROVE Open(e) /\ Downstream(e)
  <2>1. Open(d) /\ Downstream(d)
    BY <1>4, Zenon DEF Core
  <2>2. Open(e)
    BY <2>1, Zenon DEF Open, Kept
  <2>3. Limit(e) = Limit(d) /\ e.wire = d.wire
    BY Zenon DEF Limit, Kept
  <2>4. \A r : Request(e, r) <=> Request(d, r)
    BY <2>3, Zenon DEF Request
  <2>5. Requests(e)
    BY <1>4, <2>1, <2>3, <2>4, Zenon DEF Downstream, Requests, Kept
  <2> QED  BY <2>1, <2>2, <2>5, Zenon DEF Downstream, Pending, Filled, AllSent
<1> QED  BY <1>2, <1>3, <1>4, Zenon DEF Core

(* The answers of the SOCKS5 server.                                       *)
LEMMA SocksStep ==
  ASSUME GatewayInv, SocksAnswer \/ SocksFails
  PROVE  GatewayInv'
<1>1. /\ Runs /\ c.mode = "socks5" /\ c.proxy \in {"connecting", "method", "auth", "request"}
      /\ \E st \in {"method", "auth", "request", "failed"} : c' = [c EXCEPT !.proxy = st]
  <2> DEFINE H == Handshake
  <2>1. /\ DOMAIN H = {"connecting", "method", "auth"}
        /\ \A x \in DOMAIN H : H[x] \subseteq {"method", "auth", "request"}
    BY DEF Handshake
  <2>2. CASE SocksAnswer
    <3>1. PICK next \in H[c.proxy] : c' = [c EXCEPT !.proxy = next]
      BY <2>2, Zenon DEF SocksAnswer
    <3> QED  BY <2>1, <2>2, <3>1, Zenon DEF SocksAnswer
  <2>3. CASE SocksFails
    BY <2>1, <2>3, Zenon DEF SocksFails
  <2> QED  BY <2>2, <2>3, Zenon
<1>2. PICK st \in {"method", "auth", "request", "failed"} : c' = [c EXCEPT !.proxy = st]
  BY <1>1, Zenon
<1>3. Core(c) /\ IsConn(c) /\ Control(c)
  BY Zenon DEF GatewayInv, Core, Common
<1>4. /\ c.accepted /\ ~c.inflight /\ ~c.reading /\ ~c.read_cb /\ ~c.killed
  BY <1>1, <1>3, Zenon DEF Control, Reader, Linked, Runs
<1> DEFINE e == [c EXCEPT !.proxy = st]
<1>5. /\ IsConn(e) /\ Kept(c, e) /\ e.closed = c.closed /\ e.closing = c.closing
      /\ e.handles = c.handles /\ e.read_cb = c.read_cb /\ e.writes = c.writes
      /\ e.pcb = c.pcb /\ e.killed = c.killed /\ e.crashed = c.crashed
      /\ e.inflight = c.inflight /\ e.reading = c.reading /\ e.proxy = st
  BY <1>3, Zenon DEF IsConn, Kept
<1>6. c' = e
  BY <1>2, Zenon
<1> HIDE DEF e
<1>7. c.writes = <<>> \/ c.closed
  BY <1>1, <1>3, <1>4, Zenon DEF Core, Downstream, Requests
<1>8. Core(e)
  BY <1>1, <1>3, <1>4, <1>5, <1>7, ProxyMoves
<1> QED  BY <1>5, <1>6, <1>8, Zenon DEF GatewayInv

(* The proxy is connected, and the gateway begins to read on both sides.   *)
LEMMA ConnectsStep ==
  ASSUME GatewayInv, ProxyConnects
  PROVE  GatewayInv'
<1>1. PICK w \in Windows :
        c' = Done(uvl_read_start([Windowed(w) EXCEPT !.proxy = "open", !.reading = TRUE]))
  BY Zenon DEF ProxyConnects
<1> DEFINE d == Windowed(w)
           e == [d EXCEPT !.proxy = "open", !.reading = TRUE]
<1>2. Core(d) /\ Idle(d.pcb) /\ IsConn(d) /\ SameConn(c, d)
  BY WindowedCore, Zenon
<1>3. Runs /\ c.proxy = (IF c.mode = "direct" THEN "connecting" ELSE "request")
  BY Zenon DEF ProxyConnects
<1> HIDE DEF d
<1>4. ~d.crashed /\ d.proxy \in {"connecting", "request"}
  BY <1>2, <1>3, Zenon DEF SameConn, SameProxy, Runs
<1>5. Control(d)
  BY <1>2, Zenon DEF Core, Common
<1>6. /\ d.accepted /\ ~d.inflight /\ ~d.reading /\ ~d.read_cb /\ ~d.killed
      /\ d.mode # "fake"
  BY <1>4, <1>5, Zenon DEF Control, Reader, Linked
<1>7. IsConn(e)
  BY <1>2, Zenon DEF IsConn
<1>8. /\ Kept(d, e) /\ e.closed = d.closed /\ e.closing = d.closing
      /\ e.handles = d.handles /\ e.read_cb = d.read_cb /\ e.writes = d.writes
      /\ e.pcb = d.pcb /\ e.killed = d.killed /\ e.crashed = d.crashed
      /\ e.inflight = d.inflight /\ e.proxy = "open"
  BY <1>2, Zenon DEF IsConn, Kept
<1>9. c' = Done(uvl_read_start(e))
  BY <1>1, Zenon DEF d
<1> HIDE DEF e
<1>10. d.closed \/ d.writes = <<>>
  BY <1>2, <1>4, <1>6, Zenon DEF Core, Downstream, Requests
<1>11. Core(e)
  BY <1>2, <1>6, <1>7, <1>8, <1>10, ProxyMoves, Zenon
<1>12. e.pcb.input \in BOOLEAN
  BY <1>2, <1>8, Zenon DEF Idle
<1>13. Core(uvl_read_start(e))
  BY <1>6, <1>8, <1>11, <1>12, ReadStartCore, Zenon
<1> QED  BY <1>9, <1>13, DoneCore, Zenon DEF GatewayInv

(* The remote end has taken the data, and the next is read from the        *)
(* console.                                                                *)
LEMMA WrittenStep ==
  ASSUME GatewayInv, ProxyWritten
  PROVE  GatewayInv'
<1>1. PICK w \in Windows :
        c' = Done(uvl_read_start([Windowed(w) EXCEPT !.inflight = FALSE]))
  BY Zenon DEF ProxyWritten
<1> DEFINE d == Windowed(w)
           e == [d EXCEPT !.inflight = FALSE]
<1>2. Core(d) /\ Idle(d.pcb) /\ IsConn(d) /\ SameConn(c, d)
  BY WindowedCore, Zenon
<1>3. Runs /\ c.proxy = "open" /\ c.inflight
  BY Zenon DEF ProxyWritten
<1> HIDE DEF d
<1>4. d.proxy = "open" /\ d.inflight
  BY <1>2, <1>3, Zenon DEF SameConn, SameProxy
<1>5. Control(d)
  BY <1>2, Zenon DEF Core, Common
<1>6. d.accepted /\ ~d.read_cb /\ ~d.killed /\ d.mode # "fake"
  BY <1>4, <1>5, Zenon DEF Control, Reader, Linked
<1>7. IsConn(e)
  BY <1>2, Zenon DEF IsConn
<1>8. /\ Kept(d, e) /\ e.closed = d.closed /\ e.closing = d.closing
      /\ e.handles = d.handles /\ e.read_cb = d.read_cb /\ e.writes = d.writes
      /\ e.pcb = d.pcb /\ e.killed = d.killed /\ e.crashed = d.crashed
      /\ e.reading = d.reading /\ e.proxy = "open" /\ ~e.inflight
  BY <1>2, <1>4 DEF IsConn, Kept
<1>9. c' = Done(uvl_read_start(e))
  BY <1>1, Zenon DEF d
<1> HIDE DEF e
<1>10. e.reading => d.closed \/ d.writes = <<>>
  BY <1>2, <1>6, <1>8, Zenon DEF Core, Downstream, Requests
<1>11. Core(e)
  BY <1>2, <1>6, <1>7, <1>8, <1>10, ProxyMoves, Zenon
<1>12. e.pcb.input \in BOOLEAN
  BY <1>2, <1>8, Zenon DEF Idle
<1>13. Core(uvl_read_start(e))
  BY <1>6, <1>8, <1>11, <1>12, ReadStartCore, Zenon
<1> QED  BY <1>9, <1>13, DoneCore, Zenon DEF GatewayInv

(* The remote end is closed or has failed.                                 *)
LEMMA ClosesStep ==
  ASSUME GatewayInv, ProxyCloses
  PROVE  GatewayInv'
<1>1. PICK w \in Windows : c' = Done(kill(Windowed(w)))
  BY Zenon DEF ProxyCloses
<1> DEFINE d == Windowed(w)
<1>2. Core(d) /\ Idle(d.pcb) /\ IsConn(d) /\ SameConn(c, d)
  BY WindowedCore, Zenon
<1> HIDE DEF d
<1>3. Ready(d) /\ d.proxy # "none"
  BY <1>2, Zenon DEF ProxyCloses, Ready, SameConn, SameProxy, Kept
<1>4. d.accepted
  BY <1>2, <1>3, Zenon DEF Core, Common, Control, Linked
<1>5. Core(kill(d))
  BY <1>2, <1>3, <1>4, CoreEndable, KillCore, Zenon DEF Idle
<1> QED  BY <1>1, <1>5, DoneCore, Zenon DEF GatewayInv, d

(* The gateway is released.                                                *)
LEMMA ReleaseStep ==
  ASSUME GatewayInv, release
  PROVE  GatewayInv'
<1> DEFINE d == [c EXCEPT !.released = TRUE]
<1>1. c' = IF c.accepted THEN Done(close(d)) ELSE d
  BY Zenon DEF release
<1>2. Core(c) /\ IsConn(c) /\ Idle(c.pcb)
  BY Zenon DEF GatewayInv, Core, Common
<1>3. /\ IsConn(d) /\ SameProxy(c, d) /\ d.closed = c.closed /\ d.closing = c.closing
      /\ d.handles = c.handles /\ d.read_cb = c.read_cb /\ d.writes = c.writes
      /\ d.mode = c.mode /\ d.accepted = c.accepted /\ d.released /\ d.aborted = c.aborted
      /\ d.toRemote = c.toRemote /\ d.fromRemote = c.fromRemote /\ d.wire = c.wire
      /\ d.recv_buf = c.recv_buf /\ d.pcb = c.pcb
  BY <1>2, Zenon DEF IsConn, SameProxy
<1> HIDE DEF d
<1>4. Common(d)
  <2>1. Upstream(d)
    BY <1>2, <1>3 DEF Core, Common, Upstream
  <2>2. Wire(d) /\ d.mode \in Modes
    BY <1>2, <1>3, Zenon DEF Core, Common, Wire, Limit
  <2>3. Control(d)
    BY <1>2, <1>3 DEF Core, Common, Control, Reader, Linked, SameProxy
  <2> QED  BY <1>2, <1>3, <2>1, <2>2, <2>3, Zenon DEF Core, Common
<1>5. CASE ~c.accepted
  <2>1. Fresh(c) /\ ~c.closed
    BY <1>2, <1>5, Zenon DEF Core, Fresh
  <2>2. Fresh(d)
    BY <1>3, <2>1 DEF Fresh, SameProxy
  <2>3. Core(d)
    BY <1>3, <1>4, <1>5, <2>1, <2>2, Zenon DEF Core
  <2> QED  BY <1>1, <1>2, <1>3, <1>5, <2>3, Zenon DEF GatewayInv
<1>6. CASE c.accepted
  <2>1. Endable(c)
    BY <1>2, <1>6, CoreEndable, Zenon DEF Idle
  <2>2. Endable(d)
    BY <1>3, <1>4, <2>1, Zenon DEF Endable, Closed, Complete
  <2>3. Core(close(d))
    BY <1>3, <2>2, CloseCore, Zenon
  <2> QED  BY <1>1, <1>6, <2>3, DoneCore, Zenon DEF GatewayInv
<1> QED  BY <1>5, <1>6, Zenon

(* uvl_tcp_close_handle_cb: what is left in recv_buf goes with the         *)
(* handles.                                                                *)
LEMMA HandlesStep ==
  ASSUME GatewayInv, HandlesClosed
  PROVE  GatewayInv'
<1> DEFINE d == [c EXCEPT !.handles = "closed", !.read_req = FALSE, !.write_req = FALSE,
                          !.recv_buf = <<>>]
<1>1. c' = IF c.mode = "fake" THEN d ELSE kill(d)
  BY Zenon DEF HandlesClosed
<1>2. Core(c) /\ IsConn(c) /\ Idle(c.pcb)
  BY Zenon DEF GatewayInv, Core, Common
<1>3. IsConn(d)
  BY <1>2, Zenon DEF IsConn
<1>4. /\ SameProxy(c, d) /\ d.closed = c.closed /\ d.closing = c.closing
      /\ d.read_cb = c.read_cb
      /\ d.mode = c.mode /\ d.accepted = c.accepted /\ d.released = c.released
      /\ d.aborted = c.aborted
      /\ d.toRemote = c.toRemote /\ d.fromRemote = c.fromRemote /\ d.wire = c.wire
      /\ d.recv_buf = <<>> /\ d.pcb = c.pcb
  BY <1>2, Zenon DEF IsConn, SameProxy
<1> HIDE DEF d
<1>5. c.closing /\ c.closed /\ c.accepted /\ Closed(c)
  BY <1>2, Zenon DEF HandlesClosed, Core, Common, Control, Linked
<1>6. Common(d)
  <2>1. Upstream(d)
    BY <1>2, <1>4 DEF Core, Common, Upstream
  <2>2. Wire(d) /\ d.mode \in Modes
    BY <1>2, <1>4, Zenon DEF Core, Common, Wire, Limit
  <2>3. Control(d)
    BY <1>2, <1>4, <1>5, Zenon DEF Core, Common, Control, Reader, Linked, SameProxy
  <2> QED  BY <1>2, <1>3, <1>4, <2>1, <2>2, <2>3 DEF Core, Common
<1>7. Closed(d)
  BY <1>4, <1>5, Zenon DEF Closed, Complete
<1>8. Core(d) /\ Endable(d)
  BY <1>4, <1>5, <1>6, <1>7, Zenon DEF Core, Endable
<1>9. CASE c.mode = "fake"
  BY <1>1, <1>2, <1>4, <1>8, <1>9, Zenon DEF GatewayInv
<1>10. CASE c.mode # "fake"
  <2>1. d.killed \/ d.released
    BY <1>4, <1>5, <1>6, <1>10, Zenon DEF Common, Control, Linked
  <2>2. Core(kill(d)) /\ (~d.killed => Shut(d, kill(d)))
    BY <1>8, <2>1, KillCore, Zenon
  <2>3. d.killed => kill(d) = d
    BY Zenon DEF kill
  <2>4. kill(d).pcb = d.pcb
    BY <1>4, <1>5, <2>2, <2>3, Zenon DEF Shut
  <2> QED  BY <1>1, <1>2, <1>4, <1>10, <2>2, <2>4, Zenon DEF GatewayInv
<1> QED  BY <1>9, <1>10, Zenon
-----------------------------------------------------------------------------
(* The two streams.                                                        *)

(* A stream goes on with what follows it.                                  *)
LEMMA CountsOn ==
  ASSUME NEW s, NEW t, NEW k \in Nat, Counts(s, k), Counts(t, k + Len(s))
  PROVE  Counts(s \o t, k) /\ Len(s \o t) = Len(s) + Len(t)
<1>1. s \in Seq(Nat) /\ t \in Seq(Nat)
  BY Zenon DEF Counts
<1>2. s \o t \in Seq(Nat) /\ Len(s \o t) = Len(s) + Len(t)
  BY <1>1
<1>3. ASSUME NEW i \in 1 .. Len(s \o t) PROVE (s \o t)[i] = k + i
  <2>1. CASE i <= Len(s)
    <3>1. (s \o t)[i] = s[i]
      BY <1>1, <1>2, <2>1
    <3> QED  BY <2>1, <3>1 DEF Counts
  <2>2. CASE i > Len(s)
    <3>1. i - Len(s) \in 1 .. Len(t)
      BY <1>1, <1>2, <2>2
    <3>2. (s \o t)[i] = t[i - Len(s)]
      BY <1>1, <1>2, <2>2
    <3>3. t[i - Len(s)] = k + Len(s) + (i - Len(s))
      BY <3>1, Zenon DEF Counts
    <3> QED  BY <1>1, <1>2, <3>2, <3>3
  <2> QED  BY <1>1, <2>1, <2>2
<1> QED  BY <1>2, <1>3, Zenon DEF Counts

(* Upstream as one stream in two pieces.                                   *)
LEMMA UpstreamCounts ==
  ASSUME NEW d
  PROVE  Upstream(d) <=> /\ Counts(d.toRemote, 0) /\ Counts(d.recv_buf, Len(d.toRemote))
                         /\ Len(d.toRemote) < d.pcb.fin
<1>1. \A i \in Nat : 0 + i = i
  OBVIOUS
<1> QED  BY <1>1 DEF Upstream, Counts

(* The read request: recv_buf goes to the remote end as a whole, and       *)
(* tcp_recved opens the window by as much.                                 *)
LEMMA ReadStep ==
  ASSUME GatewayInv, ReadAsync
  PROVE  GatewayInv'
<1>1. PICK w \in Windows :
        c' = Done(uvl_async_tcp_read_cb([Windowed(w) EXCEPT !.read_req = FALSE]))
  BY Zenon DEF ReadAsync
<1> DEFINE v == Windowed(w)
           d == [v EXCEPT !.read_req = FALSE]
<1>2. Core(v) /\ Idle(v.pcb) /\ IsConn(v)
  BY WindowedCore, Zenon
<1> HIDE DEF v
<1>3. IsConn(d) /\ SameConn(v, d) /\ d.pcb = v.pcb
  BY <1>2, Zenon DEF IsConn, SameConn, Kept, SameProxy
<1>4. c' = Done(uvl_async_tcp_read_cb(d))
  BY <1>1, Zenon DEF v
<1> HIDE DEF d
<1>5. Core(d) /\ Common(d)
  <2>1. IsPcb(v.pcb) /\ RecvOK(v.pcb)
    BY <1>2, Zenon DEF Core, Common
  <2>2. Quiet(v.pcb, d.pcb)
    BY <1>3, <2>1, OutputsNothing, OutputsQuiet, Zenon
  <2> QED  BY <1>2, <1>3, <2>2, QuietCore, Zenon DEF Core
<1>6. CASE ~d.read_cb \/ d.recv_buf = <<>>
  <2>1. uvl_async_tcp_read_cb(d) = d
    BY <1>6, Zenon DEF uvl_async_tcp_read_cb
  <2> QED  BY <1>4, <1>5, <2>1, DoneCore, Zenon DEF GatewayInv
<1>7. CASE ~(~d.read_cb \/ d.recv_buf = <<>>)
  <2> DEFINE n == Len(d.recv_buf)
             q == tcp_recved(d.pcb, n)
             x == [d EXCEPT !.pcb = q, !.recv_buf = <<>>]
             e == [x EXCEPT !.read_cb = FALSE, !.toRemote = @ \o d.recv_buf, !.inflight = TRUE]
  <2>1. uvl_async_tcp_read_cb(d) = e
    BY <1>7, Zenon DEF uvl_async_tcp_read_cb, onData
  <2>2. /\ d.proxy = "open" /\ ~d.closed /\ d.accepted /\ Linked(d) /\ d.read_cb
    BY <1>5, <1>7 DEF Common, Control, Reader, Linked
  <2>3. Open(d) /\ Downstream(d)
    BY <1>5, <2>2, Zenon DEF Core
  <2>4. Counts(d.toRemote, 0) /\ Counts(d.recv_buf, Len(d.toRemote))
    BY <1>5, UpstreamCounts, Zenon DEF Common
  <2>5. n \in Nat /\ Len(d.toRemote) \in Nat
    BY <2>4 DEF Counts
  <2>6. /\ SameOutside(d.pcb, q) /\ RecvOK(q)
        /\ q.rcv_nxt = d.pcb.rcv_nxt /\ q.rcv_wnd = TCP_WND
    <3>1. d.pcb.rcv_wnd + n = TCP_WND /\ TCP_WND \in Nat
      BY <2>3, SizesAreAtLeastOne, Zenon DEF Open
    <3> HIDE DEF n
    <3> QED  BY <1>5, <2>5, <3>1, RecvedRecv DEF Common
  <2> HIDE DEF q
  <2>7. IsConn(x)
    BY <1>3, Zenon DEF IsConn
  <2>8. /\ x.mode = d.mode /\ x.accepted = d.accepted /\ x.released = d.released
        /\ x.aborted = d.aborted /\ x.toRemote = d.toRemote /\ x.fromRemote = d.fromRemote
        /\ x.wire = d.wire /\ x.recv_buf = <<>> /\ x.pcb = q /\ SameProxy(d, x)
        /\ x.closed = d.closed /\ x.closing = d.closing /\ x.handles = d.handles
        /\ x.writes = d.writes
    BY <1>3, Zenon DEF IsConn, SameProxy
  <2> HIDE DEF x
  <2>9. IsConn(e)
    BY <2>7, Zenon DEF IsConn
  <2>10. /\ e.mode = d.mode /\ e.accepted = d.accepted /\ e.released = d.released
         /\ e.aborted = d.aborted /\ e.toRemote = d.toRemote \o d.recv_buf
         /\ e.fromRemote = d.fromRemote /\ e.wire = d.wire /\ e.recv_buf = <<>> /\ e.pcb = q
         /\ e.closed = d.closed /\ e.closing = d.closing /\ e.handles = d.handles
         /\ e.writes = d.writes /\ e.killed = d.killed /\ e.proxy = d.proxy
         /\ e.reading = d.reading /\ e.inflight /\ e.crashed = d.crashed /\ ~e.read_cb
    BY <2>7, <2>8, Zenon DEF IsConn, SameProxy
  <2> HIDE DEF e
  <2>11. Counts(e.toRemote, 0) /\ Len(e.toRemote) = Len(d.toRemote) + n
    <3>1. 0 + Len(d.toRemote) = Len(d.toRemote)
      BY <2>5
    <3> QED  BY <2>4, <2>10, <3>1, CountsOn
  <2>l. Len(e.toRemote) \in Nat
    <3>1. e.toRemote \in Seq(Nat)
      BY <2>11, Zenon DEF Counts
    <3> QED  BY <3>1
  <2>12. Len(e.toRemote) + 1 = q.rcv_nxt /\ q.rcv_nxt <= q.fin /\ q.fin = d.pcb.fin
    <3>1. Len(d.toRemote) + n + 1 = d.pcb.rcv_nxt /\ d.pcb.rcv_nxt <= d.pcb.fin
      BY <2>3, Zenon DEF Open
    <3> HIDE DEF n
    <3> QED  BY <2>6, <2>11, <3>1, Zenon DEF SameOutside
  <2>13. Upstream(e)
    <3>1. Len(e.toRemote) < q.fin
      <4> DEFINE m == Len(e.toRemote)
      <4>1. m + 1 = q.rcv_nxt /\ q.rcv_nxt <= q.fin /\ q.fin \in Nat
        BY <2>6, <2>12, Zenon DEF RecvOK
      <4>2. m \in Nat
        BY <2>l, Zenon
      <4> HIDE DEF m
      <4>3. m < q.fin
        BY <4>1, <4>2
      <4> QED  BY <4>3, Zenon DEF m
    <3>2. Counts(<<>>, Len(e.toRemote))
      BY DEF Counts
    <3> QED  BY <2>10, <2>11, <3>1, <3>2, UpstreamCounts, Zenon
  <2>14. Common(e)
    <3>1. Wire(e) /\ e.mode \in Modes
      BY <1>5, <2>10, Zenon DEF Common, Wire, Limit
    <3>2. Control(e)
      BY <2>2, <2>10, Zenon DEF Control, Reader, Linked
    <3>3. IsPcb(q)
      BY <2>6, Zenon DEF SameOutside
    <3> QED  BY <2>6, <2>9, <2>10, <2>13, <3>1, <3>2, <3>3, Zenon DEF Common
  <2>15. Open(e)
    <3>1. Len(e.recv_buf) = 0
      <4>1. Len(<<>>) = 0
        BY Zenon
      <4> QED  BY <2>10, <4>1, Zenon
    <3>2. e.pcb.rcv_wnd + Len(e.recv_buf) = TCP_WND
      BY <2>6, <2>10, <3>1, SizesAreAtLeastOne
    <3>3. Len(e.toRemote) + Len(e.recv_buf) + 1 = e.pcb.rcv_nxt
      <4> DEFINE m == Len(e.toRemote)
                 b == Len(e.recv_buf)
      <4>1. m \in Nat /\ b = 0 /\ m + 1 = e.pcb.rcv_nxt
        BY <2>l, <2>10, <2>12, <3>1, Zenon
      <4> HIDE DEF m, b
      <4>2. m + b + 1 = e.pcb.rcv_nxt
        BY <4>1
      <4> QED  BY <4>2, Zenon DEF m, b
    <3> QED  BY <2>3, <2>6, <2>10, <2>12, <3>2, <3>3, Zenon DEF Open, SameOutside, SameControl
  <2>16. Downstream(e)
    <3>1. Limit(e) = Limit(d) /\ e.wire = d.wire
      BY <2>10, Zenon DEF Limit
    <3>2. \A r : Request(e, r) <=> Request(d, r)
      BY <3>1, Zenon DEF Request
    <3>3. Requests(e)
      BY <2>3, <2>10, <3>1, <3>2, Zenon DEF Downstream, Requests
    <3>4. SameSend(d.pcb, e.pcb)
      BY <2>6, <2>10, Zenon DEF SameOutside
    <3> QED
      BY <2>3, <2>10, <3>3, <3>4, Zenon
         DEF Downstream, Pending, Filled, AllSent, SameSend, SendOK
  <2>17. Core(e)
    BY <2>2, <2>10, <2>14, <2>15, <2>16, Zenon DEF Core
  <2> QED  BY <1>4, <2>1, <2>17, DoneCore, Zenon DEF GatewayInv
<1> QED  BY <1>6, <1>7, Zenon

(* Data of the remote end becomes the one request, and reading stops.      *)
LEMMA DataStep ==
  ASSUME GatewayInv, ProxyData
  PROVE  GatewayInv'
<1>1. PICK n \in 1 .. Down - c.fromRemote :
         c' = uvl_write([c EXCEPT !.reading = FALSE, !.fromRemote = @ + n],
                        [i \in 1 .. n |-> c.fromRemote + i])
  BY Zenon DEF ProxyData
<1> DEFINE data == [i \in 1 .. n |-> c.fromRemote + i]
           r == [data |-> data, sent |-> 0, pending |-> 0]
           x == [c EXCEPT !.reading = FALSE, !.fromRemote = @ + n]
           e == [x EXCEPT !.writes = Append(@, r), !.write_req = TRUE]
<1>2. c' = e
  BY <1>1, Zenon DEF uvl_write
<1>3. Core(c) /\ IsConn(c) /\ Idle(c.pcb) /\ Common(c) /\ Linked(c)
  BY Zenon DEF GatewayInv, Core, Common, Control
<1>4. c.proxy = "open" /\ c.reading /\ c.accepted /\ c.mode # "fake" /\ ~c.killed
  BY <1>3, Zenon DEF ProxyData, Linked
<1>5. c.fromRemote \in Nat /\ n \in Nat
  BY <1>3 DEF Common, Wire
<1>6. /\ data \in Seq(Nat) /\ Len(data) = n
      /\ \A i \in 1 .. Len(data) : data[i] = c.fromRemote + i
  BY <1>5
<1> HIDE DEF data
<1>7. /\ r \in [data : Seq(Nat), sent : Nat, pending : Nat]
      /\ r.data = data /\ r.sent = 0 /\ r.pending = 0
  BY <1>6, Zenon
<1> HIDE DEF r
<1>8. IsConn(x)
  BY <1>3, Zenon DEF IsConn
<1>9. /\ x.mode = c.mode /\ x.accepted = c.accepted /\ x.released = c.released
      /\ x.aborted = c.aborted /\ x.toRemote = c.toRemote /\ x.fromRemote = c.fromRemote + n
      /\ x.wire = c.wire /\ x.recv_buf = c.recv_buf /\ x.pcb = c.pcb /\ x.killed = c.killed
      /\ x.closed = c.closed /\ x.closing = c.closing /\ x.handles = c.handles
      /\ x.writes = c.writes /\ x.proxy = c.proxy /\ ~x.reading /\ x.inflight = c.inflight
      /\ x.crashed = c.crashed /\ x.read_cb = c.read_cb
  BY <1>3, Zenon DEF IsConn
<1> HIDE DEF x
<1>10. IsConn(e)
  BY <1>8, Zenon DEF IsConn
<1>11. /\ e.mode = c.mode /\ e.accepted = c.accepted /\ e.released = c.released
       /\ e.aborted = c.aborted /\ e.toRemote = c.toRemote /\ e.fromRemote = c.fromRemote + n
       /\ e.wire = c.wire /\ e.recv_buf = c.recv_buf /\ e.pcb = c.pcb /\ e.killed = c.killed
       /\ e.closed = c.closed /\ e.closing = c.closing /\ e.handles = c.handles
       /\ e.writes = Append(c.writes, r) /\ e.proxy = c.proxy /\ ~e.reading
       /\ e.inflight = c.inflight /\ e.crashed = c.crashed /\ e.read_cb = c.read_cb
  BY <1>8, <1>9, Zenon DEF IsConn
<1> HIDE DEF e
<1>12. Limit(e) = c.fromRemote + n /\ Limit(c) = c.fromRemote
  BY <1>4, <1>11, Zenon DEF Limit
<1>13. Common(e)
  <2>1. Upstream(e)
    BY <1>3, <1>11, Zenon DEF Common, Upstream
  <2>2. Wire(e) /\ e.mode \in Modes
    <3> DEFINE m == Len(c.wire)
    <3>1. m \in Nat /\ m <= c.fromRemote
      BY <1>3, <1>12 DEF Common, Wire
    <3> HIDE DEF m
    <3>2. m <= c.fromRemote + n /\ c.fromRemote + n \in Nat
      BY <1>5, <3>1
    <3> QED  BY <1>3, <1>11, <1>12, <3>2, Zenon DEF Common, Wire, m
  <2>3. Control(e)
    BY <1>3, <1>11 DEF Common, Control, Reader, Linked
  <2> QED  BY <1>3, <1>10, <1>11, <2>1, <2>2, <2>3, Zenon DEF Common
<1>14. ASSUME c.closed PROVE Closed(e)
  BY <1>3, <1>11, <1>14, Zenon DEF Core, Closed, Complete
<1>15. ASSUME ~c.closed PROVE Open(e) /\ Downstream(e)
  <2>1. Open(c) /\ Downstream(c)
    BY <1>3, <1>4, <1>15, Zenon DEF Core
  <2>2. Open(e)
    BY <1>11, <2>1, Zenon DEF Open
  <2>3. c.writes = <<>> /\ Len(c.wire) = c.fromRemote
    BY <1>4, <1>12, <2>1, Zenon DEF Downstream, Requests
  <2>4. e.writes = <<r>>
    BY <1>11, <2>3
  <2>5. Request(e, r)
    BY <1>5, <1>6, <1>7, <1>11, <1>12, <2>3 DEF Request
  <2>6. Requests(e)
    BY <1>4, <1>11, <2>4, <2>5 DEF Requests
  <2>7. Pending(e) = 0 /\ Pending(c) = 0 /\ ~AllSent(c)
    BY <1>7, <2>3, <2>4 DEF Pending, AllSent
  <2>8. Filled(e)
    BY <1>11, <2>1, <2>7, Zenon DEF Downstream, Filled
  <2> QED  BY <1>11, <2>1, <2>2, <2>6, <2>7, <2>8, Zenon DEF Downstream
<1>16. Core(e)
  BY <1>4, <1>11, <1>13, <1>14, <1>15, Zenon DEF Core
<1> QED  BY <1>2, <1>3, <1>11, <1>16, Zenon DEF GatewayInv

(* uvl_imp_write_to_tcp.                                                   *)
LEMMA WriteToTcpCore ==
  ASSUME SetFacts, NEW d, Core(d), d.accepted, ~d.closed, d.writes # <<>>
  PROVE  Core(uvl_imp_write_to_tcp(d))
<1>1. Open(d) /\ Downstream(d) /\ Common(d) /\ IsConn(d) /\ IsPcb(d.pcb) /\ RecvOK(d.pcb)
  BY Zenon DEF Core, Common
<1>2. PICK r : d.writes = <<r>> /\ Request(d, r)
  BY <1>1, Zenon DEF Downstream, Requests
<1> DEFINE rest == Len(r.data) - r.sent
           n == Least(rest, d.pcb.snd_buf)
           p == tcp_write(d.pcb, n)
           q == tcp_output(p)
           t == [r EXCEPT !.sent = @ + n, !.pending = @ + n]
           part == SubSeq(r.data, r.sent + 1, r.sent + n)
           e == [d EXCEPT !.writes = <<t>>, !.wire = @ \o part, !.pcb = q]
<1>3. /\ r \in [data : Seq(Nat), sent : Nat, pending : Nat]
      /\ r.data \in Seq(Nat) /\ Len(r.data) \in Nat /\ r.sent \in Nat /\ r.pending \in Nat
      /\ r.sent <= Len(r.data) /\ r.sent <= Len(d.wire)
      /\ Len(d.wire) - r.sent + Len(r.data) = Limit(d)
      /\ \A i \in 1 .. Len(r.data) : r.data[i] = Len(d.wire) - r.sent + i
  BY <1>2 DEF Request
<1>4. uvl_imp_write_to_tcp(d) = e
  <2>1. Head(d.writes) = r
    BY <1>2
  <2>2. [d.writes EXCEPT ![1] = t] = <<t>>
    BY <1>2
  <2>3. uvl_imp_write_to_tcp(d) =
          [d EXCEPT !.writes = [d.writes EXCEPT ![1] = t], !.wire = @ \o part, !.pcb = q]
    BY <2>1, Zenon DEF uvl_imp_write_to_tcp
  <2> HIDE DEF t, part, q
  <2> QED  BY <2>2, <2>3, Zenon
<1>5. /\ SendOK(d.pcb) /\ d.pcb.snd_buf \in Nat /\ Filled(d)
      /\ Octets(Queue(d.pcb)) = r.pending
  BY <1>1, <1>2 DEF Downstream, SendOK, Pending
<1>6. AllSent(d) <=> rest = 0
  BY <1>2, <1>3 DEF AllSent
<1>7. /\ n \in Nat /\ n <= d.pcb.snd_buf /\ n <= rest /\ rest \in Nat
      /\ n = rest \/ n = d.pcb.snd_buf
  BY <1>3, <1>5 DEF Least
<1>8. t \in [data : Seq(Nat), sent : Nat, pending : Nat]
      /\ t.data = r.data /\ t.sent = r.sent + n /\ t.pending = r.pending + n
  <2> DEFINE a == r.sent + n
             b == r.pending + n
  <2>1. a \in Nat /\ b \in Nat /\ r \in [data : Seq(Nat), sent : Nat, pending : Nat]
    BY <1>3, <1>7
  <2>2. t = [r EXCEPT !.sent = a, !.pending = b]
    BY Zenon
  <2> HIDE DEF a, b, t, n
  <2>3. t \in [data : Seq(Nat), sent : Nat, pending : Nat]
    BY <2>1, <2>2, Zenon
  <2>4. t.data = r.data /\ t.sent = a /\ t.pending = b
    BY <2>1, <2>2, Zenon
  <2> QED  BY <2>3, <2>4, Zenon DEF a, b
<1>9. Counts(part, Len(d.wire)) /\ Len(part) = n
  <2> DEFINE m == n
             D == r.data
             k == r.sent
  <2>1. D \in Seq(Nat) /\ k \in Nat /\ m \in Nat /\ k + m <= Len(D)
    BY <1>3, <1>7
  <2>2. \A i \in 1 .. Len(D) : D[i] = Len(d.wire) - k + i
    BY <1>3, Zenon
  <2>3. Len(d.wire) \in Nat
    BY <1>1 DEF Common, Wire
  <2>4. part = SubSeq(D, k + 1, k + m)
    BY Zenon
  <2> HIDE DEF m, D, k, part
  <2>5. part \in Seq(Nat) /\ Len(part) = m
    BY ONLY <2>1, <2>4
  <2>6. ASSUME NEW i \in 1 .. m PROVE part[i] = Len(d.wire) + i
    <3> DEFINE j == k + 1
               l == k + m
    <3>0. j \in 1 .. Len(D) + 1 /\ l \in 0 .. Len(D) /\ i \in 1 .. 1 + l - j
      BY <2>1
    <3>1. part[i] = D[k + i]
      <4>1. part = SubSeq(D, j, l)
        BY <2>4, Zenon
      <4>2. i + j - 1 = k + i
        BY <2>1
      <4> HIDE DEF j, l
      <4>3. part[i] = D[i + j - 1]
        BY <2>1, <3>0, <4>1
      <4> QED  BY <4>2, <4>3, Zenon
    <3>2. k + i \in 1 .. Len(D)
      BY <2>1
    <3>3. D[k + i] = Len(d.wire) - k + (k + i)
      BY <2>2, <3>2, Zenon
    <3> DEFINE W == Len(d.wire)
    <3>4. W \in Nat /\ k \in Nat /\ i \in Nat
      BY <2>1, <2>3
    <3> HIDE DEF W
    <3>5. W - k + (k + i) = W + i
      BY <3>4
    <3> QED  BY <3>1, <3>3, <3>5, Zenon DEF W
  <2> QED  BY <2>5, <2>6, Zenon DEF Counts, m
<1>10. /\ IsPcb(p) /\ SameControl(d.pcb, p) /\ SameRecv(d.pcb, p)
       /\ p.right_edge = d.pcb.right_edge
       /\ SendOK(p) /\ p.snd_buf = d.pcb.snd_buf - n
       /\ Octets(Queue(p)) = Octets(Queue(d.pcb)) + n
       /\ Full(Queue(d.pcb)) /\ Whole(n) => Full(Queue(p))
  <2>1. n = 0 \/ Full(Queue(d.pcb))
    BY <1>5, <1>6, <1>7 DEF Filled
  <2> HIDE DEF n
  <2> QED  BY <1>1, <1>5, <1>7, <2>1, WriteSends, Zenon
<1> HIDE DEF p, t, part
<1>11. Outputs(p, q)
  BY <1>10, OutputOutputs, Zenon
<1> HIDE DEF q
<1>12. RecvOK(q)
  <2>1. RecvOK(p)
    BY <1>1, <1>10, Zenon DEF RecvOK, SameRecv
  <2> QED  BY <1>11, <2>1, OutputsRecv, Zenon
<1>13. IsConn(e)
  BY <1>1, Zenon DEF IsConn
<1>14. /\ e.mode = d.mode /\ e.accepted = d.accepted /\ e.released = d.released
       /\ e.aborted = d.aborted /\ e.toRemote = d.toRemote /\ e.fromRemote = d.fromRemote
       /\ e.wire = d.wire \o part /\ e.recv_buf = d.recv_buf /\ e.pcb = q /\ SameProxy(d, e)
       /\ e.closed = d.closed /\ e.closing = d.closing /\ e.handles = d.handles
       /\ e.writes = <<t>> /\ e.read_cb = d.read_cb
  BY <1>1, Zenon DEF IsConn, SameProxy
<1> HIDE DEF e, n, rest
<1>15. Counts(e.wire, 0) /\ Len(e.wire) = Len(d.wire) + n
  <2>1. Len(d.wire) \in Nat /\ 0 + Len(d.wire) = Len(d.wire)
    BY <1>1 DEF Common, Wire
  <2>2. Counts(d.wire, 0)
    BY <1>1 DEF Common, Wire, Counts
  <2> QED  BY <1>9, <1>14, <2>1, <2>2, CountsOn, ZenonT(30)
<1>16. Limit(e) = Limit(d)
  BY <1>14, Zenon DEF Limit
<1>17. /\ t.sent <= Len(t.data) /\ t.sent <= Len(e.wire) /\ Len(e.wire) <= Limit(e)
       /\ Len(e.wire) - t.sent + Len(t.data) = Limit(e)
       /\ Len(e.wire) - t.sent = Len(d.wire) - r.sent
  <2> DEFINE L == Len(e.wire)
             M == Len(d.wire)
             k == Len(r.data)
  <2>1. M \in Nat /\ L = M + n
    BY <1>1, <1>15 DEF Common, Wire
  <2>2. /\ k \in Nat /\ r.sent \in Nat /\ r.sent <= k /\ r.sent <= M
        /\ M - r.sent + k = Limit(e) /\ n \in Nat /\ n <= k - r.sent
    BY <1>3, <1>7, <1>16, Zenon DEF rest
  <2> HIDE DEF L, M, k
  <2>3. /\ r.sent + n <= k /\ r.sent + n <= L /\ L <= Limit(e)
        /\ L - (r.sent + n) + k = Limit(e) /\ L - (r.sent + n) = M - r.sent
    BY <2>1, <2>2
  <2> QED  BY <1>8, <2>3, Zenon DEF L, M, k
<1>18. Common(e)
  <2>1. q.fin = d.pcb.fin /\ IsPcb(q)
    BY <1>10, <1>11, Zenon DEF Outputs, SameRecv
  <2>2. Upstream(e)
    BY <1>1, <1>14, <2>1, ZenonT(30) DEF Common, Upstream
  <2>3. Wire(e) /\ e.mode \in Modes
    <3>1. \A i \in Nat : 0 + i = i
      OBVIOUS
    <3> QED  BY <1>1, <1>14, <1>15, <1>17, <3>1 DEF Common, Wire, Counts
  <2>4. Control(e)
    BY <1>1, <1>14, Zenon DEF Common, Control, Reader, Linked, SameProxy
  <2> QED  BY <1>12, <1>13, <1>14, <2>1, <2>2, <2>3, <2>4 DEF Common
<1>19. Open(e)
  BY <1>1, <1>10, <1>11, <1>14, ZenonT(30)
     DEF Open, Outputs, SameControl, SameRecv, SameProxy
<1>20. Downstream(e)
  <2>1. Request(e, t)
    BY <1>3, <1>8, <1>17, Zenon DEF Request
  <2>2. Requests(e)
    <3>1. ~d.reading /\ (d.mode = "fake" \/ d.proxy = "open")
      BY <1>1, <1>2, Zenon DEF Downstream, Requests
    <3> QED  BY <1>14, <2>1, <3>1 DEF Requests, SameProxy
  <2>3. SendOK(q) /\ Octets(Queue(q)) = Pending(e)
    <3>1. Pending(e) = r.pending + n
      BY <1>8, <1>14 DEF Pending
    <3> QED  BY <1>5, <1>10, <1>11, <3>1, ZenonT(30) DEF Outputs, SameSend, SendOK
  <2>4. Filled(e)
    <3>1. CASE n = rest
      <4>1. t.sent = Len(t.data)
        BY <1>3, <1>7, <1>8, <3>1 DEF rest
      <4> QED  BY <1>14, <4>1 DEF Filled, AllSent
    <3>2. CASE n # rest
      <4>1. n = d.pcb.snd_buf /\ ~AllSent(d)
        BY <1>6, <1>7, <3>2
      <4>2. Whole(n) /\ Full(Queue(d.pcb))
        BY <1>5, <4>1, Zenon DEF Filled
      <4>3. p.snd_buf = 0 /\ Full(Queue(p))
        BY <1>5, <1>10, <4>1, <4>2
      <4>4. Whole(0)
        BY Multiples DEF Whole
      <4> QED  BY <1>11, <1>14, <4>3, <4>4, Zenon DEF Filled, Outputs, SameSend
    <3> QED  BY <3>1, <3>2, Zenon
  <2> QED  BY <1>14, <2>2, <2>3, <2>4, Zenon DEF Downstream
<1> QED
  BY <1>4, <1>14, <1>18, <1>19, <1>20, Zenon DEF Core

(* After tcp_close neither the requests nor the proxy's reading matter.    *)
LEMMA ClosedCore ==
  ASSUME NEW d, NEW e, Core(d), d.closed, IsConn(e), Kept(d, e), e.pcb = d.pcb, e.closed,
         e.closing = d.closing, e.handles = d.handles, e.killed = d.killed,
         e.proxy = d.proxy, e.inflight = d.inflight, e.crashed = d.crashed, ~e.read_cb,
         e.reading => e.proxy = "open"
  PROVE  Core(e)
<1>1. Common(d) /\ Closed(d) /\ Linked(d) /\ d.accepted
  BY Zenon DEF Core, Common, Control, Linked
<1>2. Upstream(e)
  BY <1>1 DEF Common, Upstream, Kept
<1>3. Control(e)
  BY <1>1, Zenon DEF Control, Reader, Linked, Kept
<1>4. Wire(e) /\ e.mode \in Modes
  BY <1>1, Zenon DEF Common, Wire, Limit, Kept
<1>5. Common(e)
  BY <1>1, <1>2, <1>3, <1>4, Zenon DEF Common
<1>6. Closed(e)
  BY <1>1 DEF Closed, Complete, Kept
<1> QED  BY <1>1, <1>5, <1>6, Zenon DEF Core, Kept

(* uvl_cancel_reqs drops the requests of a closed connection.              *)
LEMMA CancelCore ==
  ASSUME NEW d, Core(d), d.closed
  PROVE  Core(uvl_cancel_reqs(d))
<1> DEFINE e == [d EXCEPT !.writes = <<>>, !.read_cb = FALSE]
<1>1. uvl_cancel_reqs(d) = e
  BY Zenon DEF uvl_cancel_reqs
<1>2. IsConn(d) /\ Linked(d)
  BY Zenon DEF Core, Common, Control
<1>3. IsConn(e)
  BY <1>2, Zenon DEF IsConn
<1>4. /\ Kept(d, e) /\ e.pcb = d.pcb /\ e.closed = d.closed /\ e.closing = d.closing
      /\ e.handles = d.handles /\ SameProxy(d, e) /\ ~e.read_cb
  BY <1>2, Zenon DEF IsConn, Kept, SameProxy
<1> HIDE DEF e
<1> QED
  BY <1>1, <1>2, <1>3, <1>4, ClosedCore, Zenon DEF SameProxy, Linked

(* The request at the head is done with: onWrite.                          *)
LEMMA WrittenCore ==
  ASSUME SetFacts, NEW d, Core(d), d.pcb.input = FALSE, d.writes # <<>>, Written(Head(d.writes))
  PROVE  LET e == onWrite([d EXCEPT !.writes = Tail(@)])
         IN  Core(e) /\ (e.closed \/ e.writes = <<>>)
<1> DEFINE x == [d EXCEPT !.writes = Tail(@)]
           e == onWrite(x)
<1>1. Common(d) /\ IsConn(d) /\ Linked(d) /\ Control(d)
  BY Zenon DEF Core, Common, Control
<1>2. /\ IsConn(x) /\ Kept(d, x) /\ x.pcb = d.pcb /\ x.closed = d.closed
      /\ x.closing = d.closing /\ x.handles = d.handles /\ SameProxy(d, x)
      /\ x.read_cb = d.read_cb /\ x.writes = Tail(d.writes)
  BY <1>1, Zenon DEF IsConn, Kept, SameProxy
<1> SUFFICES Core(e) /\ (e.closed \/ e.writes = <<>>)
  BY Zenon
<1>3. d.accepted
  <2>1. ~d.accepted => d.writes = <<>>
    BY Zenon DEF Core, Fresh
  <2> QED  BY <2>1, Zenon
<1>4. Common(x)
  <2>1. Upstream(x)
    BY <1>1, <1>2, Zenon DEF Common, Upstream, Kept
  <2>2. Control(x)
    BY <1>1, <1>2 DEF Control, Reader, Linked, Kept, SameProxy
  <2>3. Wire(x) /\ x.mode \in Modes
    BY <1>1, <1>2, Zenon DEF Common, Wire, Limit, Kept
  <2> QED  BY <1>1, <1>2, <2>1, <2>2, <2>3, Zenon DEF Common
<1>5. Endable(x)
  <2>1. Endable(d)
    BY <1>3, CoreEndable, Zenon
  <2> QED  BY <1>2, <1>4, <2>1, Zenon DEF Endable, Closed, Complete, Kept
<1> HIDE DEF x
<1>6. CASE d.mode = "fake"
  <2>1. e = close(x)
    BY <1>2, <1>6, Zenon DEF onWrite, Kept
  <2> QED  BY <1>2, <1>5, <1>6, <2>1, CloseCore, Zenon DEF Kept
<1>7. CASE d.mode # "fake"
  <2> DEFINE y == [x EXCEPT !.reading = (x.proxy = "open")]
  <2>1. e = y
    BY <1>2, <1>7, Zenon DEF onWrite, Kept
  <2>2. IsConn(y)
    BY <1>2, Zenon DEF IsConn
  <2>3. /\ Kept(x, y) /\ y.pcb = x.pcb /\ y.closed = x.closed /\ y.closing = x.closing
        /\ y.handles = x.handles /\ y.killed = x.killed /\ y.proxy = x.proxy
        /\ y.inflight = x.inflight /\ y.crashed = x.crashed /\ y.read_cb = x.read_cb
        /\ y.writes = x.writes
    BY <1>2, Zenon DEF IsConn, Kept
  <2>4. y.reading = (x.proxy = "open")
    BY <1>2, Zenon DEF IsConn
  <2>5. y.reading => y.proxy = "open"
    BY <2>3, <2>4, Zenon
  <2> HIDE DEF y
  <2>6. /\ Kept(d, y) /\ y.pcb = d.pcb /\ y.closed = d.closed /\ y.closing = d.closing
        /\ y.handles = d.handles /\ y.killed = d.killed /\ y.proxy = d.proxy
        /\ y.inflight = d.inflight /\ y.crashed = d.crashed /\ y.read_cb = d.read_cb
        /\ y.writes = Tail(d.writes)
    BY <1>2, <2>3 DEF Kept, SameProxy
  <2>7. CASE d.closed
    <3>1. ~y.read_cb
      BY <2>6, <2>7, Zenon DEF Core, Closed
    <3> QED  BY <2>1, <2>2, <2>5, <2>6, <2>7, <3>1, ClosedCore, Zenon
  <2>8. CASE ~d.closed
    <3>1. Open(d) /\ Downstream(d)
      BY <1>3, <2>8, Zenon DEF Core
    <3>2. PICK r : d.writes = <<r>> /\ Request(d, r)
      BY <3>1, Zenon DEF Downstream, Requests
    <3>3. y.writes = <<>> /\ Head(d.writes) = r /\ d.writes[1] = r
      BY <2>6, <3>2
    <3>4. Common(y)
      <4>1. Upstream(y)
        BY <1>1, <2>6, ZenonT(30) DEF Common, Upstream, Kept
      <4>2. Control(y)
        BY <1>1, <2>5, <2>6 DEF Control, Reader, Linked, Kept
      <4>3. Wire(y) /\ y.mode \in Modes
        BY <1>1, <2>6, Zenon DEF Common, Wire, Limit, Kept
      <4> QED  BY <1>1, <2>2, <2>6, <4>1, <4>2, <4>3, Zenon DEF Common
    <3>5. Open(y)
      BY <2>6, <3>1, Zenon DEF Open, Kept
    <3>6. Len(y.wire) = Limit(y)
      <4> DEFINE m == Len(d.wire)
                 k == Len(r.data)
      <4>1. m \in Nat
        BY <1>1 DEF Common, Wire
      <4>2. k \in Nat /\ r.sent = k /\ m - r.sent + k = Limit(d)
        BY <3>2, <3>3, Zenon DEF Request, Written
      <4> HIDE DEF m, k
      <4>3. m = Limit(d)
        BY <4>1, <4>2
      <4> QED  BY <2>6, <4>3, Zenon DEF Kept, Limit, m
    <3>7. Requests(y)
      BY <1>7, <2>6, <3>3, <3>6, Zenon DEF Requests, Kept
    <3>8. Octets(Queue(d.pcb)) = 0 /\ Pending(y) = 0
      BY <3>1, <3>3, Zenon DEF Downstream, Pending, Written
    <3>9. Full(Queue(d.pcb))
      <4>1. QueueOK(Queue(d.pcb), d.pcb.snd_lbb)
        BY <3>1, Zenon DEF Downstream, SendOK
      <4> QED  BY <3>8, <4>1, NoOctets, Zenon DEF Full
    <3>10. Whole(d.pcb.snd_buf)
      <4>1. d.pcb.snd_buf = TCP_SND_BUF
        BY <3>1, <3>8 DEF Downstream, SendOK
      <4> QED  BY <4>1, WholeSegments DEF Whole
    <3>11. Downstream(y)
      BY <2>6, <3>1, <3>7, <3>8, <3>9, <3>10, Zenon DEF Downstream, Filled
    <3> QED  BY <1>3, <2>1, <2>6, <2>8, <3>3, <3>4, <3>5, <3>11, ZenonT(30) DEF Core, Kept
  <2> QED  BY <2>7, <2>8, Zenon
<1> QED  BY <1>6, <1>7, Zenon

(* The write request: a finished request is reported, an unfinished one    *)
(* goes on into the send buffer.                                           *)
LEMMA WriteStep ==
  ASSUME SetFacts, GatewayInv, WriteAsync
  PROVE  GatewayInv'
<1>1. PICK w \in Windows :
        c' = Done(uvl_async_tcp_write_cb([Windowed(w) EXCEPT !.write_req = FALSE]))
  BY Zenon DEF WriteAsync
<1> DEFINE v == Windowed(w)
           d == [v EXCEPT !.write_req = FALSE]
<1>2. Core(v) /\ Idle(v.pcb) /\ IsConn(v)
  BY WindowedCore, Zenon
<1> HIDE DEF v
<1>3. IsConn(d) /\ SameConn(v, d) /\ d.pcb = v.pcb
  BY <1>2, Zenon DEF IsConn, SameConn, Kept, SameProxy
<1>4. c' = Done(uvl_async_tcp_write_cb(d))
  BY <1>1, Zenon DEF v
<1> HIDE DEF d
<1>5. Core(d) /\ d.pcb.input = FALSE
  <2>1. IsPcb(v.pcb) /\ RecvOK(v.pcb)
    BY <1>2, Zenon DEF Core, Common
  <2>2. Quiet(v.pcb, d.pcb)
    BY <1>3, <2>1, OutputsNothing, OutputsQuiet, Zenon
  <2> QED  BY <1>2, <1>3, <2>2, QuietCore, Zenon DEF Idle
<1> DEFINE x == IF d.writes # <<>> /\ Written(Head(d.writes))
                THEN onWrite([d EXCEPT !.writes = Tail(@)]) ELSE d
           e == uvl_async_tcp_write_cb(d)
<1>6. e = IF x.closed THEN uvl_cancel_reqs(x)
          ELSE IF x.writes = <<>> THEN x ELSE uvl_imp_write_to_tcp(x)
  BY Zenon DEF uvl_async_tcp_write_cb
<1>7. Core(x)
  BY <1>5, WrittenCore, Zenon
<1> HIDE DEF x, e
<1>8. ~x.closed /\ x.writes # <<>> => x.accepted
  BY <1>7, Zenon DEF Core, Fresh
<1>9. Core(e)
  BY <1>6, <1>7, <1>8, CancelCore, WriteToTcpCore, Zenon
<1> QED  BY <1>4, <1>9, DoneCore, Zenon DEF GatewayInv, e
-----------------------------------------------------------------------------
(* tcp_input.                                                              *)

(* What tcp_process leaves of an open connection.                          *)
LEMMA OpenArrives ==
  ASSUME NEW d, NEW m, Core(d), d.accepted, ~d.closed, d.pcb.input = TRUE,
         IsConn(m), SameConn(d, m), Proceeds(d.pcb, m.pcb),
         m.pcb.state = IF "GOT_FIN" \in m.pcb.recv_flags THEN "CLOSE_WAIT" ELSE "ESTABLISHED"
  PROVE  OpenInput(m, m.pcb.recv_acked, m.pcb.recv_data)
<1> DEFINE p == d.pcb
           q == m.pcb
           data == q.recv_data
           T == Len(m.toRemote)
           R == Len(m.recv_buf)
           L == Len(data)
           fin == q.recv_flags = {"GOT_FIN"}
<1>1. Open(d) /\ Downstream(d) /\ Common(d)
  BY Zenon DEF Core
<1>2. Common(m)
  BY <1>1, CommonKept, Zenon DEF Proceeds, Takes
<1>3. /\ RecvOK(p) /\ RecvOK(q) /\ q.fin = p.fin /\ q.called = p.called /\ q.input = p.input
      /\ q.refused = p.refused /\ ("RXCLOSED" \in q.flags <=> "RXCLOSED" \in p.flags)
      /\ data \in Seq(Nat) /\ L = Least(q.rcv_nxt, p.fin) - Least(p.rcv_nxt, p.fin)
      /\ q.rcv_nxt >= p.rcv_nxt /\ q.rcv_nxt + q.rcv_wnd = p.rcv_nxt + p.rcv_wnd
      /\ \A i \in 1 .. L : data[i] = p.rcv_nxt + i - 1
      /\ q.recv_flags = IF q.rcv_nxt > p.rcv_nxt /\ q.rcv_nxt > p.fin THEN {"GOT_FIN"} ELSE {}
  BY <1>1, Zenon DEF Common, Proceeds, Takes
<1>4. Freeing(p, q)
  BY <1>1, Zenon DEF Proceeds, Downstream
<1>5. /\ T \in Nat /\ R \in Nat /\ T + R + 1 = p.rcv_nxt /\ p.rcv_wnd + R = TCP_WND
      /\ p.rcv_nxt <= p.fin
  <2>1. m.toRemote = d.toRemote /\ m.recv_buf = d.recv_buf
    BY Zenon DEF SameConn, Kept
  <2>2. T \in Nat /\ R \in Nat
    BY <1>2 DEF Common, Upstream
  <2> QED  BY <1>1, <2>1, <2>2, Zenon DEF Open
<1>6. L \in Nat
  BY <1>3
<1>7. /\ p.fin \in Nat /\ p.rcv_nxt \in Nat /\ q.rcv_nxt \in Nat /\ q.rcv_nxt <= p.fin + 1
      /\ p.rcv_wnd \in Nat /\ q.rcv_wnd \in Nat /\ TCP_WND \in Nat
  <2>1. RecvOK(p) /\ RecvOK(q) /\ q.fin = p.fin
    BY <1>3, Zenon
  <2> HIDE DEF p, q
  <2> QED  BY <2>1, SizesAreAtLeastOne DEF RecvOK
<1> HIDE DEF p, q, data, T, R, L
<1>8. IF fin
      THEN q.rcv_wnd + R + L + 1 = TCP_WND
      ELSE q.rcv_nxt <= q.fin /\ q.rcv_wnd + R + L = TCP_WND /\ q.recv_flags = {}
  <2>1. fin <=> q.rcv_nxt > p.rcv_nxt /\ q.rcv_nxt > p.fin
    BY <1>3, Zenon
  <2>2. Least(p.rcv_nxt, p.fin) = p.rcv_nxt
    BY <1>5, <1>7 DEF Least
  <2>3. CASE fin
    <3>1. Least(q.rcv_nxt, p.fin) = p.fin /\ q.rcv_nxt = p.fin + 1
      BY <1>7, <2>1, <2>3 DEF Least
    <3>2. L = p.fin - p.rcv_nxt
      BY <1>3, <2>2, <3>1, Zenon
    <3> HIDE DEF fin
    <3>3. q.rcv_nxt + q.rcv_wnd = p.rcv_nxt + p.rcv_wnd
      BY <1>3, Zenon
    <3>4. q.rcv_wnd + R + L + 1 = TCP_WND
      <4> DEFINE a == q.rcv_nxt
                 b == q.rcv_wnd
                 x == p.rcv_nxt
                 y == p.rcv_wnd
                 z == p.fin
      <4>1. /\ a \in Nat /\ b \in Nat /\ x \in Nat /\ y \in Nat /\ z \in Nat /\ R \in Nat
            /\ y + R = TCP_WND /\ a + b = x + y /\ L = z - x /\ a = z + 1
        BY <1>5, <1>7, <3>1, <3>2, <3>3
      <4> HIDE DEF a, b, x, y, z
      <4>2. b + R + L + 1 = TCP_WND
        BY <4>1
      <4> QED  BY <4>2, Zenon DEF b
    <3> QED  BY <2>3, <3>4, Zenon
  <2>4. CASE ~fin
    <3>1. q.rcv_nxt <= p.fin /\ q.recv_flags = {}
      BY <1>3, <1>5, <1>7, <2>1, <2>4
    <3>2. Least(q.rcv_nxt, p.fin) = q.rcv_nxt
      BY <1>7, <3>1 DEF Least
    <3>3. L = q.rcv_nxt - p.rcv_nxt
      BY <1>3, <2>2, <3>2, Zenon
    <3>4. q.rcv_nxt + q.rcv_wnd = p.rcv_nxt + p.rcv_wnd
      BY <1>3, Zenon
    <3>5. q.rcv_wnd + R + L = TCP_WND
      <4> DEFINE a == q.rcv_nxt
                 b == q.rcv_wnd
                 x == p.rcv_nxt
                 y == p.rcv_wnd
                 z == p.fin
      <4>1. /\ a \in Nat /\ b \in Nat /\ x \in Nat /\ y \in Nat /\ z \in Nat /\ R \in Nat
            /\ y + R = TCP_WND /\ a + b = x + y /\ L = a - x
        BY <1>5, <1>7, <3>3, <3>4
      <4> HIDE DEF a, b, x, y, z
      <4>2. b + R + L = TCP_WND
        BY <4>1
      <4> QED  BY <4>2, Zenon DEF b
    <3> QED  BY <1>3, <2>4, <3>1, <3>5, Zenon
  <2> QED  BY <2>3, <2>4, Zenon
<1>9. "GOT_FIN" \in q.recv_flags <=> fin
  BY <1>3
<1>10. T + R + L + 1 = Least(q.rcv_nxt, q.fin)
  <2>1. Least(p.rcv_nxt, p.fin) = p.rcv_nxt
    BY <1>5, <1>7 DEF Least
  <2>2. Least(q.rcv_nxt, p.fin) \in Nat
    BY <1>7, Zenon DEF Least
  <2>3. L = Least(q.rcv_nxt, p.fin) - p.rcv_nxt
    BY <1>3, <2>1, Zenon
  <2> QED  BY <1>3, <1>5, <1>6, <1>7, <2>2, <2>3
<1>11. Counts(data, T + R)
  <2>1. ASSUME NEW i \in 1 .. L PROVE data[i] = T + R + i
    <3>1. data[i] = p.rcv_nxt + i - 1
      BY <1>3, Zenon
    <3>2. p.rcv_nxt + i - 1 = T + R + i
      BY <1>5, <1>6
    <3> QED  BY <3>1, <3>2, Zenon
  <2> QED  BY <1>3, <2>1, Zenon DEF Counts, L
<1>12. /\ Requests(m) /\ Pending(m) = Pending(d) /\ (AllSent(m) <=> AllSent(d))
  <2>1. Limit(m) = Limit(d) /\ m.wire = d.wire
    BY Zenon DEF Limit, SameConn, Kept
  <2>2. \A r : Request(m, r) <=> Request(d, r)
    BY <2>1, Zenon DEF Request
  <2>3. Requests(m)
    BY <1>1, <2>1, <2>2 DEF Downstream, Requests, SameConn, Kept, SameProxy
  <2> QED  BY <2>3, Zenon DEF Pending, AllSent, SameConn
<1>13. /\ SendOK(q) /\ q.recv_acked \in Nat
       /\ Octets(Queue(q)) + q.recv_acked = Pending(m)
  BY <1>1, <1>4, <1>12, Zenon DEF Freeing, Downstream, p
<1>14. Filled(m)
  <2>1. CASE AllSent(d)
    BY <1>12, <2>1, Zenon DEF Filled
  <2>2. CASE ~AllSent(d)
    <3>1. Whole(p.snd_buf) /\ Full(Queue(p)) /\ p.snd_buf \in Nat
      BY <1>1, <2>2, Zenon DEF Downstream, Filled, SendOK, p
    <3>2. Whole(p.snd_buf + q.recv_acked)
      BY <1>4, <3>1, WholeSum, Zenon DEF Freeing
    <3>3. Full(Queue(q))
      BY <1>4, <3>1, Zenon DEF Freeing, Full
    <3> QED  BY <1>4, <3>2, <3>3, Zenon DEF Filled, Freeing, q
  <2> QED  BY <2>1, <2>2, Zenon
<1>15. /\ q.called /\ ~q.refused /\ "RXCLOSED" \notin q.flags /\ q.input = TRUE
       /\ m.handles = "open" /\ ~m.closing /\ ~m.killed /\ m.accepted /\ ~m.closed
  BY <1>1, <1>3, Zenon DEF Open, SameConn, SameProxy, Kept, p
<1>16. IF "GOT_FIN" \in q.recv_flags
       THEN /\ q.recv_flags = {"GOT_FIN"} /\ q.state = "CLOSE_WAIT"
            /\ q.rcv_wnd + R + L + 1 = TCP_WND
       ELSE /\ q.recv_flags = {} /\ q.state = "ESTABLISHED"
            /\ q.rcv_nxt <= q.fin
            /\ q.rcv_wnd + R + L = TCP_WND
  BY <1>8, <1>9, Zenon DEF q
<1> QED
  BY <1>2, <1>10, <1>11, <1>12, <1>13, <1>14, <1>15, <1>16, ZenonT(30)
     DEF OpenInput, q, data, T, R, L

(* What it leaves of a closed one.                                         *)
LEMMA ClosedArrives ==
  ASSUME NEW d, NEW m, Core(d), d.closed, d.pcb.state # "FREE", IsConn(m), SameConn(d, m),
         Takes(d.pcb, m.pcb), m.pcb.state \in Leaving \cup {"TIME_WAIT"}
  PROVE  ClosedInput(m, m.pcb.recv_data)
<1>1. Common(d) /\ Closed(d)
  BY Zenon DEF Core
<1>2. Common(m)
  BY <1>1, CommonKept, Zenon DEF Takes
<1>3. Complete(d) /\ "RXCLOSED" \in d.pcb.flags
  BY <1>1, Zenon DEF Closed
<1>4. m.pcb.rst \/ Least(m.pcb.rcv_nxt, m.pcb.fin) = Len(m.toRemote) + 1 + Len(m.pcb.recv_data)
  <2> DEFINE T == Len(m.toRemote)
             L == Len(m.pcb.recv_data)
             a == Least(m.pcb.rcv_nxt, m.pcb.fin)
             b == Least(d.pcb.rcv_nxt, d.pcb.fin)
  <2>1. CASE d.pcb.rst
    BY <2>1, Zenon DEF Takes
  <2>2. CASE ~d.pcb.rst
    <3>1. T \in Nat /\ b = T + 1 /\ L = a - b
      BY <1>2, <1>3, <2>2 DEF Complete, Takes, Common, Upstream, SameConn, Kept
    <3>2. a \in Nat
      BY <1>2 DEF Common, RecvOK, Least
    <3> HIDE DEF T, L, a, b
    <3>3. a = T + 1 + L
      BY <3>1, <3>2
    <3> QED  BY <3>3, Zenon DEF a, T, L
  <2> QED  BY <2>1, <2>2, Zenon
<1> QED
  BY <1>1, <1>2, <1>3, <1>4 DEF ClosedInput, Closed, Takes, SameConn

(* uvl_client_sent_func finds its request, with enough octets pending.     *)
LEMMA SentOpen ==
  ASSUME SetFacts, NEW m, NEW data, OpenInput(m, m.pcb.recv_acked, data)
  PROVE  LET e == EventSent(m) IN OpenInput(e, 0, data) /\ e.pcb = m.pcb
<1> DEFINE n == m.pcb.recv_acked
<1>1. /\ Common(m) /\ IsConn(m) /\ n \in Nat /\ m.pcb.called /\ ~m.closed /\ Requests(m)
      /\ Octets(Queue(m.pcb)) + n = Pending(m) /\ SendOK(m.pcb)
  BY Zenon DEF OpenInput, Common
<1>2. CASE n = 0
  <2>1. EventSent(m) = m
    BY <1>2 DEF EventSent
  <2> QED  BY <1>2, <2>1, Zenon DEF OpenInput
<1>3. CASE n # 0
  <2>1. Octets(Queue(m.pcb)) \in Nat
    BY <1>1, CoveredOctets, Zenon DEF SendOK
  <2>2. Pending(m) \in Nat /\ Pending(m) # 0 /\ n <= Pending(m)
    <3> HIDE DEF n
    <3> QED  BY <1>1, <1>3, <2>1
  <2>3. m.writes # <<>>
    BY <2>2, Zenon DEF Pending
  <2>4. PICK r : m.writes = <<r>> /\ Request(m, r)
    BY <1>1, <2>3, Zenon DEF Requests
  <2>5. /\ r \in [data : Seq(Nat), sent : Nat, pending : Nat]
        /\ m.writes[1] = r /\ r.pending \in Nat /\ Pending(m) = r.pending
    BY <2>3, <2>4 DEF Pending, Request
  <2> DEFINE k == r.pending - n
             t == [r EXCEPT !.pending = k]
             e == [m EXCEPT !.writes = <<t>>, !.write_req = TRUE]
  <2>6. EventSent(m) = e
    <3>1. EventSent(m) = uvl_client_sent_func(m, n)
      BY <1>1, <1>3 DEF EventSent
    <3>2. uvl_client_sent_func(m, n) = [m EXCEPT !.writes[1].pending = @ - n, !.write_req = TRUE]
      <4>1. ~(m.writes[1].pending < n)
        <5> HIDE DEF n
        <5> QED  BY <1>1, <2>2, <2>5
      <4> HIDE DEF n
      <4> QED  BY <1>1, <2>3, <4>1, Zenon DEF uvl_client_sent_func
    <3>3. [m.writes EXCEPT ![1] = t] = <<t>>
      <4> HIDE DEF t
      <4> QED  BY <2>4
    <3>4. [m EXCEPT !.writes[1].pending = @ - n, !.write_req = TRUE]
            = [m EXCEPT !.writes = [m.writes EXCEPT ![1] = t], !.write_req = TRUE]
      <4> HIDE DEF n
      <4> QED  BY <2>5, Zenon
    <3> HIDE DEF n, t
    <3> QED  BY <3>1, <3>2, <3>3, <3>4, Zenon
  <2>7. k \in Nat /\ Octets(Queue(m.pcb)) = k
    <3> HIDE DEF n
    <3> QED  BY <1>1, <2>1, <2>2, <2>5
  <2> HIDE DEF k
  <2>8. /\ t \in [data : Seq(Nat), sent : Nat, pending : Nat]
        /\ t.data = r.data /\ t.sent = r.sent /\ t.pending = k
    BY <2>5, <2>7, Zenon
  <2> HIDE DEF t
  <2>9. IsConn(e)
    BY <1>1, Zenon DEF IsConn
  <2>10. /\ Kept(m, e) /\ SameProxy(m, e) /\ e.pcb = m.pcb /\ e.closed = m.closed
         /\ e.closing = m.closing /\ e.handles = m.handles /\ e.read_cb = m.read_cb
         /\ e.writes = <<t>>
    BY <1>1 DEF IsConn, Kept, SameProxy
  <2> HIDE DEF e
  <2>11. Common(e)
    <3>1. Upstream(e)
      BY <1>1, <2>10, ZenonT(30) DEF Common, Upstream, Kept
    <3>2. Control(e)
      BY <1>1, <2>10 DEF Common, Control, Reader, Linked, Kept, SameProxy
    <3>3. Wire(e) /\ e.mode \in Modes
      BY <1>1, <2>10, ZenonT(30) DEF Common, Wire, Limit, Kept
    <3> QED  BY <1>1, <2>9, <2>10, <3>1, <3>2, <3>3, Zenon DEF Common
  <2>12. Requests(e)
    <3>1. Limit(e) = Limit(m) /\ e.wire = m.wire
      BY <2>10, Zenon DEF Limit, Kept
    <3>2. Request(e, t)
      BY <2>4, <2>8, <3>1, Zenon DEF Request
    <3> QED  BY <1>1, <2>3, <2>10, <3>2 DEF Requests, Kept, SameProxy
  <2>13. Pending(e) = k /\ (AllSent(e) <=> AllSent(m))
    BY <2>4, <2>8, <2>10 DEF Pending, AllSent
  <2>14. Octets(Queue(e.pcb)) + 0 = Pending(e) /\ 0 \in Nat /\ Filled(e)
    <3>1. Filled(m)
      BY Zenon DEF OpenInput
    <3> QED  BY <2>7, <2>10, <2>13, <3>1 DEF Filled
  <2>15. OpenInput(e, 0, data)
    BY <2>10, <2>11, <2>12, <2>14, Zenon DEF OpenInput, Kept, SameProxy
  <2> QED  BY <2>6, <2>10, <2>15, Zenon
<1> QED  BY <1>2, <1>3, Zenon

(* uvl_client_recv_func has room for what lwIP received.                   *)
LEMMA RecvOpen ==
  ASSUME NEW m, OpenInput(m, 0, m.pcb.recv_data)
  PROVE  LET e == EventRecv(m) IN OpenInput(e, 0, <<>>) /\ e.pcb = m.pcb
<1> DEFINE data == m.pcb.recv_data
           T == Len(m.toRemote)
           R == Len(m.recv_buf)
           L == Len(data)
           b == m.recv_buf \o data
           e == [m EXCEPT !.recv_buf = b, !.read_req = TRUE]
<1>1. CASE data = <<>>
  <2>1. EventRecv(m) = m
    BY <1>1, Zenon DEF EventRecv
  <2> QED  BY <1>1, <2>1, Zenon
<1>2. CASE data # <<>>
  <2>1. /\ Common(m) /\ IsConn(m) /\ Upstream(m) /\ "RXCLOSED" \notin m.pcb.flags
        /\ Counts(data, T + R) /\ T + R + L + 1 = Least(m.pcb.rcv_nxt, m.pcb.fin)
        /\ RecvOK(m.pcb)
    BY Zenon DEF OpenInput, Common
  <2>2. Counts(m.toRemote, 0) /\ Counts(m.recv_buf, T)
    BY <2>1, UpstreamCounts, Zenon
  <2>3. T \in Nat /\ R \in Nat /\ L \in Nat
    BY <2>1, <2>2 DEF Counts
  <2>4. Counts(b, T) /\ Len(b) = R + L
    BY <2>1, <2>2, <2>3, CountsOn, Zenon
  <2>5. L <= TCP_WND - R
    <3>1. \/ m.pcb.rcv_wnd + R + L + 1 = TCP_WND
          \/ m.pcb.rcv_wnd + R + L = TCP_WND
      BY Zenon DEF OpenInput
    <3>2. m.pcb.rcv_wnd \in Nat /\ TCP_WND \in Nat
      BY <2>1, SizesAreAtLeastOne DEF RecvOK
    <3> HIDE DEF R, L
    <3> QED  BY <2>3, <3>1, <3>2
  <2>6. EventRecv(m) = e
    <3>1. EventRecv(m) = uvl_client_recv_func(m, data)
      BY <1>2, <2>1, Zenon DEF EventRecv
    <3>2. ~(Len(data) > TCP_WND - Len(m.recv_buf))
      <4>1. L \in Nat /\ TCP_WND - R \in Int
        BY <2>3, SizesAreAtLeastOne
      <4>2. ~(L > TCP_WND - R)
        <5> HIDE DEF L, R
        <5> QED  BY <2>5, <4>1
      <4> QED  BY <4>2, Zenon
    <3> QED  BY <3>1, <3>2, Zenon DEF uvl_client_recv_func
  <2> HIDE DEF b
  <2>7. IsConn(e)
    BY <2>1, Zenon DEF IsConn
  <2>8. /\ e.mode = m.mode /\ e.accepted = m.accepted /\ e.released = m.released
        /\ e.aborted = m.aborted /\ e.toRemote = m.toRemote /\ e.fromRemote = m.fromRemote
        /\ e.wire = m.wire /\ e.recv_buf = b /\ SameProxy(m, e) /\ e.pcb = m.pcb
        /\ e.closed = m.closed /\ e.closing = m.closing /\ e.handles = m.handles
        /\ e.read_cb = m.read_cb /\ e.writes = m.writes
    BY <2>1 DEF IsConn, SameProxy
  <2> HIDE DEF e
  <2>9. Common(e)
    <3>1. Upstream(e)
      BY <2>1, <2>2, <2>4, <2>8, UpstreamCounts, Zenon DEF Upstream
    <3>2. Control(e)
      BY <2>1, <2>8, Zenon DEF Common, Control, Reader, Linked, SameProxy
    <3>3. Wire(e) /\ e.mode \in Modes
      BY <2>1, <2>8, Zenon DEF Common, Wire, Limit
    <3> QED  BY <2>1, <2>7, <2>8, <3>1, <3>2, <3>3, Zenon DEF Common
  <2>10. /\ Requests(e) /\ SendOK(e.pcb) /\ 0 \in Nat
         /\ Octets(Queue(e.pcb)) + 0 = Pending(e) /\ Filled(e)
    <3>1. Limit(e) = Limit(m) /\ e.wire = m.wire
      BY <2>8, Zenon DEF Limit
    <3>2. \A r : Request(e, r) <=> Request(m, r)
      BY <3>1 DEF Request
    <3>3. Requests(e)
      BY <2>8, <3>1, <3>2, Zenon DEF OpenInput, Requests, SameProxy
    <3>4. SendOK(e.pcb) /\ Octets(Queue(e.pcb)) + 0 = Pending(e) /\ Filled(e)
      BY <2>8, Zenon DEF OpenInput, Pending, Filled, AllSent
    <3> QED  BY <3>3, <3>4, Zenon
  <2> DEFINE E == Len(e.recv_buf)
             Z == Len(<<>>)
             W == e.pcb.rcv_wnd
  <2>11. E = R + L /\ Z = 0 /\ Len(e.toRemote) = T /\ W \in Nat
    <3>1. E = R + L
      BY <2>4, <2>8, Zenon
    <3>2. Z = 0
      BY Zenon
    <3>3. Len(e.toRemote) = T
      BY <2>8, Zenon
    <3>4. W \in Nat
      BY <2>1, <2>8 DEF RecvOK
    <3> QED  BY <3>1, <3>2, <3>3, <3>4, Zenon
  <2>12. Counts(<<>>, Len(e.toRemote) + Len(e.recv_buf))
    BY DEF Counts
  <2>13. Len(e.toRemote) + E + Z + 1 = Least(e.pcb.rcv_nxt, e.pcb.fin)
    <3>1. T + R + L + 1 = Least(e.pcb.rcv_nxt, e.pcb.fin)
      BY <2>1, <2>8, Zenon
    <3> HIDE DEF T, R, L, E, Z
    <3>2. T + E + Z + 1 = T + R + L + 1
      BY <2>3, <2>11
    <3> QED  BY <2>11, <3>1, <3>2, Zenon
  <2>14. IF "GOT_FIN" \in e.pcb.recv_flags
         THEN /\ e.pcb.recv_flags = {"GOT_FIN"} /\ e.pcb.state = "CLOSE_WAIT"
              /\ W + E + Z + 1 = TCP_WND
         ELSE /\ e.pcb.recv_flags = {} /\ e.pcb.state = "ESTABLISHED"
              /\ e.pcb.rcv_nxt <= e.pcb.fin
              /\ W + E + Z = TCP_WND
    <3>1. IF "GOT_FIN" \in e.pcb.recv_flags
          THEN /\ e.pcb.recv_flags = {"GOT_FIN"} /\ e.pcb.state = "CLOSE_WAIT"
               /\ W + R + L + 1 = TCP_WND
          ELSE /\ e.pcb.recv_flags = {} /\ e.pcb.state = "ESTABLISHED"
               /\ e.pcb.rcv_nxt <= e.pcb.fin
               /\ W + R + L = TCP_WND
      BY <2>8, Zenon DEF OpenInput
    <3> HIDE DEF R, L, E, Z, W
    <3>2. W + E + Z + 1 = W + R + L + 1 /\ W + E + Z = W + R + L
      BY <2>3, <2>11
    <3> QED  BY <3>1, <3>2, Zenon
  <2>15. OpenInput(e, 0, <<>>)
    <3>1. /\ e.accepted /\ ~e.closed /\ e.pcb.called /\ ~e.pcb.refused
          /\ "RXCLOSED" \notin e.pcb.flags /\ e.pcb.input = TRUE
          /\ e.handles = "open" /\ ~e.closing /\ ~e.killed
      BY <2>8, Zenon DEF OpenInput, SameProxy
    <3> QED  BY <2>9, <2>10, <2>12, <2>13, <2>14, <3>1, Zenon DEF OpenInput
  <2> QED  BY <2>6, <2>8, <2>15
<1> QED  BY <1>1, <1>2, Zenon

(* The FIN: the console's side is closed, and the connection with it.      *)
LEMMA FinOpen ==
  ASSUME SetFacts, NEW m, OpenInput(m, 0, <<>>)
  PROVE  LET e == EventClosed(m)
         IN  Core(e) /\ ("CLOSED" \in e.pcb.recv_flags => e.closed)
<1>1. /\ Common(m) /\ IsConn(m) /\ IsPcb(m.pcb) /\ RecvOK(m.pcb) /\ m.pcb.called
      /\ ~m.pcb.refused /\ m.accepted /\ ~m.closed /\ m.pcb.input = TRUE
  BY Zenon DEF OpenInput, Common
<1>2. Len(<<>>) = 0
  BY Zenon
<1> DEFINE T == Len(m.toRemote)
           R == Len(m.recv_buf)
           W == m.pcb.rcv_wnd
<1>3. T \in Nat /\ R \in Nat /\ W \in Nat /\ TCP_WND \in Nat
  <2>1. T \in Nat /\ R \in Nat
    BY <1>1 DEF Common, Upstream
  <2>2. W \in Nat /\ TCP_WND \in Nat
    BY <1>1, SizesAreAtLeastOne DEF RecvOK
  <2> QED  BY <2>1, <2>2, Zenon
<1>4. T + R + 1 = Least(m.pcb.rcv_nxt, m.pcb.fin)
  <2>1. T + R + Len(<<>>) + 1 = Least(m.pcb.rcv_nxt, m.pcb.fin)
    BY Zenon DEF OpenInput
  <2> HIDE DEF T, R
  <2>2. T + R + Len(<<>>) + 1 = T + R + 1
    BY <1>2, <1>3
  <2> QED  BY <2>1, <2>2, Zenon
<1>5. CASE "GOT_FIN" \notin m.pcb.recv_flags
  <2>1. EventClosed(m) = m
    BY <1>5, Zenon DEF EventClosed
  <2>2. /\ m.pcb.recv_flags = {} /\ m.pcb.state = "ESTABLISHED"
        /\ m.pcb.rcv_nxt <= m.pcb.fin /\ W + R + Len(<<>>) = TCP_WND
    BY <1>5, Zenon DEF OpenInput
  <2>3. W + R = TCP_WND
    <3> HIDE DEF W, R
    <3>1. W + R + Len(<<>>) = W + R
      BY <1>2, <1>3
    <3> QED  BY <2>2, <3>1, Zenon
  <2>4. T + R + 1 = m.pcb.rcv_nxt
    <3>1. Least(m.pcb.rcv_nxt, m.pcb.fin) = m.pcb.rcv_nxt
      BY <1>1, <2>2 DEF RecvOK, Least
    <3> QED  BY <1>4, <3>1, Zenon
  <2>5. Open(m)
    BY <2>2, <2>3, <2>4, Zenon DEF OpenInput, Open
  <2>6. Downstream(m)
    <3>1. Octets(Queue(m.pcb)) \in Nat
      <4>1. QueueOK(Queue(m.pcb), m.pcb.snd_lbb)
        BY Zenon DEF OpenInput, SendOK
      <4> QED  BY <4>1, CoveredOctets, Zenon
    <3>2. Octets(Queue(m.pcb)) + 0 = Pending(m)
      BY Zenon DEF OpenInput
    <3>3. Octets(Queue(m.pcb)) = Pending(m)
      BY <3>1, <3>2
    <3> QED  BY <3>3, Zenon DEF OpenInput, Downstream
  <2> QED  BY <1>1, <2>1, <2>2, <2>5, <2>6, Zenon DEF Core
<1>6. CASE "GOT_FIN" \in m.pcb.recv_flags
  <2> DEFINE w == IF W # TCP_WND THEN W + 1 ELSE W
             p == [m.pcb EXCEPT !.rcv_wnd = w]
             x == [m EXCEPT !.pcb = p]
             q == tcp_close([p EXCEPT !.called = FALSE])
             y == [x EXCEPT !.pcb = q]
             e == uvl_client_freed(y)
  <2>1. m.pcb.state = "CLOSE_WAIT" /\ W + R + 1 = TCP_WND
    <3>1. m.pcb.state = "CLOSE_WAIT" /\ W + R + Len(<<>>) + 1 = TCP_WND
      BY <1>6, Zenon DEF OpenInput
    <3> HIDE DEF W, R
    <3>2. W + R + Len(<<>>) + 1 = W + R + 1
      BY <1>2, <1>3
    <3> QED  BY <3>1, <3>2, Zenon
  <2>2. w = W + 1 /\ w \in 0 .. TCP_WND /\ w + R = TCP_WND
    <3> HIDE DEF W, R
    <3> QED  BY <1>3, <2>1
  <2>3. EventClosed(m) = IF x.pcb.called THEN uvl_client_close_func(x) ELSE x
    BY <1>1, <1>6, Zenon DEF EventClosed
  <2> HIDE DEF w
  <2>4. /\ IsPcb(p) /\ p.rcv_wnd = w /\ p.state = m.pcb.state /\ p.called = m.pcb.called
        /\ p.input = m.pcb.input /\ p.fin = m.pcb.fin /\ p.rcv_nxt = m.pcb.rcv_nxt
        /\ p.rcv_ann_wnd = m.pcb.rcv_ann_wnd /\ p.right_edge = m.pcb.right_edge
        /\ p.ooseq = m.pcb.ooseq
    BY <1>1, ZenonT(30) DEF IsPcb
  <2> HIDE DEF p
  <2>5. RecvOK(p)
    <3>1. /\ p.fin \in Nat /\ p.rcv_nxt \in 1 .. p.fin + 1 /\ p.rcv_wnd \in 0 .. TCP_WND
          /\ p.rcv_ann_wnd \in 0 .. p.rcv_wnd
          /\ p.right_edge \in Nat /\ p.right_edge <= p.rcv_nxt + p.rcv_wnd
      <4>1. /\ p.fin \in Nat /\ p.rcv_nxt \in 1 .. p.fin + 1 /\ p.rcv_ann_wnd \in 0 .. W
            /\ p.right_edge \in Nat /\ p.right_edge <= p.rcv_nxt + W
        BY <1>1, <2>4, Zenon DEF RecvOK
      <4> HIDE DEF W
      <4> QED  BY <1>3, <2>2, <2>4, <4>1
    <3>2. p.ooseq \subseteq p.rcv_nxt + 1 .. Least(p.fin, p.rcv_nxt + p.rcv_wnd - 1)
      <4>1. p.ooseq \subseteq p.rcv_nxt + 1 .. Least(p.fin, p.rcv_nxt + W - 1)
        BY <1>1, <2>4, Zenon DEF RecvOK
      <4>2. Least(p.fin, p.rcv_nxt + W - 1) <= Least(p.fin, p.rcv_nxt + w - 1)
            /\ Least(p.fin, p.rcv_nxt + W - 1) \in Int
            /\ Least(p.fin, p.rcv_nxt + w - 1) \in Int
        <5> DEFINE u == p.rcv_nxt + W - 1
                   v == p.rcv_nxt + w - 1
        <5> HIDE DEF W
        <5>1. \A f, a, b \in Int : a <= b => /\ Least(f, a) <= Least(f, b)
                                            /\ Least(f, a) \in Int /\ Least(f, b) \in Int
          BY DEF Least
        <5>2. W \in Int /\ w \in Int /\ W <= w /\ p.fin \in Int /\ p.rcv_nxt \in Int
          BY <1>3, <2>2, <3>1
        <5>3. u \in Int /\ v \in Int /\ u <= v
          BY <5>2
        <5> HIDE DEF u, v
        <5>4. /\ Least(p.fin, u) <= Least(p.fin, v)
              /\ Least(p.fin, u) \in Int /\ Least(p.fin, v) \in Int
          BY <5>1, <5>2, <5>3, Zenon
        <5> QED  BY <5>4, Zenon DEF u, v
      <4> DEFINE a == Least(p.fin, p.rcv_nxt + W - 1)
                 b == Least(p.fin, p.rcv_nxt + w - 1)
      <4>3. p.rcv_nxt + 1 .. a \subseteq p.rcv_nxt + 1 .. b
        <5>1. a <= b /\ a \in Int /\ b \in Int /\ p.rcv_nxt \in Int
          BY <3>1, <4>2
        <5> HIDE DEF a, b
        <5> QED  BY <5>1
      <4> QED  BY <2>4, <4>1, <4>3, Zenon
    <3> QED  BY <3>1, <3>2, Zenon DEF RecvOK
  <2>6. IsConn(x) /\ SameConn(m, x) /\ x.pcb = p
    BY <1>1, Zenon DEF IsConn, SameConn, Kept, SameProxy
  <2> HIDE DEF x
  <2>7. Common(x)
    BY <1>1, <2>4, <2>5, <2>6, CommonKept, Zenon
  <2>8. x.toRemote = m.toRemote /\ x.recv_buf = m.recv_buf /\ x.accepted /\ ~x.closed
    BY <1>1, <2>6, Zenon DEF SameConn, Kept
  <2>9. Endable(x)
    BY <1>1, <1>4, <2>1, <2>2, <2>4, <2>6, <2>7, <2>8, ZenonT(30) DEF Endable
  <2>10. Ended(p, q)
    BY <1>1, <2>1, <2>4, <2>5, CloseEnds, Zenon
  <2>11. EventClosed(m) = e
    BY <1>1, <2>3, <2>4, <2>6, <2>8, Zenon DEF uvl_client_close_func
  <2> HIDE DEF q
  <2>12. IsConn(y) /\ SameConn(x, y) /\ y.pcb = q
    BY <2>6, Zenon DEF IsConn, SameConn, Kept, SameProxy
  <2> HIDE DEF y
  <2>13. Control(y) /\ y.accepted /\ ~y.closed
    <3>1. Control(x)
      BY <2>7, Zenon DEF Common
    <3> QED  BY <2>8, <2>12, <3>1, Zenon DEF Control, Reader, Linked, SameConn, Kept, SameProxy
  <2>14. /\ IsConn(e) /\ Kept(y, e) /\ e.closed /\ ~e.read_cb /\ e.pcb = q /\ Control(e)
    BY <2>12, <2>13, FreedConn, Zenon
  <2> HIDE DEF e
  <2>15. Kept(x, e)
    BY <2>12, <2>14, Zenon DEF SameConn, Kept
  <2>16. Core(e)
    BY <2>6, <2>8, <2>9, <2>10, <2>14, <2>15, ShutCloses, ZenonT(30)
  <2> QED  BY <2>11, <2>14, <2>16, Zenon
<1> QED  BY <1>5, <1>6, Zenon

(* A pcb that is freed leaves a closed connection.                         *)
LEMMA GoneCore ==
  ASSUME NEW d, NEW q, Common(d), d.closed, ~d.read_cb, IsPcb(q), RecvOK(q),
         q.state = "FREE", ~q.called, q.fin = d.pcb.fin
  PROVE  Core([d EXCEPT !.pcb = q])
<1> DEFINE e == [d EXCEPT !.pcb = q]
<1>1. IsConn(e) /\ SameConn(d, e) /\ e.pcb = q
  BY Zenon DEF Common, IsConn, SameConn, Kept, SameProxy
<1> HIDE DEF e
<1>2. Common(e)
  BY <1>1, CommonKept, Zenon
<1>3. Closed(e) /\ e.closed /\ e.accepted
  BY <1>1, <1>2, Zenon DEF Closed, SameConn, Common, Control, Linked
<1> QED  BY <1>2, <1>3, Zenon DEF Core, e

(* After the callbacks: a pcb that was closed in them is freed, the others *)
(* send.                                                                   *)
LEMMA InputEnds ==
  ASSUME NEW d, Core(d), "CLOSED" \in d.pcb.recv_flags => d.closed
  PROVE  Core(IF tcp_input_delayed_close(d) THEN [d EXCEPT !.pcb = Freed(@)]
              ELSE [d EXCEPT !.pcb = tcp_output([@ EXCEPT !.input = FALSE])])
<1>1. Common(d) /\ IsConn(d) /\ IsPcb(d.pcb) /\ RecvOK(d.pcb)
  BY Zenon DEF Core, Common
<1>2. ASSUME tcp_input_delayed_close(d) PROVE Core([d EXCEPT !.pcb = Freed(@)])
  <2>1. d.closed /\ ~d.read_cb
    BY <1>2, Zenon DEF tcp_input_delayed_close, Core, Closed
  <2> QED  BY <1>1, <2>1, FreedPcb, GoneCore, Zenon
<1>3. Core([d EXCEPT !.pcb = tcp_output([@ EXCEPT !.input = FALSE])])
  <2> DEFINE p == [d.pcb EXCEPT !.input = FALSE]
             q == tcp_output(p)
             e == [d EXCEPT !.pcb = q]
  <2>1. IsPcb(p) /\ Quiet(d.pcb, p)
    <3>1. /\ IsPcb(p) /\ SameControl(d.pcb, p) /\ SameRecv(d.pcb, p) /\ SameSend(d.pcb, p)
          /\ p.right_edge = d.pcb.right_edge
      BY <1>1, Zenon DEF IsPcb, SameControl, SameRecv, SameSend, Queue
    <3>2. RecvOK(p)
      BY <1>1, <3>1, Zenon DEF RecvOK, SameRecv
    <3> QED  BY <3>1, <3>2, Zenon DEF Quiet, SameRecv
  <2> HIDE DEF p
  <2>2. Quiet(p, q)
    BY <2>1, OutputOutputs, OutputsQuiet, Zenon DEF Quiet
  <2> HIDE DEF q
  <2>3. Quiet(d.pcb, q)
    BY <2>1, <2>2, QuietTwice, Zenon
  <2>4. IsConn(e) /\ SameConn(d, e) /\ e.pcb = q
    BY <1>1, Zenon DEF IsConn, SameConn, Kept, SameProxy
  <2> HIDE DEF e
  <2>5. Core(e)
    BY <2>3, <2>4, QuietCore, Zenon
  <2> QED  BY <2>5, Zenon DEF e, q, p
<1> QED  BY <1>2, <1>3, Zenon
=============================================================================
