--------------------------- MODULE GatewayProofs ----------------------------
(***************************************************************************)
(* One TCP connection of a console through the PC client, for every size   *)
(* of lwIP's window, send buffer and segments (the send buffer a multiple  *)
(* of the segments, WholeSegments), every length of the two streams and    *)
(* any windows the console announces: the streams stay intact, the buffers *)
(* of the three parties agree, no assertion fails, an orderly end loses    *)
(* nothing.                                                                *)
(*                                                                         *)
(* GatewayInv is inductive: here is the arrival of a segment, from the     *)
(* order of the callbacks on; GatewaySteps has each callback, and the      *)
(* other steps.                                                            *)
(***************************************************************************)
EXTENDS GatewaySteps, FiniteSetTheorems

(* Time limits of the provers, for the many facts in scope.                *)
USE SMTT(20), ZenonT(30)

-----------------------------------------------------------------------------
(* The library's facts about numbers and finite sets.                      *)

(* SetFacts, a hypothesis of the lemmas about tcp_receive's and            *)
(* tcp_write's queues, is true.                                            *)
LEMMA SetFactsHold == SetFacts
<1>1. ASSUME NEW S \in SUBSET Nat, S # {} PROVE \E i \in S : \A j \in S : i <= j
  <2> DEFINE R == OpToRel(<, Nat)
  <2>1. IsWellFoundedOn(R, Nat)
    BY NatLessThanWellFounded, Zenon
  <2>2. \A x, y \in Nat : x < y => <<x, y>> \in R
    BY Zenon DEF OpToRel
  <2> HIDE DEF R
  <2>3. PICK i \in S : \A j \in S : <<j, i>> \notin R
    BY <1>1, <2>1, WFMin, Zenon
  <2>4. ASSUME NEW j \in S PROVE i <= j
    <3>1. ~(j < i)
      BY <2>2, <2>3, Zenon
    <3> QED  BY <3>1
  <2> QED  BY <2>4, Zenon
<1>2. \A a, b \in Int : /\ IsFiniteSet(a .. b)
                       /\ Cardinality(a .. b) = IF a > b THEN 0 ELSE b - a + 1
  BY FS_Interval, Zenon
<1>3. Cardinality({}) = 0 /\ \A S : IsFiniteSet(S) => (Cardinality(S) = 0 <=> S = {})
  BY FS_EmptySet, Zenon
<1>4. \A S : IsFiniteSet(S) => Cardinality(S) \in Nat /\ \A T \in SUBSET S : IsFiniteSet(T)
  BY FS_CardinalityType, FS_Subset, Zenon
<1>5. \A S, T : IsFiniteSet(S) /\ IsFiniteSet(T) =>
         Cardinality(S \cup T) = Cardinality(S) + Cardinality(T) - Cardinality(S \cap T)
  BY FS_Union, Zenon
<1> QED  BY <1>1, <1>2, <1>3, <1>4, <1>5, Zenon DEF SetFacts
-----------------------------------------------------------------------------
(* tcp_input: the callbacks in their order.                                *)

(* The three callbacks of an open connection, in the order of tcp_input.   *)
LEMMA OpenCallbacks ==
  ASSUME SetFacts, NEW m, OpenInput(m, m.pcb.recv_acked, m.pcb.recv_data)
  PROVE  Core(Callbacks(m))
<1> DEFINE sent == EventSent(m)
           got == EventRecv(sent)
           end == EventClosed(got)
<1>1. OpenInput(sent, 0, m.pcb.recv_data) /\ sent.pcb = m.pcb
  BY SentOpen, Zenon
<1>2. Callbacks(m) =
        IF tcp_input_delayed_close(sent) THEN [sent EXCEPT !.pcb = Freed(@)]
        ELSE IF got.pcb.state = "FREE" THEN got
        ELSE IF tcp_input_delayed_close(end) THEN [end EXCEPT !.pcb = Freed(@)]
        ELSE [end EXCEPT !.pcb = tcp_output([@ EXCEPT !.input = FALSE])]
  BY Zenon DEF Callbacks
<1> HIDE DEF sent
<1>3. OpenInput(got, 0, <<>>) /\ got.pcb = sent.pcb
  BY <1>1, RecvOpen, Zenon
<1> HIDE DEF got
<1>4. Core(end) /\ ("CLOSED" \in end.pcb.recv_flags => end.closed)
  BY <1>3, FinOpen, Zenon
<1> HIDE DEF end
<1>5. ~tcp_input_delayed_close(sent)
  BY <1>1, Zenon DEF tcp_input_delayed_close, OpenInput
<1>6. got.pcb.state # "FREE"
  BY <1>3, Zenon DEF OpenInput
<1> QED  BY <1>2, <1>4, <1>5, <1>6, InputEnds, Zenon

(* A closed connection has no callbacks left; data that still comes aborts *)
(* it.                                                                     *)
LEMMA ClosedCallbacks ==
  ASSUME NEW m, ClosedInput(m, m.pcb.recv_data)
  PROVE  Core(Callbacks(m))
<1> DEFINE got == EventRecv(m)
           end == EventClosed(got)
<1>1. /\ Common(m) /\ IsConn(m) /\ IsPcb(m.pcb) /\ RecvOK(m.pcb) /\ m.closed /\ ~m.read_cb
      /\ ~m.pcb.called /\ "RXCLOSED" \in m.pcb.flags
      /\ m.pcb.state \in Leaving \cup {"TIME_WAIT"}
  BY Zenon DEF ClosedInput, Common
<1>2. EventSent(m) = m
  BY <1>1, Zenon DEF EventSent
<1>3. Callbacks(m) =
        IF tcp_input_delayed_close(m) THEN [m EXCEPT !.pcb = Freed(@)]
        ELSE IF got.pcb.state = "FREE" THEN got
        ELSE IF tcp_input_delayed_close(end) THEN [end EXCEPT !.pcb = Freed(@)]
        ELSE [end EXCEPT !.pcb = tcp_output([@ EXCEPT !.input = FALSE])]
  BY <1>2, Zenon DEF Callbacks
<1>4. Core([m EXCEPT !.pcb = Freed(@)])
  BY <1>1, FreedPcb, GoneCore, Zenon
<1>5. CASE m.pcb.recv_data # <<>>
  <2> DEFINE p == IF m.pcb.state = "TIME_WAIT" THEN m.pcb ELSE tcp_rst(m.pcb)
             q == Freed(p)
             g == [m EXCEPT !.pcb = q]
  <2>1. got = g
    BY <1>1, <1>5, Zenon DEF EventRecv, tcp_abandon
  <2>2. IsPcb(p) /\ RecvOK(p) /\ p.fin = m.pcb.fin
    <3> DEFINE t == tcp_rst(m.pcb)
    <3>1. /\ IsPcb(t) /\ SameRecv(m.pcb, t) /\ t.right_edge = m.pcb.right_edge
      BY <1>1, Zenon DEF tcp_rst, IsPcb, SameRecv
    <3> HIDE DEF t
    <3>2. RecvOK(t) /\ t.fin = m.pcb.fin
      BY <1>1, <3>1, Zenon DEF RecvOK, SameRecv
    <3> QED  BY <1>1, <3>1, <3>2 DEF t
  <2> HIDE DEF p
  <2>3. IsPcb(q) /\ RecvOK(q) /\ q.state = "FREE" /\ ~q.called /\ q.fin = m.pcb.fin
    BY <2>2, FreedPcb, Zenon
  <2> HIDE DEF q
  <2>4. Core(g)
    BY <1>1, <2>3, GoneCore, Zenon
  <2>5. g.pcb = q
    BY <1>1, Zenon DEF IsConn
  <2> HIDE DEF g, got, end
  <2> QED  BY <1>3, <1>4, <2>1, <2>3, <2>4, <2>5, Zenon
<1>6. CASE m.pcb.recv_data = <<>>
  <2>1. got = m
    BY <1>6, Zenon DEF EventRecv
  <2>2. Complete(m)
    <3>1. Len(m.toRemote) \in Nat /\ Len(<<>>) = 0
      BY <1>1 DEF Common, Upstream
    <3>2. Len(m.toRemote) + 1 + Len(<<>>) = Len(m.toRemote) + 1
      BY <3>1
    <3> QED  BY <1>6, <3>2, Zenon DEF Complete, ClosedInput
  <2> DEFINE w == IF m.pcb.rcv_wnd # TCP_WND THEN m.pcb.rcv_wnd + 1 ELSE m.pcb.rcv_wnd
             p == [m.pcb EXCEPT !.rcv_wnd = w]
             x == [m EXCEPT !.pcb = p]
  <2>3. /\ IsPcb(p) /\ p.rcv_wnd = w /\ p.state = m.pcb.state /\ p.called = m.pcb.called
        /\ p.fin = m.pcb.fin /\ p.rcv_nxt = m.pcb.rcv_nxt /\ p.rst = m.pcb.rst
        /\ p.rcv_ann_wnd = m.pcb.rcv_ann_wnd /\ p.right_edge = m.pcb.right_edge
        /\ p.ooseq = m.pcb.ooseq /\ p.flags = m.pcb.flags
    <3> HIDE DEF w
    <3> QED  BY <1>1, Zenon DEF IsPcb
  <2>4. end = m \/ end = x
    <3>1. \/ EventClosed(m) = m
          \/ EventClosed(m) = IF x.pcb.called THEN uvl_client_close_func(x) ELSE x
      BY Zenon DEF EventClosed
    <3>2. x.pcb = p
      <4> HIDE DEF p
      <4> QED  BY <1>1, Zenon DEF IsConn
    <3>3. ~x.pcb.called
      BY <1>1, <2>3, <3>2, Zenon
    <3> HIDE DEF x
    <3> QED  BY <2>1, <3>1, <3>3, Zenon
  <2>5. RecvOK(p)
    <3>1. /\ m.pcb.fin \in Nat /\ m.pcb.rcv_nxt \in 1 .. m.pcb.fin + 1
          /\ m.pcb.rcv_wnd \in 0 .. TCP_WND /\ m.pcb.rcv_ann_wnd \in 0 .. m.pcb.rcv_wnd
          /\ m.pcb.right_edge \in Nat /\ m.pcb.right_edge <= m.pcb.rcv_nxt + m.pcb.rcv_wnd
          /\ m.pcb.ooseq \subseteq
               m.pcb.rcv_nxt + 1 .. Least(m.pcb.fin, m.pcb.rcv_nxt + m.pcb.rcv_wnd - 1)
      BY <1>1, Zenon DEF RecvOK
    <3>2. w \in 0 .. TCP_WND /\ w >= m.pcb.rcv_wnd
      BY <3>1, SizesAreAtLeastOne
    <3> HIDE DEF p, w
    <3> DEFINE a == Least(m.pcb.fin, m.pcb.rcv_nxt + m.pcb.rcv_wnd - 1)
               b == Least(m.pcb.fin, m.pcb.rcv_nxt + w - 1)
    <3>3. a <= b /\ a \in Int /\ b \in Int /\ m.pcb.rcv_nxt \in Int
      <4>1. /\ m.pcb.fin \in Nat /\ m.pcb.rcv_nxt \in Nat /\ m.pcb.rcv_wnd \in Nat
            /\ w \in Nat /\ w >= m.pcb.rcv_wnd
        BY <3>1, <3>2, SizesAreAtLeastOne
      <4> QED  BY <4>1 DEF Least
    <3> HIDE DEF a, b
    <3>4. m.pcb.rcv_nxt + 1 .. a \subseteq m.pcb.rcv_nxt + 1 .. b
      BY <3>3
    <3>5. p.ooseq \subseteq p.rcv_nxt + 1 .. Least(p.fin, p.rcv_nxt + p.rcv_wnd - 1)
      BY <2>3, <3>1, <3>4, Zenon DEF a, b
    <3>6. p.rcv_ann_wnd \in 0 .. p.rcv_wnd /\ p.right_edge <= p.rcv_nxt + p.rcv_wnd
      <4>1. /\ m.pcb.rcv_wnd \in Nat /\ w \in Nat /\ w >= m.pcb.rcv_wnd
            /\ m.pcb.rcv_ann_wnd \in 0 .. m.pcb.rcv_wnd /\ m.pcb.right_edge \in Nat
            /\ m.pcb.rcv_nxt \in Nat
            /\ m.pcb.right_edge <= m.pcb.rcv_nxt + m.pcb.rcv_wnd
        BY <3>1, <3>2, SizesAreAtLeastOne
      <4> QED  BY <2>3, <4>1
    <3> QED  BY <2>3, <3>1, <3>2, <3>5, <3>6, Zenon DEF RecvOK
  <2> HIDE DEF p
  <2>6. IsConn(x) /\ SameConn(m, x) /\ x.pcb = p
    BY <1>1, Zenon DEF IsConn, SameConn, Kept, SameProxy
  <2> HIDE DEF x
  <2>7. Core(m)
    BY <1>1, <2>2, Zenon DEF Core, Closed, Common, Control, Linked
  <2>8. Core(x) /\ x.closed
    <3>1. Common(x)
      BY <1>1, <2>3, <2>5, <2>6, CommonKept, Zenon
    <3>2. Complete(x)
      BY <2>2, <2>3, <2>6, Zenon DEF Complete, SameConn, Kept
    <3>3. Closed(x) /\ x.closed
      BY <1>1, <2>3, <2>6, <3>2, Zenon DEF Closed, SameConn
    <3> QED  BY <3>1, <3>3 DEF Core, Common, Control, Linked
  <2>9. Core(end) /\ end.closed
    BY <1>1, <2>4, <2>7, <2>8, Zenon
  <2>10. got.pcb.state # "FREE"
    BY <1>1, <2>1, Zenon DEF Leaving
  <2> HIDE DEF end, got
  <2> QED  BY <1>3, <1>4, <2>9, <2>10, InputEnds, Zenon
<1> QED  BY <1>5, <1>6, Zenon

(* A connection begins with both streams empty and the whole of both       *)
(* buffers.                                                                *)
LEMMA AcceptingOpen ==
  ASSUME SetFacts, NEW d, Core(d), ~d.accepted, d.pcb.state = "SYN_RCVD"
  PROVE  LET e == Accepting(d)
         IN  /\ Common(e) /\ Open(e) /\ e.accepted /\ ~e.closed /\ e.mode = d.mode
             /\ e.writes = <<>> /\ e.wire = <<>> /\ e.fromRemote = 0 /\ e.proxy = "none"
             /\ ~e.reading /\ ~e.inflight /\ ~e.read_cb /\ ~e.crashed
             /\ SameStep(d.pcb, e.pcb) /\ e.pcb.fin = d.pcb.fin
             /\ e.pcb.rcv_nxt = d.pcb.rcv_nxt /\ e.pcb.right_edge = d.pcb.right_edge
             /\ SendOK(e.pcb) /\ Octets(Queue(e.pcb)) = 0
             /\ Whole(e.pcb.snd_buf) /\ Full(Queue(e.pcb))
<1> DEFINE p == [d.pcb EXCEPT !.state = "ESTABLISHED"]
           q == [p EXCEPT !.called = TRUE]
           x == [d EXCEPT !.pcb = p]
           e == [x EXCEPT !.accepted = TRUE, !.pcb = q]
<1>1. Fresh(d) /\ Common(d) /\ IsConn(d) /\ IsPcb(d.pcb) /\ RecvOK(d.pcb)
  BY Zenon DEF Core, Common
<1>2. x.pcb = p
  <2> HIDE DEF p
  <2> QED  BY <1>1, Zenon DEF IsConn
<1>3. Accepting(d) = e
  BY <1>2, Zenon DEF Accepting
<1> SUFFICES
     /\ Common(e) /\ Open(e) /\ e.accepted /\ ~e.closed /\ e.mode = d.mode
     /\ e.writes = <<>> /\ e.wire = <<>> /\ e.fromRemote = 0 /\ e.proxy = "none"
     /\ ~e.reading /\ ~e.inflight /\ ~e.read_cb /\ ~e.crashed
     /\ SameStep(d.pcb, e.pcb) /\ e.pcb.fin = d.pcb.fin
     /\ e.pcb.rcv_nxt = d.pcb.rcv_nxt /\ e.pcb.right_edge = d.pcb.right_edge
     /\ SendOK(e.pcb) /\ Octets(Queue(e.pcb)) = 0
     /\ Whole(e.pcb.snd_buf) /\ Full(Queue(e.pcb))
  BY <1>3, Zenon
<1>4. /\ IsPcb(q) /\ q.state = "ESTABLISHED" /\ q.called /\ q.refused = d.pcb.refused
      /\ q.flags = d.pcb.flags /\ SameRecv(d.pcb, q) /\ SameSend(d.pcb, q)
      /\ SameStep(d.pcb, q) /\ q.right_edge = d.pcb.right_edge
  BY <1>1, Zenon DEF IsPcb, SameRecv, SameSend, SameStep, Queue
<1> HIDE DEF p, q
<1>5. IsConn(x) /\ SameConn(d, x)
  BY <1>1, Zenon DEF IsConn, SameConn, Kept, SameProxy
<1> HIDE DEF x
<1>6. IsConn(e)
  BY <1>5, Zenon DEF IsConn
<1>7. /\ e.accepted /\ e.pcb = q /\ e.mode = x.mode /\ e.released = x.released
      /\ e.aborted = x.aborted /\ e.toRemote = x.toRemote /\ e.fromRemote = x.fromRemote
      /\ e.wire = x.wire /\ e.recv_buf = x.recv_buf /\ SameProxy(x, e)
      /\ e.closed = x.closed /\ e.closing = x.closing /\ e.handles = x.handles
      /\ e.read_cb = x.read_cb /\ e.writes = x.writes
  BY <1>5, Zenon DEF IsConn, SameProxy
<1> HIDE DEF e
<1>8. /\ e.mode = d.mode /\ e.released = d.released
      /\ e.aborted = d.aborted /\ e.toRemote = <<>> /\ e.fromRemote = 0
      /\ e.wire = <<>> /\ e.recv_buf = <<>> /\ ~e.closed /\ ~e.closing /\ e.handles = "open"
      /\ ~e.read_cb /\ e.writes = <<>> /\ e.proxy = "none" /\ ~e.reading /\ ~e.inflight
      /\ ~e.killed /\ ~e.crashed
  BY <1>1, <1>5, <1>7 DEF Fresh, SameConn, Kept, SameProxy
<1>9. Len(<<>>) = 0
  BY Zenon
<1>10. q.fin \in Nat \ {0} /\ q.rcv_nxt = 1 /\ q.rcv_wnd = TCP_WND /\ q.ooseq = {}
  BY <1>1, <1>4, Zenon DEF Fresh, SameRecv
<1>11. RecvOK(q)
  BY <1>1, <1>4, Zenon DEF RecvOK, SameRecv
<1>12. Common(e)
  <2>1. Upstream(e)
    <3>1. Counts(<<>>, 0) /\ Counts(<<>>, Len(e.toRemote))
      BY DEF Counts
    <3>2. Len(e.toRemote) < e.pcb.fin
      BY <1>7, <1>8, <1>9, <1>10
    <3> QED  BY <1>8, <3>1, <3>2, UpstreamCounts, Zenon
  <2>2. Control(e)
    BY <1>1, <1>8, Zenon DEF Control, Reader, Linked, Common
  <2>3. Wire(e) /\ e.mode \in Modes
    <3>1. Limit(e) \in Nat
      BY <1>8, LengthsAreNatural DEF Limit
    <3>2. Len(e.wire) <= Limit(e)
      BY <1>8, <1>9, <3>1
    <3>3. e.wire \in Seq(Nat) /\ \A i \in 1 .. Len(e.wire) : e.wire[i] = i
      BY <1>8, <1>9
    <3> QED  BY <1>1, <1>8, <3>2, <3>3 DEF Wire, Common
  <2> QED  BY <1>4, <1>6, <1>7, <1>11, <2>1, <2>2, <2>3, Zenon DEF Common
<1>13. Open(e)
  <2>1. /\ q.rcv_wnd + Len(e.recv_buf) = TCP_WND
        /\ Len(e.toRemote) + Len(e.recv_buf) + 1 = q.rcv_nxt
        /\ q.rcv_nxt <= q.fin
    BY <1>8, <1>9, <1>10, SizesAreAtLeastOne
  <2> QED  BY <1>1, <1>4, <1>7, <1>8, <2>1, Zenon DEF Open, Fresh
<1>14. /\ SendOK(d.pcb) /\ d.pcb.snd_buf = TCP_SND_BUF /\ \A s \in Queue(d.pcb) : s.len = 0
  BY <1>1, Zenon DEF Fresh
<1>15. /\ SendOK(q) /\ q.snd_buf = TCP_SND_BUF /\ \A s \in Queue(q) : s.len = 0
  BY <1>4, <1>14, Zenon DEF SameSend, SendOK
<1>16. Octets(Queue(q)) = 0 /\ Full(Queue(q))
  BY <1>15, NoOctets, Zenon DEF SendOK, Full
<1>17. Whole(q.snd_buf)
  BY <1>15, WholeSegments DEF Whole
<1> QED
  BY <1>4, <1>7, <1>8, <1>12, <1>13, <1>15, <1>16, <1>17, Zenon DEF SameRecv

(* uvl_listener_accept_func and onConnection: the connection is open.      *)
LEMMA AcceptCore ==
  ASSUME SetFacts, NEW d, NEW fails, Core(d), ~d.accepted, d.pcb.state = "SYN_RCVD",
         ~(fails /\ d.mode = "direct")
  PROVE  LET e == accept([d EXCEPT !.pcb.state = "ESTABLISHED"], fails)
         IN  /\ Core(e) /\ e.accepted /\ ~e.closed /\ SameStep(d.pcb, e.pcb)
             /\ e.pcb.fin = d.pcb.fin /\ e.pcb.rcv_nxt = d.pcb.rcv_nxt
             /\ e.pcb.right_edge = d.pcb.right_edge
             /\ Octets(Queue(e.pcb)) = 0 /\ SendOK(e.pcb)
<1> DEFINE x == Accepting(d)
           data == [i \in 1 .. Down |-> i]
           r == [data |-> data, sent |-> 0, pending |-> 0]
           y == [x EXCEPT !.writes = Append(@, r), !.write_req = TRUE]
           z == [x EXCEPT !.proxy = "connecting"]
           e == accept([d EXCEPT !.pcb.state = "ESTABLISHED"], fails)
<1>1. /\ Common(x) /\ Open(x) /\ x.accepted /\ ~x.closed /\ x.mode = d.mode
      /\ x.writes = <<>> /\ x.wire = <<>> /\ x.fromRemote = 0 /\ x.proxy = "none"
      /\ ~x.reading /\ ~x.inflight /\ ~x.read_cb /\ ~x.crashed
      /\ SameStep(d.pcb, x.pcb) /\ x.pcb.fin = d.pcb.fin
      /\ x.pcb.rcv_nxt = d.pcb.rcv_nxt /\ x.pcb.right_edge = d.pcb.right_edge
      /\ SendOK(x.pcb) /\ Octets(Queue(x.pcb)) = 0
      /\ Whole(x.pcb.snd_buf) /\ Full(Queue(x.pcb))
  BY AcceptingOpen, Zenon
<1>2. e = CASE x.mode = "fake" -> y
            [] x.mode = "socks5" -> z
            [] x.mode = "direct" -> IF fails THEN kill(x) ELSE z
  BY Zenon DEF accept, uvl_write, Accepting
<1>3. x.mode \in {"fake", "socks5", "direct"} /\ IsConn(x) /\ Linked(x)
  BY <1>1, Zenon DEF Common, Modes, Control
<1>4. \/ x.mode = "fake" /\ e = y
      \/ x.mode # "fake" /\ e = z
  <2> HIDE DEF x, y, z, e
  <2> QED  BY <1>1, <1>2, <1>3, Zenon
<1> HIDE DEF x
<1>5. Len(<<>>) = 0
  BY Zenon
<1>6. ASSUME NEW f, Common(f), f.pcb = x.pcb, Open(f), Requests(f), f.accepted, ~f.closed,
             Pending(f) = 0
      PROVE  Core(f)
  <2>1. Downstream(f)
    BY <1>1, <1>6, Zenon DEF Downstream, Filled
  <2> QED  BY <1>6, <2>1, Zenon DEF Core
<1>7. ASSUME x.mode = "fake" PROVE Core(y) /\ y.accepted /\ ~y.closed /\ y.pcb = x.pcb
  <2>1. data \in Seq(Nat) /\ Len(data) = Down /\ \A i \in 1 .. Len(data) : data[i] = i
    BY LengthsAreNatural
  <2> HIDE DEF data
  <2>2. /\ r \in [data : Seq(Nat), sent : Nat, pending : Nat]
        /\ r.data = data /\ r.sent = 0 /\ r.pending = 0
    BY <2>1, Zenon
  <2> HIDE DEF r
  <2>3. IsConn(y)
    BY <1>3, Zenon DEF IsConn
  <2>4. /\ Kept(x, y) /\ SameProxy(x, y) /\ y.pcb = x.pcb /\ y.closed = x.closed
        /\ y.closing = x.closing /\ y.handles = x.handles /\ y.read_cb = x.read_cb
        /\ y.writes = Append(x.writes, r)
    BY <1>3, Zenon DEF IsConn, Kept, SameProxy
  <2> HIDE DEF y
  <2>5. y.writes = <<r>>
    BY <1>1, <2>4
  <2>6. Common(y)
    <3>1. Upstream(y)
      BY <1>1, <2>4, Zenon DEF Common, Upstream, Kept
    <3>2. Control(y)
      BY <1>1, <2>4, Zenon DEF Common, Control, Reader, Linked, Kept, SameProxy
    <3>3. Wire(y) /\ y.mode \in Modes
      BY <1>1, <2>4, Zenon DEF Common, Wire, Limit, Kept
    <3> QED  BY <1>1, <2>3, <2>4, <3>1, <3>2, <3>3, Zenon DEF Common
  <2>7. Open(y)
    BY <1>1, <2>4, Zenon DEF Open, Kept, SameProxy
  <2>8. Limit(y) = Down /\ y.wire = <<>> /\ Down \in Nat
    BY <1>1, <1>7, <2>4, LengthsAreNatural, Zenon DEF Limit, Kept
  <2>9. Request(y, r)
    <3>1. r.sent <= Len(r.data) /\ r.sent <= Len(y.wire)
      BY <1>5, <2>1, <2>2, <2>8
    <3>2. Len(y.wire) - r.sent + Len(r.data) = Limit(y)
      BY <1>5, <2>1, <2>2, <2>8
    <3>3. Len(y.wire) - r.sent = 0
      BY <1>5, <2>2, <2>8
    <3>4. \A i \in 1 .. Len(r.data) : r.data[i] = Len(y.wire) - r.sent + i
      BY <2>1, <2>2, <3>3
    <3> QED  BY <2>2, <3>1, <3>2, <3>4 DEF Request
  <2>10. Requests(y)
    BY <1>1, <1>7, <2>4, <2>5, <2>9 DEF Requests, Kept, SameProxy
  <2>11. Pending(y) = 0
    BY <2>2, <2>5 DEF Pending
  <2> QED  BY <1>1, <1>6, <2>4, <2>6, <2>7, <2>10, <2>11, Zenon DEF Kept
<1>8. ASSUME x.mode # "fake" PROVE Core(z) /\ z.accepted /\ ~z.closed /\ z.pcb = x.pcb
  <2>1. /\ IsConn(z) /\ Kept(x, z) /\ z.proxy = "connecting" /\ z.pcb = x.pcb
        /\ z.closed = x.closed /\ z.closing = x.closing /\ z.handles = x.handles
        /\ z.read_cb = x.read_cb /\ z.writes = x.writes /\ z.killed = x.killed
        /\ z.reading = x.reading /\ z.inflight = x.inflight /\ z.crashed = x.crashed
    BY <1>3, Zenon DEF IsConn, Kept
  <2> HIDE DEF z
  <2>2. Common(z)
    <3>1. Upstream(z)
      BY <1>1, <2>1, Zenon DEF Common, Upstream, Kept
    <3>2. Control(z)
      BY <1>1, <1>3, <1>8, <2>1, Zenon DEF Open, Control, Reader, Linked, Kept
    <3>3. Wire(z) /\ z.mode \in Modes
      BY <1>1, <2>1, Zenon DEF Common, Wire, Limit, Kept
    <3> QED  BY <1>1, <2>1, <3>1, <3>2, <3>3, Zenon DEF Common
  <2>3. Open(z)
    BY <1>1, <2>1, Zenon DEF Open, Kept
  <2>4. Requests(z)
    BY <1>1, <1>5, <1>8, <2>1, Zenon DEF Requests, Limit, Kept
  <2>5. Pending(z) = 0
    BY <1>1, <2>1, Zenon DEF Pending
  <2> QED  BY <1>1, <1>6, <2>1, <2>2, <2>3, <2>4, <2>5, Zenon DEF Kept
<1> HIDE DEF e, y, z
<1>9. Core(e) /\ e.accepted /\ ~e.closed /\ e.pcb = x.pcb
  BY <1>4, <1>7, <1>8, Zenon
<1> QED  BY <1>1, <1>9, Zenon DEF e

(* The proxy's connect fails at once, and the connection is killed.        *)
LEMMA AcceptFails ==
  ASSUME SetFacts, NEW d, Core(d), ~d.accepted, d.pcb.state = "SYN_RCVD",
         d.mode = "direct", d.pcb.input = TRUE, d.pcb.recv_flags = {}
  PROVE  LET e == accept([d EXCEPT !.pcb.state = "ESTABLISHED"], TRUE)
         IN  /\ Core(e) /\ e.closed /\ e.pcb.input = TRUE /\ e.pcb.recv_flags = {}
             /\ e.pcb.recv_data = d.pcb.recv_data /\ e.pcb.state # "FREE"
             /\ e.pcb.fin = d.pcb.fin /\ e.pcb.rcv_nxt = d.pcb.rcv_nxt
             /\ e.pcb.right_edge = d.pcb.right_edge
<1> DEFINE x == Accepting(d)
           e == accept([d EXCEPT !.pcb.state = "ESTABLISHED"], TRUE)
           data == [i \in 1 .. Down |-> i]
           y == uvl_write(x, data)
           z == [x EXCEPT !.proxy = "connecting"]
<1>1. /\ Common(x) /\ Open(x) /\ x.accepted /\ ~x.closed /\ x.mode = d.mode
      /\ SameStep(d.pcb, x.pcb) /\ x.pcb.fin = d.pcb.fin
      /\ x.pcb.rcv_nxt = d.pcb.rcv_nxt /\ x.pcb.right_edge = d.pcb.right_edge
  BY AcceptingOpen, Zenon
<1>2. e = CASE x.mode = "fake" -> y
            [] x.mode = "socks5" -> z
            [] x.mode = "direct" -> IF TRUE THEN kill(x) ELSE z
  BY Zenon DEF accept, Accepting
<1>3. e = kill(x)
  <2> HIDE DEF x, y, z, e
  <2> QED  BY <1>1, <1>2, Zenon
<1> HIDE DEF x
<1>4. x.pcb.input = TRUE /\ x.pcb.recv_flags = {} /\ x.pcb.recv_data = d.pcb.recv_data
  BY <1>1, Zenon DEF SameStep
<1>5. Endable(x)
  <2>1. Least(x.pcb.rcv_nxt, x.pcb.fin) = x.pcb.rcv_nxt
    BY <1>1 DEF Open, Common, RecvOK, Least
  <2> QED  BY <1>1, <1>4, <2>1, Zenon DEF Endable, Open
<1>6. Ready(x) /\ ~x.killed
  BY <1>1, Zenon DEF Ready, Open
<1>7. Core(kill(x)) /\ kill(x).closed /\ Shut(x, kill(x))
  BY <1>5, <1>6, KillCore, Zenon
<1> HIDE DEF e
<1>8. Core(e) /\ e.closed /\ Ended(x.pcb, e.pcb)
  BY <1>1, <1>3, <1>7, Zenon DEF Shut
<1>9. x.pcb.state = "ESTABLISHED"
  BY <1>1, Zenon DEF Open
<1> QED  BY <1>1, <1>4, <1>8, <1>9, Zenon DEF Ended, e

(* tcp_input of a segment for an active pcb.                               *)
LEMMA InputCore ==
  ASSUME SetFacts, NEW d, NEW s, NEW fails, Core(d), Idle(d.pcb),
         d.pcb.state \notin {"LISTEN", "FREE", "TIME_WAIT"}, SegmentOK(d.pcb, s),
         fails => d.mode = "direct", fails \in BOOLEAN
  PROVE  Core(tcp_input(d, s, fails))
<1> DEFINE p == [d.pcb EXCEPT !.input = TRUE]
           x == [d EXCEPT !.pcb = p]
           m == tcp_process(x, s, fails)
<1>1. tcp_input(d, s, fails) = Callbacks(m)
  BY Zenon DEF tcp_input, Callbacks
<1>2. IsConn(d) /\ IsPcb(d.pcb) /\ RecvOK(d.pcb)
  BY Zenon DEF Core, Common
<1>3. /\ IsPcb(p) /\ SameControl(d.pcb, p) /\ SameRecv(d.pcb, p) /\ SameSend(d.pcb, p)
      /\ p.right_edge = d.pcb.right_edge /\ p.input = TRUE /\ p.recv_flags = {}
      /\ p.recv_data = <<>>
  BY <1>2, Zenon DEF IsPcb, SameControl, SameRecv, SameSend, Queue, Idle
<1> HIDE DEF p
<1>4. RecvOK(p)
  BY <1>2, <1>3, Zenon DEF RecvOK, SameRecv
<1>5. Quiet(d.pcb, p)
  BY <1>3, <1>4, Zenon DEF Quiet, SameRecv
<1>6. IsConn(x) /\ SameConn(d, x) /\ x.pcb = p
  BY <1>2 DEF IsConn, SameConn, Kept, SameProxy
<1> HIDE DEF x
<1>7. Core(x)
  BY <1>5, <1>6, QuietCore, Zenon
<1>8. SegmentOK(p, s)
  BY <1>3 DEF SegmentOK, SameRecv
<1>9. p.state = d.pcb.state /\ x.mode = d.mode
  BY <1>3, <1>6, Zenon DEF SameControl, SameConn, Kept
<1>10. CASE p.state # "SYN_RCVD"
  <2> DEFINE q == tcp_process_synchronized(p, s)
             y == [x EXCEPT !.pcb = q]
  <2>1. m = y
    BY <1>6, <1>10, Zenon DEF tcp_process
  <2>2. x.accepted
    BY <1>6, <1>7, <1>9, <1>10, Zenon DEF Core, Fresh
  <2>3. IsConn(y) /\ SameConn(x, y) /\ y.pcb = q
    <3> HIDE DEF q
    <3> QED  BY <1>6 DEF IsConn, SameConn, Kept, SameProxy
  <2>4. CASE x.closed
    <3>1. p.state \in Leaving
      BY <1>6, <1>7, <1>9, <2>4, Zenon DEF Core, Closed
    <3>2. Takes(p, q) /\ q.state \in Leaving \cup {"TIME_WAIT"}
      BY <1>3, <1>4, <1>8, <3>1, LeavingTakes, Zenon
    <3> HIDE DEF q, y
    <3>3. ClosedInput(y, y.pcb.recv_data)
      BY <1>6, <1>7, <1>9, <2>3, <2>4, <3>2, ClosedArrives, Zenon
    <3> QED  BY <1>1, <2>1, <3>3, ClosedCallbacks, Zenon
  <2>5. CASE ~x.closed
    <3>1. p.state = "ESTABLISHED"
      BY <1>6, <1>7, <2>2, <2>5, Zenon DEF Core, Open
    <3>2. /\ Proceeds(p, q)
          /\ q.state = IF "GOT_FIN" \in q.recv_flags THEN "CLOSE_WAIT" ELSE "ESTABLISHED"
      BY <1>3, <1>4, <1>8, <3>1, EstablishedProceeds, Zenon
    <3> HIDE DEF q, y
    <3>3. OpenInput(y, y.pcb.recv_acked, y.pcb.recv_data)
      BY <1>3, <1>6, <1>7, <2>2, <2>3, <2>5, <3>2, OpenArrives, Zenon
    <3> QED  BY <1>1, <2>1, <3>3, OpenCallbacks
  <2> QED  BY <2>4, <2>5, Zenon
<1>11. CASE p.state = "SYN_RCVD"
  <2> DEFINE e == accept([x EXCEPT !.pcb.state = "ESTABLISHED"], fails)
             r == tcp_receive(e.pcb, s)
             q == [r EXCEPT !.recv_acked = Greatest(0, @ - 1)]
             t == [tcp_ack_now(q) EXCEPT !.state = "CLOSE_WAIT"]
             u == IF "GOT_FIN" \in q.recv_flags THEN t ELSE q
             y == [e EXCEPT !.pcb = u]
  <2>1. m = y
    BY <1>6, <1>11, Zenon DEF tcp_process
  <2>2. ~x.accepted /\ x.pcb.state = "SYN_RCVD"
    <3>1. x.pcb.state \notin Leaving \cup {"TIME_WAIT", "FREE", "ESTABLISHED"}
      BY <1>6, <1>11, Zenon DEF Leaving
    <3> QED  BY <1>6, <1>7, <1>11, <3>1, Zenon DEF Core, Open, Closed
  <2>3. /\ Core(e) /\ e.accepted /\ e.pcb.input = TRUE /\ e.pcb.recv_flags = {}
        /\ e.pcb.recv_data = <<>> /\ e.pcb.fin = p.fin /\ e.pcb.rcv_nxt = p.rcv_nxt
        /\ e.pcb.right_edge = p.right_edge
        /\ IF fails THEN e.closed /\ e.pcb.state # "FREE"
           ELSE ~e.closed /\ Octets(Queue(e.pcb)) = 0 /\ SendOK(e.pcb)
    <3>1. CASE fails
      <4>1. /\ Core(e) /\ e.closed /\ e.pcb.input = TRUE /\ e.pcb.recv_flags = {}
            /\ e.pcb.recv_data = p.recv_data /\ e.pcb.state # "FREE"
            /\ e.pcb.fin = p.fin /\ e.pcb.rcv_nxt = p.rcv_nxt
            /\ e.pcb.right_edge = p.right_edge
        <5>1. /\ fails /\ x.mode = "direct" /\ x.pcb.input = TRUE /\ x.pcb.recv_flags = {}
          BY <1>3, <1>6, <1>9, <3>1, Zenon
        <5>2. /\ Core(e) /\ e.closed /\ e.pcb.input = TRUE /\ e.pcb.recv_flags = {}
              /\ e.pcb.recv_data = x.pcb.recv_data /\ e.pcb.state # "FREE"
              /\ e.pcb.fin = x.pcb.fin /\ e.pcb.rcv_nxt = x.pcb.rcv_nxt
              /\ e.pcb.right_edge = x.pcb.right_edge
          <6> DEFINE f == accept([x EXCEPT !.pcb.state = "ESTABLISHED"], TRUE)
          <6>1. /\ Core(f) /\ f.closed /\ f.pcb.input = TRUE /\ f.pcb.recv_flags = {}
                /\ f.pcb.recv_data = x.pcb.recv_data /\ f.pcb.state # "FREE"
                /\ f.pcb.fin = x.pcb.fin /\ f.pcb.rcv_nxt = x.pcb.rcv_nxt
                /\ f.pcb.right_edge = x.pcb.right_edge
            BY <1>7, <2>2, <5>1, AcceptFails, Zenon
          <6>2. fails = TRUE
            BY <3>1, Zenon
          <6> QED  BY <6>1, <6>2, Zenon
        <5> QED  BY <1>6, <5>2, Zenon
      <4> HIDE DEF e
      <4>2. e.accepted
        BY <4>1, Zenon DEF Core, Common, Control, Linked
      <4> QED  BY <1>3, <3>1, <4>1, <4>2, Zenon
    <3>2. CASE ~fails
      <4>1. /\ Core(e) /\ e.accepted /\ ~e.closed /\ SameStep(p, e.pcb)
            /\ e.pcb.fin = p.fin /\ e.pcb.rcv_nxt = p.rcv_nxt
            /\ e.pcb.right_edge = p.right_edge
            /\ Octets(Queue(e.pcb)) = 0 /\ SendOK(e.pcb)
        BY <1>6, <1>7, <2>2, <3>2, AcceptCore, Zenon
      <4> HIDE DEF e
      <4> QED  BY <1>3, <3>2, <4>1, Zenon DEF SameStep
    <3> QED  BY <3>1, <3>2, Zenon
  <2> HIDE DEF e
  <2>4. IsConn(e) /\ IsPcb(e.pcb) /\ RecvOK(e.pcb) /\ SegmentOK(e.pcb, s)
    BY <1>8, <2>3, ZenonT(30) DEF Core, Common, SegmentOK
  <2>5. Proceeds(e.pcb, r) /\ r.state = e.pcb.state /\ IsPcb(r)
    BY <2>3, <2>4, ReceiveProceeds DEF Proceeds, Takes
  <2> HIDE DEF r
  <2> DEFINE k == Greatest(0, r.recv_acked - 1)
  <2>6. q = [r EXCEPT !.recv_acked = k]
    BY Zenon
  <2>7. /\ IsPcb(q) /\ SameControl(r, q) /\ SameRecv(r, q) /\ SameSend(r, q)
        /\ q.right_edge = r.right_edge /\ q.input = r.input /\ q.recv_flags = r.recv_flags
        /\ q.recv_data = r.recv_data /\ q.recv_acked = k
    <3> HIDE DEF q, k
    <3> QED  BY <2>5, <2>6 DEF IsPcb, SameControl, SameRecv, SameSend, Queue
  <2> HIDE DEF q
  <2>8. Takes(e.pcb, q)
    <3>1. Takes(e.pcb, r)
      BY <2>5, Zenon DEF Proceeds
    <3>2. RecvOK(q)
      BY <2>7, <3>1, Zenon DEF RecvOK, SameRecv, Takes
    <3> QED  BY <2>7, <3>1, <3>2, Zenon DEF Takes, SameControl, SameRecv
  <2>9. IsConn(y) /\ SameConn(e, y) /\ y.pcb = u
    <3> HIDE DEF u
    <3> QED  BY <2>4 DEF IsConn, SameConn, Kept, SameProxy
  <2>10. CASE ~fails
    <3>1. r.recv_acked = 0
      <4>1. Freeing(e.pcb, r)
        BY <2>3, <2>5, <2>10, Zenon DEF Proceeds
      <4>2. Octets(Queue(r)) \in Nat
        BY <4>1, CoveredOctets, Zenon DEF Freeing, SendOK
      <4> QED  BY <2>3, <2>10, <4>1, <4>2 DEF Freeing
    <3>2. k = r.recv_acked
      BY <3>1 DEF Greatest
    <3> HIDE DEF k
    <3>3. SendOK(e.pcb) => Freeing(e.pcb, q)
      BY <2>5, <2>7, <3>2, Zenon DEF Proceeds, Freeing, SameSend, SendOK
    <3>4. Proceeds(e.pcb, q)
      BY <2>5, <2>7, <2>8, <3>3, Zenon DEF Proceeds, SameControl, SameRecv
    <3>5. Proceeds(e.pcb, t) /\ t.state = "CLOSE_WAIT"
      BY <2>7, <3>4, AckNowOutputs, EntersProceeds
    <3>6. t.recv_flags = q.recv_flags
      <4> DEFINE a == tcp_ack_now(q)
      <4>1. Outputs(q, a)
        BY <2>7, AckNowOutputs, Zenon
      <4> HIDE DEF a
      <4>2. [a EXCEPT !.state = "CLOSE_WAIT"].recv_flags = a.recv_flags
        BY <4>1, Zenon DEF Outputs, IsPcb
      <4> QED  BY <4>1, <4>2, Zenon DEF Outputs, SameStep, a
    <3>7. e.pcb.state = "ESTABLISHED"
      BY <2>3, <2>10, Zenon DEF Core, Open
    <3>8. q.state = "ESTABLISHED"
      BY <2>5, <2>7, <3>7, Zenon DEF SameControl
    <3> HIDE DEF t
    <3>9. /\ Proceeds(e.pcb, u)
          /\ u.state = IF "GOT_FIN" \in u.recv_flags THEN "CLOSE_WAIT" ELSE "ESTABLISHED"
      BY <3>4, <3>5, <3>6, <3>8, Zenon
    <3> HIDE DEF u, y
    <3>10. OpenInput(y, y.pcb.recv_acked, y.pcb.recv_data)
      BY <2>3, <2>9, <2>10, <3>9, OpenArrives, Zenon
    <3> QED  BY <1>1, <2>1, <3>10, OpenCallbacks, Zenon
  <2>11. CASE fails
    <3>1. Takes(e.pcb, t) /\ t.state = "CLOSE_WAIT"
      <4> DEFINE a == tcp_ack_now(q)
      <4>1. Outputs(q, a)
        BY <2>7, AckNowOutputs, Zenon
      <4>2. RecvOK(a)
        BY <2>8, <4>1, OutputsRecv, Zenon DEF Takes
      <4> HIDE DEF a
      <4> DEFINE b == [a EXCEPT !.state = "CLOSE_WAIT"]
      <4>3. /\ IsPcb(b) /\ b.state = "CLOSE_WAIT" /\ SameRecv(a, b) /\ SameStep(a, b)
            /\ b.right_edge = a.right_edge /\ b.called = a.called /\ b.rst = a.rst
            /\ b.flags = a.flags
        BY <4>1, Zenon DEF Outputs, IsPcb, SameRecv, SameStep
      <4> HIDE DEF b
      <4>4. RecvOK(b)
        BY <4>2, <4>3, Zenon DEF RecvOK, SameRecv
      <4>5. Takes(e.pcb, b)
        BY <2>8, <4>1, <4>3, <4>4, Zenon DEF Takes, Outputs, SameControl, SameRecv, SameStep
      <4> QED  BY <4>3, <4>5, Zenon DEF a, b
    <3>2. e.pcb.state \in Leaving \cup {"TIME_WAIT"}
      BY <2>3, <2>11, Zenon DEF Core, Closed
    <3>3. q.state \in Leaving \cup {"TIME_WAIT"}
      BY <2>5, <2>7, <3>2, Zenon DEF SameControl
    <3> HIDE DEF t
    <3>4. Takes(e.pcb, u) /\ u.state \in Leaving \cup {"TIME_WAIT"}
      BY <2>8, <3>1, <3>3, Zenon DEF Leaving
    <3> HIDE DEF u, y
    <3>5. ClosedInput(y, y.pcb.recv_data)
      BY <2>3, <2>9, <2>11, <3>4, ClosedArrives, Zenon
    <3> QED  BY <1>1, <2>1, <3>5, ClosedCallbacks, Zenon
  <2> QED  BY <2>10, <2>11, Zenon
<1> QED  BY <1>10, <1>11, Zenon

(* A segment of the console, whatever its place in the stream.             *)
LEMMA SegmentStep ==
  ASSUME SetFacts, GatewayInv, ConsoleSegment
  PROVE  GatewayInv'
<1>1. PICK s \in Segments, w \in Windows, fails \in BOOLEAN :
         /\ fails => c.mode = "direct" /\ c.pcb.state = "SYN_RCVD"
         /\ IF c.pcb.state = "TIME_WAIT"
            THEN c' = Done([Windowed(w) EXCEPT !.pcb = tcp_timewait_input(@, s)])
            ELSE \E cut \in Cuts(s) :
                   c' = Done(tcp_input(Windowed(w), WithCut(s, cut), fails))
  BY Zenon DEF ConsoleSegment
<1> DEFINE d == Windowed(w)
<1>2. /\ Core(d) /\ Idle(d.pcb) /\ IsConn(d) /\ SameConn(c, d) /\ Outputs(c.pcb, d.pcb)
      /\ d.pcb = [c.pcb EXCEPT !.wnd = w]
  BY WindowedCore, Zenon
<1>3. c.pcb.state \notin {"LISTEN", "FREE"}
  BY Zenon DEF ConsoleSegment
<1>4. /\ d.pcb.state = c.pcb.state /\ d.pcb.fin = c.pcb.fin /\ d.pcb.rcv_nxt = c.pcb.rcv_nxt
      /\ d.pcb.right_edge = c.pcb.right_edge /\ d.mode = c.mode
  <2>1. IsPcb(c.pcb)
    BY Zenon DEF GatewayInv, Core, Common
  <2>2. d.pcb.right_edge = c.pcb.right_edge
    <3> DEFINE p == c.pcb
               q == [p EXCEPT !.wnd = w]
    <3>1. q.right_edge = p.right_edge
      <4> HIDE DEF p
      <4> QED  BY <2>1, Zenon DEF IsPcb, p
    <3> QED  BY <1>2, <3>1, Zenon
  <2> QED  BY <1>2, <2>2, Zenon DEF Outputs, SameControl, SameRecv, SameConn, Kept
<1>5. IsPcb(d.pcb) /\ RecvOK(d.pcb) /\ RecvOK(c.pcb)
  BY <1>2, Zenon DEF Core, Common, GatewayInv
<1> HIDE DEF d
<1>6. CASE c.pcb.state = "TIME_WAIT"
  <2> DEFINE q == tcp_timewait_input(d.pcb, s)
  <2>1. c' = Done([d EXCEPT !.pcb = q])
    BY <1>1, <1>6, Zenon DEF d
  <2>2. Quiet(d.pcb, q)
    <3>1. Outputs(d.pcb, tcp_ack_now(d.pcb))
      BY <1>5, AckNowOutputs, Zenon
    <3>2. Outputs(tcp_ack_now(d.pcb), tcp_output(tcp_ack_now(d.pcb)))
      BY <3>1, OutputOutputs, Zenon DEF Outputs
    <3>3. Outputs(d.pcb, tcp_output(tcp_ack_now(d.pcb)))
      BY <3>1, <3>2, OutputsTwice, Zenon
    <3>4. Outputs(d.pcb, d.pcb)
      BY <1>5, OutputsNothing, Zenon
    <3>5. Outputs(d.pcb, q)
      BY <3>3, <3>4, Zenon DEF tcp_timewait_input
    <3> QED  BY <1>5, <3>5, OutputsQuiet, Zenon
  <2> HIDE DEF q
  <2> QED  BY <1>2, <2>1, <2>2, PcbCore, Zenon DEF GatewayInv
<1>7. CASE c.pcb.state # "TIME_WAIT"
  <2>1. PICK cut \in Cuts(s) : c' = Done(tcp_input(d, WithCut(s, cut), fails))
    BY <1>1, <1>7, Zenon DEF d
  <2> DEFINE t == WithCut(s, cut)
  <2>2. /\ IsSegment(t) /\ t.seqno = s.seqno /\ t.len = s.len /\ t.fin = s.fin
    BY Zenon DEF WithCut, IsSegment
  <2> HIDE DEF t
  <2>3. /\ s.seqno \in 1 .. c.pcb.fin + 1 /\ s.len \in 0 .. c.pcb.fin - 1 /\ s.fin \in BOOLEAN
        /\ s.seqno + s.len <= c.pcb.fin + (IF s.len = 0 /\ ~s.fin THEN 1 ELSE 0)
        /\ s.fin => s.seqno + s.len = c.pcb.fin
        /\ TcpLenOf(s) > 0 =>
             \/ s.seqno + TcpLenOf(s) <= c.pcb.right_edge
             \/ TcpLenOf(s) = 1 /\ s.seqno = c.pcb.right_edge /\ c.pcb.rcv_nxt = c.pcb.right_edge
    BY Zenon DEF Segments
  <2>4. c.pcb.fin \in Nat
    BY <1>5, Zenon DEF RecvOK
  <2>5. s.seqno \in Nat \ {0} /\ s.len \in Nat
    BY <2>3, <2>4
  <2>6. TcpLenOf(t) = TcpLenOf(s)
    BY <2>2, Zenon DEF TcpLenOf
  <2>7. TcpLenOf(s) > 0 => s.seqno + TcpLenOf(s) <= c.pcb.fin + 1
    BY <2>3, <2>4, <2>5 DEF TcpLenOf
  <2>8. SegmentOK(d.pcb, t)
    BY <1>4, <2>2, <2>3, <2>5, <2>6, <2>7 DEF SegmentOK
  <2>9. Core(tcp_input(d, t, fails))
    BY <1>1, <1>2, <1>3, <1>4, <1>7, <2>8, InputCore, ZenonT(30)
  <2> QED  BY <2>1, <2>9, DoneCore, Zenon DEF GatewayInv, t
<1> QED  BY <1>6, <1>7, Zenon
-----------------------------------------------------------------------------
(* The listening pcb satisfies the invariant.                              *)
LEMMA InitInv ==
  ASSUME Init
  PROVE  GatewayInv
<1>1. PICK mode \in Modes, up \in 0 .. MaxUp : c = NewConnection(mode, up)
  BY Zenon DEF Init
<1> DEFINE p == c.pcb
<1>2. IsConn(c)
  BY <1>1, Zenon DEF NewConnection, IsConn
<1>3. /\ c.mode = mode /\ c.accepted = FALSE /\ c.closed = FALSE /\ c.read_cb = FALSE
      /\ c.recv_buf = <<>> /\ c.writes = <<>> /\ c.handles = "open" /\ c.closing = FALSE
      /\ c.killed = FALSE /\ c.proxy = "none" /\ c.reading = FALSE /\ c.inflight = FALSE
      /\ c.toRemote = <<>> /\ c.fromRemote = 0 /\ c.wire = <<>> /\ c.released = FALSE
      /\ c.aborted = FALSE /\ c.crashed = FALSE
      /\ p = [NewPcb(up + 1) EXCEPT !.state = "LISTEN"]
  BY <1>1, Zenon DEF NewConnection
<1>4. /\ IsPcb(p) /\ p.state = "LISTEN" /\ p.fin = up + 1 /\ p.rcv_nxt = 1
      /\ p.rcv_wnd = TCP_WND /\ p.rcv_ann_wnd = TCP_WND /\ p.right_edge = 1 /\ p.ooseq = {}
      /\ p.flags = {} /\ p.unsent = {} /\ p.unacked = {} /\ p.snd_lbb = 0
      /\ p.snd_buf = TCP_SND_BUF /\ p.refused = FALSE /\ p.called = FALSE /\ p.input = FALSE
      /\ p.recv_flags = {} /\ p.recv_acked = 0 /\ p.recv_data = <<>>
  <2> HIDE DEF p
  <2> QED  BY <1>3, ZenonT(30) DEF NewPcb, IsPcb
<1> HIDE DEF p
<1>5. up \in Nat /\ TCP_WND \in Nat \ {0} /\ TCP_SND_BUF \in Nat
  BY SizesAreAtLeastOne, LengthsAreNatural
<1>6. RecvOK(p)
  BY <1>4, <1>5 DEF RecvOK
<1>7. SendOK(p) /\ \A s \in Queue(p) : s.len = 0
  <2>1. Queue(p) = {}
    BY <1>4, Zenon DEF Queue
  <2>2. QueueOK({}, 0)
    BY Zenon DEF QueueOK
  <2>3. Octets({}) = 0
    BY <2>2, SetFactsHold, NoOctets, Zenon
  <2> QED  BY <1>4, <1>5, <2>1, <2>2, <2>3 DEF SendOK
<1>8. Len(<<>>) = 0
  BY Zenon
<1>9. Common(c)
  <2>1. Upstream(c)
    BY <1>3, <1>4, <1>5, <1>8 DEF Upstream, p
  <2>2. Control(c)
    BY <1>3, Zenon DEF Control, Reader, Linked
  <2>3. Wire(c) /\ c.mode \in Modes
    BY <1>3, <1>8, LengthsAreNatural DEF Wire, Limit
  <2> QED  BY <1>2, <1>4, <1>6, <2>1, <2>2, <2>3, Zenon DEF Common, p
<1>10. Fresh(c)
  BY <1>3, <1>4, <1>5, <1>7 DEF Fresh, p
<1> QED
  BY <1>3, <1>4, <1>9, <1>10 DEF GatewayInv, Core, Idle, p

(* Every callback of the loop keeps the invariant.                         *)
LEMMA NextInv ==
  ASSUME GatewayInv, [Next]_vars
  PROVE  GatewayInv'
<1>1. CASE UNCHANGED vars
  BY <1>1, Zenon DEF vars, GatewayInv
<1>2. CASE Next
  <2>1. \/ ConsoleSyn \/ ConsoleSegment \/ ConsoleReset \/ tcp_slowtmr \/ tcp_fasttmr
        \/ ReadAsync \/ WriteAsync \/ HandlesClosed
        \/ SocksAnswer \/ SocksFails \/ ProxyConnects \/ ProxyCloses \/ ProxyData
        \/ ProxyWritten \/ release
    BY <1>2, Zenon DEF Next, Loop, Proxy
  <2> QED
    BY <2>1, SetFactsHold, SynStep, SegmentStep, ResetStep, SlowTimerStep, FastTimerStep,
       ReadStep, WriteStep, HandlesStep, SocksStep, ConnectsStep, ClosesStep, DataStep,
       WrittenStep, ReleaseStep
<1> QED  BY <1>1, <1>2, Zenon

(* Every reachable state of a connection through the gateway satisfies the *)
(* inductive invariant, for all sizes of the window, the send buffer and   *)
(* the segments and for streams of any length, though segments are lost,   *)
(* repeated, cut and reordered.                                            *)
THEOREM GatewayStaysSound == Spec => []GatewayInv
BY InitInv, NextInv, PTL DEF Spec

(* What uvl_async_tcp_read_cb gives to the remote end is the beginning of  *)
(* the console's stream, and what uvl_imp_write_to_tcp gives to lwIP is    *)
(* the beginning of the remote end's.                                      *)
THEOREM StreamsStayIntact == Spec => []StreamsIntact
<1>1. GatewayInv => StreamsIntact
  <2> SUFFICES ASSUME Common(c) PROVE StreamsIntact
    BY Zenon DEF GatewayInv, Core
  <2>1. ASSUME NEW s \in Seq(Nat), \A i \in 1 .. Len(s) : s[i] = i
        PROVE  s = [i \in 1 .. Len(s) |-> i]
    BY <2>1
  <2>2. c.toRemote = [i \in 1 .. Len(c.toRemote) |-> i] /\ Len(c.toRemote) < c.pcb.fin
    BY <2>1, Zenon DEF Common, Upstream
  <2>3. c.wire = [i \in 1 .. Len(c.wire) |-> i] /\ Len(c.wire) <= Limit(c)
    BY <2>1, ZenonT(30) DEF Common, Wire
  <2> QED  BY <2>2, <2>3, Zenon DEF StreamsIntact, Limit
<1> QED  BY <1>1, GatewayStaysSound, PTL

(* lwIP's windows and queues, uv_lwip's recv_buf and the octets its        *)
(* requests still wait for agree after every callback; lwIP never has data *)
(* it could not hand over (pcb->refused_data).                             *)
THEOREM BuffersAlwaysAgree == Spec => []BuffersAgree
<1>1. GatewayInv => BuffersAgree
  <2> SUFFICES ASSUME GatewayInv, c.accepted /\ ~c.closed /\ Runs PROVE BuffersAgree
    BY Zenon DEF BuffersAgree
  <2> DEFINE p == c.pcb
             held == Octets(p.unsent \cup p.unacked)
  <2>1. Common(c) /\ Open(c) /\ Downstream(c) /\ RecvOK(p)
    BY Zenon DEF GatewayInv, Core, Common
  <2>2. p.rcv_wnd + Len(c.recv_buf) = TCP_WND /\ ~p.refused /\ p.state = "ESTABLISHED"
    BY <2>1, Zenon DEF Open
  <2>3. p.right_edge <= p.rcv_nxt + p.rcv_wnd
    BY <2>1, Zenon DEF RecvOK
  <2>4. p.ooseq \subseteq p.rcv_nxt + 1 .. p.rcv_nxt + p.rcv_wnd - 1
    <3>1. p.ooseq \subseteq p.rcv_nxt + 1 .. Least(p.fin, p.rcv_nxt + p.rcv_wnd - 1)
      BY <2>1, Zenon DEF RecvOK
    <3>2. p.fin \in Nat /\ p.rcv_nxt \in Nat /\ p.rcv_wnd \in Nat
      BY <2>1, SizesAreAtLeastOne DEF RecvOK
    <3> HIDE DEF p
    <3>3. /\ Least(p.fin, p.rcv_nxt + p.rcv_wnd - 1) <= p.rcv_nxt + p.rcv_wnd - 1
          /\ Least(p.fin, p.rcv_nxt + p.rcv_wnd - 1) \in Int
      BY <3>2 DEF Least
    <3> QED  BY <3>1, <3>2, <3>3
  <2>5. /\ held + p.snd_buf = TCP_SND_BUF
        /\ held = IF c.writes = <<>> THEN 0 ELSE c.writes[1].pending
    BY <2>1, Zenon DEF Downstream, SendOK, Queue, Pending
  <2>6. Len(c.writes) <= 1
    <3>1. CASE c.writes = <<>>
      BY <3>1
    <3>2. CASE c.writes # <<>>
      <4>1. PICK r : c.writes = <<r>>
        BY <2>1, <3>2, Zenon DEF Downstream, Requests
      <4> QED  BY <4>1
    <3> QED  BY <3>1, <3>2, Zenon
  <2>7. c.reading => held = 0 /\ Len(c.wire) = c.fromRemote
    <3>1. c.reading => c.writes = <<>> /\ c.mode # "fake"
      BY <2>1, Zenon DEF Downstream, Requests, Common, Control, Linked
    <3>2. c.reading => Len(c.wire) = Limit(c)
      BY <2>1, <3>1, Zenon DEF Downstream, Requests
    <3>3. c.reading => Limit(c) = c.fromRemote
      BY <3>1, ZenonT(30) DEF Limit
    <3> HIDE DEF held
    <3> QED  BY <2>5, <3>1, <3>2, <3>3, Zenon
  <2> QED  BY <2>2, <2>3, <2>4, <2>5, <2>6, <2>7 DEF BuffersAgree
<1> QED  BY <1>1, GatewayStaysSound, PTL

(* No assertion of uv_lwip or of the gateway fails. Only a release in the  *)
(* middle of a SOCKS5 handshake meets a proxy that is not there.           *)
THEOREM AssertionsHold == Spec => []NoAssertFails
<1>1. GatewayInv => NoAssertFails
  BY Zenon DEF GatewayInv, Core, Common, Control, Linked, NoAssertFails
<1> QED  BY <1>1, GatewayStaysSound, PTL

(* A connection that ends by FIN has passed on every octet it had          *)
(* acknowledged: tcp_close_shutdown answers octets nobody took by a reset. *)
THEOREM NothingIsLost == Spec => []OrderlyEndLosesNothing
<1>1. GatewayInv => OrderlyEndLosesNothing
  BY Zenon DEF GatewayInv, Core, Closed, Complete, OrderlyEndLosesNothing
<1> QED  BY <1>1, GatewayStaysSound, PTL
=============================================================================
