---------------------------- MODULE PcbInvariant ----------------------------
(***************************************************************************)
(* What lwIP keeps true of a pcb (LwipTcp), and what its functions may     *)
(* change of one.  LwipTcpProofs shows that they keep to it;               *)
(* GatewayInvariant is built from it.                                      *)
(***************************************************************************)
EXTENDS LwipTcp

(* What the proofs use of numbers and of finite sets.  The lemmas that     *)
(* need it name it, and GatewayProofs shows it from the library's          *)
(* theorems, whose many facts are then in scope of its own steps only.     *)
SetFacts ==
    /\ \A S \in SUBSET Nat : S # {} => \E i \in S : \A j \in S : i <= j
    /\ \A a, b \in Int : /\ IsFiniteSet(a .. b)
                         /\ Cardinality(a .. b) = IF a > b THEN 0 ELSE b - a + 1
    /\ Cardinality({}) = 0
    /\ \A S : IsFiniteSet(S) =>
           /\ Cardinality(S) \in Nat /\ (Cardinality(S) = 0 <=> S = {})
           /\ \A T \in SUBSET S : IsFiniteSet(T)
    /\ \A S, T : IsFiniteSet(S) /\ IsFiniteSet(T) =>
           Cardinality(S \cup T) = Cardinality(S) + Cardinality(T) - Cardinality(S \cap T)

(* A pcb, and a connection, have these fields.                             *)
IsPcb(p) ==
    p \in [state : {p.state}, fin : {p.fin}, rcv_nxt : {p.rcv_nxt}, rcv_wnd : {p.rcv_wnd},
           rcv_ann_wnd : {p.rcv_ann_wnd}, right_edge : {p.right_edge}, ooseq : {p.ooseq},
           flags : {p.flags}, unsent : {p.unsent}, unacked : {p.unacked},
           snd_nxt : {p.snd_nxt}, lastack : {p.lastack}, snd_lbb : {p.snd_lbb},
           snd_buf : {p.snd_buf}, refused : {p.refused}, called : {p.called}, rst : {p.rst},
           input : {p.input}, wnd : {p.wnd}, recv_flags : {p.recv_flags},
           recv_acked : {p.recv_acked}, recv_data : {p.recv_data}]
-----------------------------------------------------------------------------
(* What acknowledgements and output leave alone.                           *)

(* The segments lwIP holds.                                                *)
Queue(p) == p.unsent \cup p.unacked

(* The state, and what decides about callbacks and the close.              *)
SameControl(p, q) ==
    /\ q.state = p.state /\ q.refused = p.refused /\ q.called = p.called /\ q.rst = p.rst
    /\ "RXCLOSED" \in q.flags <=> "RXCLOSED" \in p.flags

(* What tcp_input passes on to its callbacks.                              *)
SameStep(p, q) ==
    /\ q.input = p.input /\ q.recv_flags = p.recv_flags
    /\ q.recv_acked = p.recv_acked /\ q.recv_data = p.recv_data

(* The receiving side.                                                     *)
SameRecv(p, q) ==
    /\ q.fin = p.fin /\ q.rcv_nxt = p.rcv_nxt /\ q.rcv_wnd = p.rcv_wnd
    /\ q.rcv_ann_wnd = p.rcv_ann_wnd /\ q.ooseq = p.ooseq

(* The sending side, but for which segments are on their way.              *)
SameSend(p, q) ==
    Queue(q) = Queue(p) /\ q.snd_lbb = p.snd_lbb /\ q.snd_buf = p.snd_buf

(* q is p after some output.                                               *)
Outputs(p, q) ==
    /\ IsPcb(q) /\ SameControl(p, q) /\ SameStep(p, q) /\ SameRecv(p, q) /\ SameSend(p, q)
    /\ q.right_edge \in {p.right_edge, p.rcv_nxt + p.rcv_ann_wnd}
-----------------------------------------------------------------------------
(* The receive window: what is promised and what is queued are inside it.  *)

RecvOK(p) ==
    /\ p.fin \in Nat /\ p.rcv_nxt \in 1 .. p.fin + 1 /\ p.rcv_wnd \in 0 .. TCP_WND
    /\ p.rcv_ann_wnd \in 0 .. p.rcv_wnd
    /\ p.right_edge \in Nat /\ p.right_edge <= p.rcv_nxt + p.rcv_wnd
    /\ p.ooseq \subseteq p.rcv_nxt + 1 .. Least(p.fin, p.rcv_nxt + p.rcv_wnd - 1)

(* The fields tcp_update_rcv_ann_wnd and its callers leave alone.          *)
SameOutside(p, q) ==
    /\ IsPcb(q) /\ SameControl(p, q) /\ SameSend(p, q)
    /\ q.input = p.input /\ q.recv_acked = p.recv_acked /\ q.fin = p.fin
-----------------------------------------------------------------------------
(* The octets of a segment.                                                *)

(* A segment a console sends: part of its stream, inside what the window   *)
(* promised or at the next octet.                                          *)
IsSegment(s) ==
    s \in [seqno : {s.seqno}, len : {s.len}, fin : {s.fin}, ackno : {s.ackno},
           dup3 : {s.dup3}, cut : {s.cut}]

(* It carries octets of the stream, as the window allowed them.            *)
SegmentOK(p, s) ==
    /\ IsSegment(s) /\ s.seqno \in Nat \ {0} /\ s.len \in Nat /\ s.fin \in BOOLEAN
    /\ TcpLenOf(s) > 0 =>
         /\ s.seqno + TcpLenOf(s) <= p.fin + 1
         /\ s.seqno + TcpLenOf(s) <= p.right_edge \/ s.seqno = p.rcv_nxt

(* What tcp_receive makes of the octets: the ones from rcv_nxt up to the   *)
(* new rcv_nxt, and the FIN when it is one of them.                        *)
Received(p, q) ==
    /\ SameOutside(p, q) /\ RecvOK(q)
    /\ q.rcv_nxt >= p.rcv_nxt /\ q.rcv_nxt + q.rcv_wnd = p.rcv_nxt + p.rcv_wnd
    /\ q.recv_data \in Seq(Nat)
    /\ Len(q.recv_data) = Least(q.rcv_nxt, p.fin) - Least(p.rcv_nxt, p.fin)
    /\ \A i \in 1 .. Len(q.recv_data) : q.recv_data[i] = p.rcv_nxt + i - 1
    /\ q.recv_flags = IF q.rcv_nxt > p.rcv_nxt /\ q.rcv_nxt > p.fin THEN {"GOT_FIN"} ELSE {}
-----------------------------------------------------------------------------
(* The queues of segments to the console.                                  *)

(* The segments to the console.                                            *)
Segs == [seqno : Nat, len : 0 .. TCP_MSS, flag : {"none", "SYN", "FIN"}]

(* The segments of Q do not overlap and end before b.                      *)
QueueOK(Q, b) ==
    /\ Q \subseteq Segs /\ b \in Nat
    /\ \A s \in Q : TcpLen(s) \in Nat \ {0} /\ s.seqno + TcpLen(s) <= b
    /\ \A s, t \in Q : s # t => s.seqno + s.len <= t.seqno \/ t.seqno + t.len <= s.seqno

(* The octets the segments carry.                                          *)
Covered(Q) == UNION {s.seqno .. s.seqno + s.len - 1 : s \in Q}

(* The segments are filled, or without octets.                             *)
Full(Q) == \A s \in Q : s.len \in {0, TCP_MSS}

(* n octets fill segments.                                                 *)
Whole(n) == \E k \in Nat : n = k * TCP_MSS
-----------------------------------------------------------------------------
(* The send buffer is what the queues leave of it.                         *)
SendOK(p) ==
    /\ QueueOK(Queue(p), p.snd_lbb) /\ p.snd_buf \in Nat
    /\ Octets(Queue(p)) + p.snd_buf = TCP_SND_BUF

(* An acknowledgement frees what it covers.                                *)
Freeing(p, q) ==
    /\ SendOK(q) /\ Queue(q) \subseteq Queue(p) /\ q.snd_lbb = p.snd_lbb
    /\ q.recv_acked \in Nat /\ q.snd_buf = p.snd_buf + q.recv_acked
    /\ Octets(Queue(p)) = Octets(Queue(q)) + q.recv_acked
    /\ Full(Queue(p)) => Whole(q.recv_acked)
-----------------------------------------------------------------------------
(* tcp_process.                                                            *)

(* The octets a segment brought are handed to the application.             *)
Takes(p, q) ==
    /\ IsPcb(q) /\ RecvOK(q) /\ q.fin = p.fin /\ q.input = p.input
    /\ q.called = p.called /\ q.rst = p.rst
    /\ "RXCLOSED" \in q.flags <=> "RXCLOSED" \in p.flags
    /\ q.recv_data \in Seq(Nat)
    /\ Len(q.recv_data) = Least(q.rcv_nxt, p.fin) - Least(p.rcv_nxt, p.fin)

(* The connection goes on, or the FIN ends it.                             *)
Proceeds(p, q) ==
    /\ Takes(p, q) /\ q.refused = p.refused
    /\ q.rcv_nxt >= p.rcv_nxt /\ q.rcv_nxt + q.rcv_wnd = p.rcv_nxt + p.rcv_wnd
    /\ \A i \in 1 .. Len(q.recv_data) : q.recv_data[i] = p.rcv_nxt + i - 1
    /\ q.recv_flags = IF q.rcv_nxt > p.rcv_nxt /\ q.rcv_nxt > p.fin THEN {"GOT_FIN"} ELSE {}
    /\ SendOK(p) => Freeing(p, q)

(* The states of a connection that one side has closed.                    *)
Leaving == {"CLOSE_WAIT", "FIN_WAIT_1", "FIN_WAIT_2", "CLOSING", "LAST_ACK"}
-----------------------------------------------------------------------------
(* tcp_write.                                                              *)

(* The segments tcp_write makes of n octets from b on, when it extends     *)
(* none.                                                                   *)
Chunks(b, n) ==
    {[seqno |-> b + 0 + k * TCP_MSS, len |-> Least(TCP_MSS, n - 0 - k * TCP_MSS),
      flag |-> "none"] : k \in {i \in 0 .. n : i * TCP_MSS < n - 0}}
-----------------------------------------------------------------------------
(* The timers, the SYN and the close.                                      *)

(* What tcp_close makes of a connection.                                   *)
Ended(p, q) ==
    /\ IsPcb(q) /\ RecvOK(q) /\ ~q.called /\ q.fin = p.fin /\ q.rcv_nxt = p.rcv_nxt
    /\ q.state \in Leaving \cup {"TIME_WAIT", "FREE"}
    /\ q.state = "FREE" \/ "RXCLOSED" \in q.flags
    /\ p.input => /\ q.state # "FREE" /\ q.recv_data = p.recv_data /\ q.input
                  /\ q.state # "CLOSE_WAIT" => q.recv_flags = p.recv_flags
                  /\ q.right_edge = p.right_edge
    /\ p.state = "ESTABLISHED" => q.state # "CLOSE_WAIT"
    /\ q.rst \/ p.rcv_wnd = TCP_WND
=============================================================================
