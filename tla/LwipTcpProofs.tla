--------------------------- MODULE LwipTcpProofs ----------------------------
(***************************************************************************)
(* The functions of LwipTcp map a pcb to a pcb.  What they do to the       *)
(* receive window and to the queues, for every size of lwIP's window, send *)
(* buffer and segments.  A lemma is about one function, in the order of    *)
(* the code from the inside out.                                           *)
(***************************************************************************)
EXTENDS PcbInvariant, TLAPS

(* Time limits of the provers, for the many facts in scope.                *)
USE SMTT(20), ZenonT(30)

-----------------------------------------------------------------------------
(* What acknowledgements and output leave alone.                           *)

(* Announcing the window moves right_edge and nothing else that counts.    *)
LEMMA AnnouncedOutputs ==
  ASSUME NEW p, IsPcb(p)
  PROVE  Outputs(p, Announced(p))
<1>1. IsPcb(Announced(p))
  BY Zenon DEF Announced, IsPcb
<1> QED
  BY <1>1 DEF Announced, IsPcb, Outputs, SameControl, SameStep, SameRecv, SameSend, Queue

(* tcp_ack marks an acknowledgement as due.                                *)
LEMMA AckOutputs ==
  ASSUME NEW p, IsPcb(p)
  PROVE  Outputs(p, tcp_ack(p))
BY Zenon DEF tcp_ack, IsPcb, Outputs, SameControl, SameStep, SameRecv, SameSend, Queue

(* tcp_ack_now does, too.                                                  *)
LEMMA AckNowOutputs ==
  ASSUME NEW p, IsPcb(p)
  PROVE  Outputs(p, tcp_ack_now(p))
BY Zenon DEF tcp_ack_now, IsPcb, Outputs, SameControl, SameStep, SameRecv, SameSend, Queue

(* To send nothing is one way to output.                                   *)
LEMMA OutputsNothing ==
  ASSUME NEW p, IsPcb(p)
  PROVE  Outputs(p, p)
BY Zenon DEF Outputs, SameControl, SameStep, SameRecv, SameSend

(* Two outputs are one.                                                    *)
LEMMA OutputsTwice ==
  ASSUME NEW p, NEW q, NEW r, Outputs(p, q), Outputs(q, r)
  PROVE  Outputs(p, r)
BY Zenon DEF Outputs, SameControl, SameStep, SameRecv, SameSend

(* tcp_output moves segments from unsent to unacked: the queue as a whole  *)
(* is unchanged, and right_edge is what is announced.                      *)
LEMMA OutputOutputs ==
  ASSUME NEW p, IsPcb(p)
  PROVE  Outputs(p, tcp_output(p))
<1> DEFINE go == {s \in p.unsent : \A t \in p.unsent :
                    t.seqno <= s.seqno => Fits(p, t) /\ tcp_do_output_nagle(p, t)}
           a == Announced(p)
           edge == Greatest(a.snd_nxt, Hindmost(go).seqno + TcpLen(Hindmost(go)))
           q == [a EXCEPT !.unsent = @ \ go, !.unacked = @ \cup go, !.snd_nxt = edge]
<1>1. tcp_output(p) \in {p, a, q}
  BY Zenon DEF tcp_output, tcp_send_empty_ack
<1>2. Outputs(p, a)
  BY AnnouncedOutputs, Zenon
<1>3. go \subseteq p.unsent
  BY Zenon
<1>4. a.unsent = p.unsent /\ a.unacked = p.unacked
  BY Zenon DEF Announced, IsPcb
<1> HIDE DEF go, edge, a
<1>5. IsPcb(q)
  BY <1>2, Zenon DEF Outputs, IsPcb
<1>6. Outputs(a, q)
  <2>1. Queue(q) = Queue(a)
    BY <1>2, <1>3, <1>4, Zenon DEF Outputs, IsPcb, Queue
  <2> QED
    BY <1>2, <1>5, <2>1 DEF Outputs, IsPcb, SameControl, SameStep, SameRecv, SameSend
<1> HIDE DEF q
<1> QED
  BY <1>1, <1>2, <1>6, OutputsTwice, OutputsNothing
-----------------------------------------------------------------------------
(* The receive window: what is promised and what is queued are inside it.  *)

(* Output keeps the receive window consistent.                             *)
LEMMA OutputsRecv ==
  ASSUME NEW p, NEW q, RecvOK(p), Outputs(p, q)
  PROVE  RecvOK(q)
BY DEF RecvOK, Outputs, SameRecv

(* Two such steps are one.                                                 *)
LEMMA SameOutsideTwice ==
  ASSUME NEW p, NEW q, NEW r, SameOutside(p, q), SameOutside(q, r)
  PROVE  SameOutside(p, r)
BY Zenon DEF SameOutside, SameControl, SameSend

(* Output is such a step.                                                  *)
LEMMA OutputsOutside ==
  ASSUME NEW p, NEW q, Outputs(p, q)
  PROVE  SameOutside(p, q)
BY Zenon DEF SameOutside, Outputs, SameStep, SameRecv

(* The window may be announced anew when it is not below what was promised. *)
LEMMA UpdateAnnounces ==
  ASSUME NEW p, IsPcb(p), p.rcv_nxt \in Nat, p.rcv_wnd \in Nat, p.right_edge \in Nat,
         p.right_edge <= p.rcv_nxt + p.rcv_wnd
  PROVE  LET q == tcp_update_rcv_ann_wnd(p)
         IN  /\ SameOutside(p, q) /\ SameStep(p, q)
             /\ q.rcv_nxt = p.rcv_nxt /\ q.rcv_wnd = p.rcv_wnd /\ q.ooseq = p.ooseq
             /\ q.right_edge = p.right_edge /\ q.rcv_ann_wnd \in 0 .. q.rcv_wnd
<1> DEFINE w == IF p.rcv_nxt + p.rcv_wnd >= p.right_edge + Least(TCP_WND \div 2, TCP_MSS)
                THEN p.rcv_wnd ELSE Greatest(0, p.right_edge - p.rcv_nxt)
           q == [p EXCEPT !.rcv_ann_wnd = w]
<1>1. w \in 0 .. p.rcv_wnd
  BY DEF Greatest
<1>2. tcp_update_rcv_ann_wnd(p) = q
  BY Zenon DEF tcp_update_rcv_ann_wnd
<1> HIDE DEF w
<1> QED
  BY <1>1, <1>2 DEF IsPcb, SameOutside, SameControl, SameSend, SameStep, Queue

(* What the application takes makes room.                                  *)
LEMMA RecvedRecv ==
  ASSUME NEW p, IsPcb(p), RecvOK(p), NEW n \in Nat, p.rcv_wnd + n <= TCP_WND
  PROVE  LET q == tcp_recved(p, n)
         IN  /\ SameOutside(p, q) /\ SameStep(p, q) /\ RecvOK(q)
             /\ q.rcv_nxt = p.rcv_nxt /\ q.rcv_wnd = p.rcv_wnd + n
<1> DEFINE m == [p EXCEPT !.rcv_wnd = Least(@ + n, TCP_WND)]
           q == tcp_update_rcv_ann_wnd(m)
           r == tcp_output(tcp_ack_now(q))
<1>1. Least(p.rcv_wnd + n, TCP_WND) = p.rcv_wnd + n
  BY SizesAreAtLeastOne DEF Least, RecvOK
<1>2. /\ SameOutside(p, m) /\ SameStep(p, m) /\ m.rcv_nxt = p.rcv_nxt /\ m.ooseq = p.ooseq
      /\ m.rcv_wnd = p.rcv_wnd + n /\ m.right_edge = p.right_edge
  BY <1>1, Zenon DEF IsPcb, SameOutside, SameControl, SameSend, SameStep, Queue
<1>3. tcp_recved(p, n) \in {q, r}
  BY Zenon DEF tcp_recved
<1> HIDE DEF m
<1>4. /\ m.rcv_nxt \in Nat /\ m.rcv_wnd \in Nat /\ m.right_edge \in Nat
      /\ m.right_edge <= m.rcv_nxt + m.rcv_wnd /\ IsPcb(m)
  BY <1>2 DEF RecvOK, SameOutside
<1>5. /\ SameOutside(m, q) /\ SameStep(m, q) /\ q.rcv_nxt = m.rcv_nxt
      /\ q.rcv_wnd = m.rcv_wnd /\ q.ooseq = m.ooseq /\ q.right_edge = m.right_edge
      /\ q.rcv_ann_wnd \in 0 .. q.rcv_wnd
  BY <1>4, UpdateAnnounces, Zenon
<1> HIDE DEF q
<1>6. SameOutside(p, q) /\ SameStep(p, q)
  BY <1>2, <1>5, SameOutsideTwice, Zenon DEF SameStep
<1>7. RecvOK(q)
  BY <1>2, <1>5, <1>6 DEF RecvOK, SameOutside, Least
<1>8. Outputs(q, r)
  <2>1. IsPcb(q)
    BY <1>6, Zenon DEF SameOutside
  <2>2. Outputs(q, tcp_ack_now(q))
    BY <2>1, AckNowOutputs, Zenon
  <2>3. IsPcb(tcp_ack_now(q))
    BY <2>2, Zenon DEF Outputs
  <2> QED  BY <2>2, <2>3, OutputOutputs, OutputsTwice, Zenon
<1> HIDE DEF r
<1>9. SameOutside(p, r) /\ SameStep(p, r) /\ RecvOK(r)
  BY <1>6, <1>7, <1>8, OutputsOutside, OutputsRecv, SameOutsideTwice, Zenon DEF SameStep, Outputs
<1>10. r.rcv_nxt = q.rcv_nxt /\ r.rcv_wnd = q.rcv_wnd
  BY <1>8, Zenon DEF Outputs, SameRecv
<1> QED
  BY <1>2, <1>3, <1>5, <1>6, <1>7, <1>9, <1>10, Zenon
-----------------------------------------------------------------------------
(* The octets of a segment.                                                *)

(* A set of numbers that is not empty has a least member.                  *)
LEMMA LeastMember ==
  ASSUME SetFacts, NEW S, S \subseteq Nat, S # {}
  PROVE  \E i \in S : \A j \in S : i <= j
BY Zenon DEF SetFacts

(* Output alone receives nothing.                                          *)
LEMMA ReceivedNothing ==
  ASSUME NEW p, NEW q, RecvOK(p), Outputs(p, q), p.recv_flags = {}, p.recv_data = <<>>
  PROVE  Received(p, q)
<1>1. SameOutside(p, q) /\ RecvOK(q)
  BY OutputsOutside, OutputsRecv, Zenon
<1>2. q.recv_data = <<>> /\ q.recv_flags = {}
  BY Zenon DEF Outputs, SameStep
<1>3. q.rcv_nxt = p.rcv_nxt /\ q.rcv_wnd = p.rcv_wnd
  BY Zenon DEF Outputs, SameRecv
<1>4. Least(p.rcv_nxt, p.fin) \in Int
  BY DEF Least, RecvOK
<1>5. Len(q.recv_data) = Least(q.rcv_nxt, p.fin) - Least(p.rcv_nxt, p.fin)
  BY <1>2, <1>3, <1>4
<1>6. /\ q.recv_data \in Seq(Nat)
      /\ \A i \in 1 .. Len(q.recv_data) : q.recv_data[i] = p.rcv_nxt + i - 1
  BY <1>2
<1>7. p.rcv_nxt \in Nat /\ p.rcv_wnd \in Nat
  BY DEF RecvOK
<1>8. q.rcv_nxt >= p.rcv_nxt /\ ~(q.rcv_nxt > p.rcv_nxt)
  BY <1>3, <1>7
<1> QED  BY <1>1, <1>2, <1>3, <1>5, <1>6, <1>8, Zenon DEF Received

(* The end of what is in sequence.                                         *)
LEMMA NextMissing ==
  ASSUME SetFacts, NEW end \in Nat, NEW have, NEW limit \in Nat, limit \notin have,
         end <= limit, limit <= end + TCP_WND
  PROVE  LET nxt == CHOOSE x \in end .. end + TCP_WND :
                      x \notin have /\ end .. x - 1 \subseteq have
         IN  /\ nxt \in end .. limit /\ nxt \notin have /\ end .. nxt - 1 \subseteq have
<1> DEFINE S == {x \in end .. end + TCP_WND : x \notin have}
<1>1. TCP_WND \in Nat
  BY SizesAreAtLeastOne, Zenon
<1>2. limit \in S /\ S \subseteq Nat
  BY <1>1
<1>3. PICK m \in S : \A j \in S : m <= j
  BY <1>2, LeastMember, Zenon
<1>4. end .. m - 1 \subseteq have
  BY <1>1, <1>3
<1>5. \E x \in end .. end + TCP_WND : x \notin have /\ end .. x - 1 \subseteq have
  BY <1>3, <1>4, Zenon
<1> DEFINE nxt == CHOOSE x \in end .. end + TCP_WND :
                    x \notin have /\ end .. x - 1 \subseteq have
<1>6. nxt \in end .. end + TCP_WND /\ nxt \notin have /\ end .. nxt - 1 \subseteq have
  BY <1>5, Zenon
<1> HIDE DEF nxt
<1>7. nxt <= limit
  BY <1>1, <1>6
<1> QED  BY <1>1, <1>6, <1>7 DEF nxt

(* The octets of an interval, as a sequence.                               *)
LEMMA Consecutive ==
  ASSUME NEW a \in Nat \ {0}, NEW n \in Nat
  PROVE  LET data == [i \in 1 .. n |-> a + i - 1]
         IN  /\ data \in Seq(Nat) /\ Len(data) = n
             /\ \A i \in 1 .. Len(data) : data[i] = a + i - 1
<1> DEFINE data == [i \in 1 .. n |-> a + i - 1]
<1>1. \A i \in 1 .. n : a + i - 1 \in Nat
  OBVIOUS
<1>2. data \in Seq(Nat) /\ Len(data) = n
  BY <1>1
<1> QED  BY <1>2, Zenon

(* ReceiveInOrder takes what fits of the segment, and with it whatever     *)
(* ooseq has next, and never the FIN before the octets ahead of it.        *)
LEMMA InOrderReceives ==
  ASSUME SetFacts, NEW p, NEW s, IsPcb(p), RecvOK(p), p.recv_flags = {}, p.rcv_wnd > 0,
         s.seqno = p.rcv_nxt, TcpLenOf(s) \in Nat \ {0}, s.seqno + TcpLenOf(s) <= p.fin + 1
  PROVE  Received(p, ReceiveInOrder(p, s))
<1> DEFINE end == Least(s.seqno + TcpLenOf(s), p.rcv_nxt + p.rcv_wnd)
           have == (p.rcv_nxt .. end - 1) \cup p.ooseq
           nxt == CHOOSE x \in end .. end + TCP_WND :
                    x \notin have /\ end .. x - 1 \subseteq have
           last == Least(nxt, p.fin)
           data == [i \in 1 .. last - p.rcv_nxt |-> p.rcv_nxt + i - 1]
           flags == IF nxt > p.fin THEN p.recv_flags \cup {"GOT_FIN"} ELSE p.recv_flags
           wnd == p.rcv_wnd - (nxt - p.rcv_nxt)
           q == [p EXCEPT !.rcv_nxt = nxt, !.rcv_wnd = wnd,
                          !.ooseq = {x \in @ : x > nxt}, !.recv_data = data,
                          !.recv_flags = flags]
           r == tcp_update_rcv_ann_wnd(q)
           limit == p.rcv_nxt + p.rcv_wnd
<1>1. /\ end \in p.rcv_nxt + 1 .. limit /\ limit <= end + TCP_WND /\ end <= p.fin + 1
      /\ limit \in Nat /\ p.rcv_nxt \in Nat \ {0} /\ p.fin \in Nat /\ p.rcv_nxt <= p.fin
  BY SizesAreAtLeastOne DEF Least, RecvOK
<1>2. limit \notin have
  BY <1>1 DEF RecvOK, Least
<1>3. have \subseteq 1 .. p.fin
  BY <1>1 DEF RecvOK, Least
<1> HIDE DEF end, have
<1>4. nxt \in end .. limit /\ nxt \notin have /\ end .. nxt - 1 \subseteq have
  BY <1>1, <1>2, NextMissing
<1>5. ReceiveInOrder(p, s) = tcp_ack(r)
  BY Zenon DEF ReceiveInOrder, end, have
<1> HIDE DEF nxt, limit
<1>6. nxt \in Nat /\ nxt > p.rcv_nxt /\ nxt <= p.fin + 1 /\ nxt <= limit
  <2>1. nxt \in Nat /\ nxt > p.rcv_nxt /\ nxt <= limit
    BY <1>1, <1>4
  <2>2. nxt = end \/ nxt - 1 \in have
    BY <1>1, <1>4
  <2> QED  BY <1>1, <1>3, <2>1, <2>2
<1>7. /\ data \in Seq(Nat) /\ Len(data) = last - p.rcv_nxt
      /\ \A i \in 1 .. Len(data) : data[i] = p.rcv_nxt + i - 1
  <2>1. last - p.rcv_nxt \in Nat
    BY <1>1, <1>6 DEF Least
  <2> HIDE DEF last
  <2> QED  BY <1>1, <2>1, Consecutive, Zenon
<1>8. wnd \in 0 .. TCP_WND /\ wnd \in Nat /\ nxt + wnd = p.rcv_nxt + p.rcv_wnd
  BY <1>1, <1>6, SizesAreAtLeastOne DEF RecvOK, limit
<1> HIDE DEF data, wnd, flags
<1>9. SameOutside(p, q)
  <2>1. IsPcb(q)
    BY Zenon DEF IsPcb
  <2> QED
    BY <2>1, Zenon DEF IsPcb, SameOutside, SameControl, SameSend, Queue
<1>10. /\ q.rcv_nxt = nxt /\ q.rcv_wnd = wnd /\ q.ooseq = {x \in p.ooseq : x > nxt}
       /\ q.recv_data = data /\ q.recv_flags = flags /\ q.right_edge = p.right_edge
  BY Zenon DEF IsPcb
<1> HIDE DEF q
<1>11. /\ SameOutside(q, r) /\ SameStep(q, r) /\ r.rcv_nxt = nxt /\ r.rcv_wnd = wnd
       /\ r.ooseq = q.ooseq /\ r.right_edge = q.right_edge /\ r.rcv_ann_wnd \in 0 .. r.rcv_wnd
  <2>1. /\ IsPcb(q) /\ q.rcv_nxt \in Nat /\ q.rcv_wnd \in Nat /\ q.right_edge \in Nat
        /\ q.right_edge <= q.rcv_nxt + q.rcv_wnd
    BY <1>6, <1>8, <1>9, <1>10, Zenon DEF RecvOK, SameOutside
  <2> QED  BY <1>10, <2>1, UpdateAnnounces, Zenon
<1> HIDE DEF r
<1>12. SameOutside(p, r)
  BY <1>9, <1>11, SameOutsideTwice, Zenon
<1>13. RecvOK(r)
  <2>1. r.ooseq \subseteq r.rcv_nxt + 1 .. Least(r.fin, r.rcv_nxt + r.rcv_wnd - 1)
    BY <1>1, <1>6, <1>8, <1>10, <1>11, <1>12 DEF RecvOK, SameOutside, Least
  <2> QED
    BY <1>1, <1>6, <1>8, <1>10, <1>11, <1>12, <2>1 DEF RecvOK, SameOutside
<1>14. Outputs(r, tcp_ack(r))
  BY <1>12, AckOutputs, Zenon DEF SameOutside
<1> DEFINE t == tcp_ack(r)
<1>15. SameOutside(p, t) /\ RecvOK(t)
  BY <1>12, <1>13, <1>14, OutputsOutside, OutputsRecv, SameOutsideTwice, Zenon
<1>16. t.rcv_nxt = nxt /\ t.rcv_wnd = wnd /\ t.recv_data = data /\ t.recv_flags = flags
  BY <1>10, <1>11, <1>14, Zenon DEF Outputs, SameRecv, SameStep
<1>17. Least(p.rcv_nxt, p.fin) = p.rcv_nxt
  BY <1>1 DEF Least
<1>18. flags = IF nxt > p.rcv_nxt /\ nxt > p.fin THEN {"GOT_FIN"} ELSE {}
  BY <1>6, Zenon DEF flags
<1> HIDE DEF t
<1>19. Received(p, t)
  BY <1>1, <1>6, <1>7, <1>8, <1>15, <1>16, <1>17, <1>18 DEF Received
<1> QED  BY <1>5, <1>19, Zenon DEF t

(* ReceiveOutOfOrder puts the octets of a segment beyond rcv_nxt into      *)
(* ooseq, inside the window and not beyond the FIN.                        *)
LEMMA OutOfOrderReceives ==
  ASSUME NEW p, NEW s, IsPcb(p), RecvOK(p), p.recv_flags = {}, p.recv_data = <<>>,
         s.seqno \in Nat, s.seqno > p.rcv_nxt, TcpLenOf(s) \in Nat,
         s.seqno + TcpLenOf(s) <= p.fin + 1, s.seqno + TcpLenOf(s) <= p.right_edge
  PROVE  Received(p, ReceiveOutOfOrder(p, s))
<1> DEFINE a == tcp_send_empty_ack(p)
           all == p.ooseq \cup (s.seqno .. s.seqno + TcpLenOf(s) - 1)
           kept == IF a.ooseq = {} THEN all ELSE all \ s.cut
           q == [a EXCEPT !.ooseq = kept]
<1>1. ReceiveOutOfOrder(p, s) = q
  BY Zenon DEF ReceiveOutOfOrder
<1>2. Outputs(p, a)
  BY AnnouncedOutputs, Zenon DEF tcp_send_empty_ack
<1>3. all \subseteq p.rcv_nxt + 1 .. Least(p.fin, p.rcv_nxt + p.rcv_wnd - 1)
  <2> DEFINE e == s.seqno + TcpLenOf(s)
             f == p.rcv_nxt + p.rcv_wnd
  <2> HIDE DEF a, all, kept, q
  <2>1. /\ p.rcv_nxt \in Nat /\ p.rcv_wnd \in Nat /\ p.fin \in Nat
        /\ p.right_edge \in Nat /\ p.right_edge <= f
    BY SizesAreAtLeastOne DEF RecvOK
  <2>2. f \in Nat
    BY <2>1
  <2>3. e \in Nat /\ e <= p.fin + 1 /\ e <= p.right_edge
    OBVIOUS
  <2>4. all = p.ooseq \cup (s.seqno .. e - 1)
    BY DEF all
  <2>5. p.rcv_nxt + p.rcv_wnd - 1 = f - 1
    BY <2>1
  <2> HIDE DEF e, f
  <2>11. p.ooseq \subseteq p.rcv_nxt + 1 .. Least(p.fin, f - 1)
    BY <2>5, Zenon DEF RecvOK
  <2>6. e - 1 <= p.fin
    BY <2>1, <2>3
  <2>7. e - 1 <= f - 1
    BY <2>1, <2>2, <2>3
  <2>8. Least(p.fin, f - 1) \in Int /\ e - 1 <= Least(p.fin, f - 1)
    BY <2>1, <2>2, <2>6, <2>7 DEF Least
  <2>9. s.seqno .. e - 1 \subseteq p.rcv_nxt + 1 .. Least(p.fin, f - 1)
    BY <2>1, <2>3, <2>8
  <2>10. all \subseteq p.rcv_nxt + 1 .. Least(p.fin, f - 1)
    BY <2>4, <2>9, <2>11, Zenon
  <2> QED  BY <2>5, <2>10, Zenon
<1>4. kept \subseteq all
  BY Zenon
<1>5. Received(p, a)
  BY <1>2, ReceivedNothing, Zenon
<1> HIDE DEF a, all, kept
<1>6. /\ SameOutside(a, q) /\ q.ooseq = kept /\ q.rcv_nxt = a.rcv_nxt /\ q.rcv_wnd = a.rcv_wnd
      /\ q.rcv_ann_wnd = a.rcv_ann_wnd /\ q.right_edge = a.right_edge
      /\ q.recv_data = a.recv_data /\ q.recv_flags = a.recv_flags
  BY <1>2, Zenon DEF Outputs, IsPcb, SameOutside, SameControl, SameSend, Queue
<1> HIDE DEF q
<1>7. SameOutside(p, q)
  BY <1>5, <1>6, SameOutsideTwice, Zenon DEF Received
<1>8. q.ooseq \subseteq q.rcv_nxt + 1 .. Least(q.fin, q.rcv_nxt + q.rcv_wnd - 1)
  BY <1>2, <1>3, <1>4, <1>6, <1>7, Zenon DEF Outputs, SameRecv, SameOutside
<1>9. RecvOK(q)
  BY <1>5, <1>6, <1>8, Zenon DEF Received, RecvOK, SameOutside
<1>10. Received(p, q)
  BY <1>5, <1>6, <1>7, <1>9, Zenon DEF Received
<1> QED  BY <1>1, <1>10, Zenon

(* ReceiveData for each way a segment lies to the window: a repeated       *)
(* beginning is cut off, an old segment acknowledged.                      *)
LEMMA DataReceives ==
  ASSUME SetFacts, NEW p, NEW s, IsPcb(p), RecvOK(p), SegmentOK(p, s),
         p.recv_flags = {}, p.recv_data = <<>>
  PROVE  Received(p, ReceiveData(p, s))
<1> DEFINE skip == Greatest(0, p.rcv_nxt - s.seqno)
           t == IF skip = 0 \/ skip >= TcpLenOf(s) THEN s
                ELSE [s EXCEPT !.seqno = p.rcv_nxt, !.len = @ - skip]
           q == IF s.seqno < p.rcv_nxt /\ t = s THEN tcp_ack_now(p) ELSE p
           window == p.rcv_nxt .. p.rcv_nxt + p.rcv_wnd - 1
<1>1. Received(p, p) /\ Received(p, tcp_ack_now(p))
  BY OutputsNothing, AckNowOutputs, ReceivedNothing, Zenon
<1>2. Outputs(p, q)
  BY OutputsNothing, AckNowOutputs, Zenon
<1>3. /\ IsPcb(q) /\ RecvOK(q) /\ q.recv_flags = {} /\ q.recv_data = <<>>
      /\ q.rcv_nxt = p.rcv_nxt /\ q.rcv_wnd = p.rcv_wnd /\ q.fin = p.fin
  BY <1>2, OutputsRecv, Zenon DEF Outputs, SameStep, SameRecv
<1>4. Received(p, tcp_send_empty_ack(q))
  BY <1>2, <1>3, AnnouncedOutputs, OutputsTwice, ReceivedNothing, Zenon DEF tcp_send_empty_ack
<1>5. TcpLenOf(s) \in Nat
  BY DEF TcpLenOf, SegmentOK
<1>6. ASSUME TcpLenOf(s) # 0, t.seqno \in window
      PROVE  /\ t.seqno \in Nat /\ t.seqno >= p.rcv_nxt /\ TcpLenOf(t) \in Nat \ {0}
             /\ t.seqno + TcpLenOf(t) <= p.fin + 1
             /\ t.seqno + TcpLenOf(t) <= p.right_edge \/ t.seqno = p.rcv_nxt
             /\ t # s => t.seqno = p.rcv_nxt
  <2>1. CASE t = s
    <3> HIDE DEF t
    <3>1. s.seqno \in window /\ TcpLenOf(s) > 0
      BY <1>5, <1>6, <2>1
    <3>2. s.seqno \in Nat /\ s.seqno >= p.rcv_nxt
      BY <3>1 DEF RecvOK
    <3> QED  BY <1>5, <2>1, <3>1, <3>2 DEF SegmentOK
  <2>2. CASE t # s
    <3>1. skip \in Nat /\ skip = p.rcv_nxt - s.seqno /\ skip < TcpLenOf(s)
      BY <1>5, <2>2 DEF Greatest, SegmentOK, RecvOK
    <3>2. t.seqno = p.rcv_nxt /\ t.len = s.len - skip /\ t.fin = s.fin
      BY <2>2, Zenon DEF SegmentOK, IsSegment
    <3>3. TcpLenOf(t) = TcpLenOf(s) - skip
      BY <3>1, <3>2 DEF TcpLenOf, SegmentOK
    <3> HIDE DEF skip, t
    <3> QED
      BY <1>5, <3>1, <3>2, <3>3 DEF SegmentOK, RecvOK
  <2> QED  BY <2>1, <2>2, Zenon
<1>7. ASSUME TcpLenOf(s) # 0, t.seqno \in window, t.seqno = p.rcv_nxt
      PROVE  Received(p, ReceiveInOrder(q, t))
  <2>1. p.rcv_wnd > 0
    BY <1>7 DEF RecvOK
  <2>2. Received(q, ReceiveInOrder(q, t))
    BY <1>3, <1>6, <1>7, <2>1, InOrderReceives, Zenon
  <2>3. SameOutside(p, ReceiveInOrder(q, t))
    BY <1>2, <2>2, OutputsOutside, SameOutsideTwice, Zenon DEF Received
  <2> QED
    BY <1>3, <2>2, <2>3, Zenon DEF Received
<1>8. ASSUME TcpLenOf(s) # 0, t.seqno \in window, t.seqno # p.rcv_nxt
      PROVE  Received(p, ReceiveOutOfOrder(q, t))
  <2>1. t = s /\ q = p
    BY <1>6, <1>8 DEF RecvOK, SegmentOK
  <2> HIDE DEF t, q
  <2>2. /\ s.seqno \in Nat /\ s.seqno > p.rcv_nxt /\ TcpLenOf(s) \in Nat
        /\ s.seqno + TcpLenOf(s) <= p.fin + 1 /\ s.seqno + TcpLenOf(s) <= p.right_edge
    BY <1>6, <1>8, <2>1 DEF RecvOK
  <2>3. Received(p, ReceiveOutOfOrder(p, s))
    BY <2>2, OutOfOrderReceives, Zenon
  <2> QED  BY <2>1, <2>3, Zenon
<1>9. \/ ReceiveData(p, s) = p \/ ReceiveData(p, s) = tcp_ack_now(p)
      \/ ReceiveData(p, s) = tcp_send_empty_ack(q)
      \/ /\ TcpLenOf(s) # 0 /\ t.seqno \in window /\ t.seqno = p.rcv_nxt
         /\ ReceiveData(p, s) = ReceiveInOrder(q, t)
      \/ /\ TcpLenOf(s) # 0 /\ t.seqno \in window /\ t.seqno # p.rcv_nxt
         /\ ReceiveData(p, s) = ReceiveOutOfOrder(q, t)
  BY Zenon DEF ReceiveData
<1> HIDE DEF q, t, window
<1> QED  BY <1>1, <1>4, <1>7, <1>8, <1>9, Zenon
-----------------------------------------------------------------------------
(* The queues of segments to the console.                                  *)

(* A queue that is not empty has a first segment.                          *)
LEMMA ForemostIn ==
  ASSUME SetFacts, NEW Q, Q # {}, \A s \in Q : s.seqno \in Nat
  PROVE  Foremost(Q) \in Q
<1> DEFINE S == {s.seqno : s \in Q}
<1>1. PICK i \in S : \A j \in S : i <= j
  BY LeastMember, Zenon
<1>2. PICK s \in Q : s.seqno = i
  BY <1>1, Zenon
<1>3. \A t \in Q : s.seqno <= t.seqno
  BY <1>1, <1>2, Zenon
<1> QED  BY <1>2, <1>3, Zenon DEF Foremost

(* A queue that is not empty has a last segment.                           *)
LEMMA HindmostIn ==
  ASSUME SetFacts, NEW Q, NEW b, Q # {}, QueueOK(Q, b)
  PROVE  Hindmost(Q) \in Q
<1>1. ASSUME NEW s \in Q PROVE s.seqno \in Nat /\ s.seqno <= b /\ b \in Nat
  <2>1. /\ s.seqno \in Nat /\ b \in Nat /\ TcpLen(s) \in Nat
        /\ s.seqno + TcpLen(s) <= b
    BY Zenon DEF QueueOK, Segs
  <2> QED  BY <2>1
<1> DEFINE S == {b - s.seqno : s \in Q}
<1>2. S \subseteq Nat /\ S # {}
  BY <1>1
<1>3. PICK i \in S : \A j \in S : i <= j
  BY <1>2, LeastMember, Zenon
<1>4. PICK s \in Q : b - s.seqno = i
  BY <1>3, Zenon
<1>5. ASSUME NEW t \in Q PROVE t.seqno <= s.seqno
  <2>1. b - t.seqno \in S
    BY Zenon
  <2>2. b - s.seqno <= b - t.seqno
    BY <1>3, <1>4, <2>1, Zenon
  <2>3. s.seqno \in Nat /\ t.seqno \in Nat /\ b \in Nat
    BY <1>1, Zenon
  <2> QED  BY <2>2, <2>3
<1> QED  BY <1>4, <1>5, Zenon DEF Hindmost

(* As segments do not overlap, Octets counts each octet once.              *)
LEMMA CoveredOctets ==
  ASSUME SetFacts, NEW Q, NEW b, QueueOK(Q, b)
  PROVE  /\ IsFiniteSet(Covered(Q)) /\ Covered(Q) \subseteq 0 .. b
         /\ Octets(Q) = Cardinality(Covered(Q)) /\ Octets(Q) \in Nat
<1>1. ASSUME NEW s \in Q
      PROVE  s.seqno .. s.seqno + s.len - 1 \subseteq 0 .. b
  <2>1. s.seqno \in Nat /\ s.len \in Nat /\ b \in Nat /\ s.seqno + TcpLen(s) <= b
    BY SizesAreAtLeastOne DEF QueueOK, Segs
  <2>2. TcpLen(s) \in {s.len, s.len + 1}
    BY <2>1 DEF TcpLen
  <2> QED  BY <2>1, <2>2
<1>2. Covered(Q) \subseteq 0 .. b
  BY <1>1, Zenon DEF Covered
<1>3. IsFiniteSet(0 .. b)
  <2>1. 0 \in Int /\ b \in Int
    BY DEF QueueOK
  <2> QED  BY <2>1, Zenon DEF SetFacts
<1>4. IsFiniteSet(Covered(Q))
  BY <1>2, <1>3, Zenon DEF SetFacts
<1>5. Cardinality(Covered(Q)) \in Nat
  BY <1>4, Zenon DEF SetFacts
<1> QED  BY <1>2, <1>4, <1>5, Zenon DEF Octets, Covered

(* A part of a queue is a queue.                                           *)
LEMMA QueuePart ==
  ASSUME NEW Q, NEW b, QueueOK(Q, b), NEW A, A \subseteq Q
  PROVE  QueueOK(A, b)
BY Zenon DEF QueueOK

(* The octets of two parts of a queue add up.                              *)
LEMMA OctetsAdd ==
  ASSUME SetFacts, NEW Q, NEW b, QueueOK(Q, b), NEW A, A \subseteq Q
  PROVE  Octets(Q) = Octets(A) + Octets(Q \ A)
<1>1. QueueOK(A, b) /\ QueueOK(Q \ A, b)
  BY QueuePart, Zenon
<1>2. Covered(Q) = Covered(A) \cup Covered(Q \ A)
  BY Zenon DEF Covered
<1>3. Covered(A) \cap Covered(Q \ A) = {}
  <2>1. ASSUME NEW s \in A, NEW t \in Q \ A,
               NEW x \in s.seqno .. s.seqno + s.len - 1,
               x \in t.seqno .. t.seqno + t.len - 1
        PROVE  FALSE
    <3>1. /\ s.seqno \in Nat /\ s.len \in Nat /\ t.seqno \in Nat /\ t.len \in Nat
          /\ s.seqno + s.len <= t.seqno \/ t.seqno + t.len <= s.seqno
      BY SizesAreAtLeastOne DEF QueueOK, Segs
    <3> QED  BY <2>1, <3>1
  <2> QED  BY <2>1, Zenon DEF Covered
<1>4. IsFiniteSet(Covered(A)) /\ IsFiniteSet(Covered(Q \ A))
  BY <1>1, CoveredOctets, Zenon
<1>5. Cardinality(Covered(Q)) = Cardinality(Covered(A)) + Cardinality(Covered(Q \ A)) -
                                Cardinality(Covered(A) \cap Covered(Q \ A))
  BY <1>2, <1>4, Zenon DEF SetFacts
<1>6. Cardinality(Covered(A) \cap Covered(Q \ A)) = 0
  BY <1>3, Zenon DEF SetFacts
<1> QED  BY <1>1, <1>5, <1>6, CoveredOctets

(* A segment has as many octets as its length says.                        *)
LEMMA OctetsOfOne ==
  ASSUME SetFacts, NEW s \in Segs
  PROVE  Octets({s}) = s.len
<1>1. UNION {t.seqno .. t.seqno + t.len - 1 : t \in {s}} = s.seqno .. s.seqno + s.len - 1
  BY Zenon
<1>2. s.seqno \in Int /\ s.len \in Nat
  BY SizesAreAtLeastOne DEF Segs
<1>3. Cardinality(s.seqno .. s.seqno + s.len - 1) = s.len
  <2> DEFINE a == s.seqno
             b == s.seqno + s.len - 1
  <2>1. a \in Int /\ b \in Int /\ b - a + 1 = s.len
    BY <1>2
  <2> HIDE DEF a, b
  <2>2. Cardinality(a .. b) = IF a > b THEN 0 ELSE b - a + 1
    BY <2>1, Zenon DEF SetFacts
  <2>3. Cardinality(a .. b) = s.len
    BY <1>2, <2>1, <2>2
  <2> QED  BY <2>3, Zenon DEF a, b
<1> QED  BY <1>1, <1>3, Zenon DEF Octets

(* A queue without octets is one of empty segments, the SYN and the FIN.   *)
LEMMA NoOctets ==
  ASSUME SetFacts, NEW Q, NEW b, QueueOK(Q, b)
  PROVE  Octets(Q) = 0 <=> \A s \in Q : s.len = 0
<1>1. Octets(Q) = 0 <=> Covered(Q) = {}
  BY CoveredOctets, Zenon DEF SetFacts
<1>2. ASSUME NEW s \in Q
      PROVE  s.len = 0 <=> s.seqno .. s.seqno + s.len - 1 = {}
  <2>1. s.seqno \in Nat /\ s.len \in Nat
    BY SizesAreAtLeastOne DEF QueueOK, Segs
  <2>2. s.len # 0 => s.seqno \in s.seqno .. s.seqno + s.len - 1
    BY <2>1
  <2> QED  BY <2>1, <2>2
<1>3. Covered(Q) = {} <=> \A s \in Q : s.seqno .. s.seqno + s.len - 1 = {}
  BY Zenon DEF Covered
<1> QED  BY <1>1, <1>2, <1>3, Zenon

(* Whole segments add up to whole segments.                                *)
LEMMA WholeSum ==
  ASSUME NEW m \in Nat, NEW n \in Nat, Whole(m), Whole(n)
  PROVE  Whole(m + n)
<1>1. PICK k \in Nat : m = k * TCP_MSS
  BY Zenon DEF Whole
<1>2. PICK l \in Nat : n = l * TCP_MSS
  BY Zenon DEF Whole
<1>3. (k + l) * TCP_MSS = k * TCP_MSS + l * TCP_MSS
  BY SizesAreAtLeastOne
<1>4. k + l \in Nat
  OBVIOUS
<1> QED  BY <1>1, <1>2, <1>3, <1>4, Zenon DEF Whole

(* The octets of filled segments fill segments.                            *)
LEMMA OctetsWhole ==
  ASSUME SetFacts, NEW Q, NEW b, QueueOK(Q, b), Full(Q)
  PROVE  Whole(Octets(Q))
<1> SUFFICES ASSUME ~Whole(Octets(Q)) PROVE FALSE
  BY Zenon
<1> DEFINE Odd == {A \in SUBSET Q : ~Whole(Octets(A))}
           S == {Octets(A) : A \in Odd}
<1>1. TCP_MSS \in Nat \ {0}
  BY SizesAreAtLeastOne, Zenon
<1>2. \A A \in SUBSET Q : QueueOK(A, b) /\ Octets(A) \in Nat
  BY QueuePart, CoveredOctets, Zenon
<1>3. S \subseteq Nat /\ S # {}
  BY <1>2, Zenon
<1>4. PICK m \in S : \A j \in S : m <= j
  BY <1>3, LeastMember, Zenon
<1>5. PICK A \in Odd : Octets(A) = m
  BY <1>4, Zenon
<1>6. Octets(A) # 0
  <2>1. 0 = 0 * TCP_MSS
    BY <1>1
  <2> QED  BY <1>5, <2>1, Zenon DEF Whole
<1>7. PICK s \in A : s.len # 0
  BY <1>2, <1>6, NoOctets, Zenon
<1>8. s.len = TCP_MSS /\ s \in Segs
  BY <1>7, Zenon DEF Full, QueueOK
<1>9. Octets(A) = TCP_MSS + Octets(A \ {s})
  <2>1. Octets(A) = Octets({s}) + Octets(A \ {s})
    BY <1>2, <1>7, OctetsAdd, Zenon
  <2> QED  BY <1>8, <2>1, OctetsOfOne, Zenon
<1>10. Octets(A \ {s}) \in Nat
  BY <1>2, Zenon
<1>11. ~Whole(Octets(A \ {s}))
  <2>1. Whole(TCP_MSS)
    <3>1. TCP_MSS = 1 * TCP_MSS
      BY <1>1
    <3> QED  BY <3>1, Zenon DEF Whole
  <2> QED  BY <1>1, <1>5, <1>9, <1>10, <2>1, WholeSum, Zenon
<1>12. Octets(A \ {s}) \in S
  BY <1>11, Zenon
<1> QED
  BY <1>1, <1>4, <1>5, <1>9, <1>10, <1>12
-----------------------------------------------------------------------------
(* tcp_rexmit moves the first segment from unacked to unsent: the queue as *)
(* a whole is unchanged.                                                   *)
LEMMA RexmitSends ==
  ASSUME SetFacts, NEW p, IsPcb(p)
  PROVE  LET q == tcp_rexmit(p)
         IN  /\ IsPcb(q) /\ SameControl(p, q) /\ SameStep(p, q) /\ SameRecv(p, q)
             /\ q.right_edge = p.right_edge /\ q.snd_lbb = p.snd_lbb /\ q.snd_buf = p.snd_buf
             /\ QueueOK(Queue(p), p.snd_lbb) => Queue(q) = Queue(p)
<1> DEFINE seg == Foremost(p.unacked)
           q == [p EXCEPT !.unacked = @ \ {seg}, !.unsent = @ \cup {seg}]
<1>1. CASE p.unacked = {}
  BY <1>1, Zenon DEF tcp_rexmit, SameControl, SameStep, SameRecv
<1>2. CASE p.unacked # {}
  <2>1. tcp_rexmit(p) = q
    BY <1>2, Zenon DEF tcp_rexmit
  <2>2. QueueOK(Queue(p), p.snd_lbb) => seg \in p.unacked
    <3>1. QueueOK(Queue(p), p.snd_lbb) => \A s \in p.unacked : s.seqno \in Nat
      BY Zenon DEF QueueOK, Queue, Segs
    <3> QED  BY <1>2, <3>1, ForemostIn, Zenon
  <2> HIDE DEF seg
  <2>3. IsPcb(q)
    BY Zenon DEF IsPcb
  <2>4. q.unacked = p.unacked \ {seg} /\ q.unsent = p.unsent \cup {seg}
    BY Zenon DEF IsPcb
  <2>5. /\ SameControl(p, q) /\ SameStep(p, q) /\ SameRecv(p, q)
        /\ q.right_edge = p.right_edge /\ q.snd_lbb = p.snd_lbb /\ q.snd_buf = p.snd_buf
    BY Zenon DEF IsPcb, SameControl, SameStep, SameRecv
  <2> HIDE DEF q
  <2>6. QueueOK(Queue(p), p.snd_lbb) => Queue(q) = Queue(p)
    BY <2>2, <2>4, Zenon DEF Queue
  <2> QED  BY <2>1, <2>3, <2>5, <2>6, Zenon
<1> QED  BY <1>1, <1>2, Zenon

(* ReceiveAck gives back to snd_buf the octets of the segments it removes. *)
LEMMA AckFrees ==
  ASSUME SetFacts, NEW p, NEW s, IsPcb(p)
  PROVE  LET q == ReceiveAck(p, s)
         IN  /\ IsPcb(q) /\ SameControl(p, q) /\ SameRecv(p, q)
             /\ q.right_edge = p.right_edge /\ q.input = p.input
             /\ q.recv_flags = p.recv_flags /\ q.recv_data = p.recv_data
             /\ SendOK(p) => Freeing(p, q)
<1> DEFINE new == s.ackno \in p.lastack + 1 .. p.snd_nxt
           sent(seg) == seg.seqno + TcpLen(seg) <= s.ackno
           gone == {seg \in p.unsent : sent(seg)} \cup {seg \in p.unacked : new /\ sent(seg)}
           ack == IF new THEN s.ackno ELSE p.lastack
           q == [p EXCEPT !.lastack = ack, !.unsent = @ \ gone, !.unacked = @ \ gone,
                          !.recv_acked = Octets(gone), !.snd_buf = @ + Octets(gone)]
           r == tcp_rexmit(q)
<1>1. ReceiveAck(p, s) \in {q, r}
  BY Zenon DEF ReceiveAck
<1>2. gone \subseteq Queue(p)
  BY Zenon DEF Queue
<1> HIDE DEF gone, ack
<1>3. IsPcb(q)
  BY Zenon DEF IsPcb
<1>4. /\ SameControl(p, q) /\ SameRecv(p, q) /\ q.right_edge = p.right_edge
      /\ q.input = p.input /\ q.recv_flags = p.recv_flags /\ q.recv_data = p.recv_data
  BY Zenon DEF IsPcb, SameControl, SameRecv
<1>5. /\ q.unsent = p.unsent \ gone /\ q.unacked = p.unacked \ gone
      /\ q.snd_lbb = p.snd_lbb /\ q.recv_acked = Octets(gone)
      /\ q.snd_buf = p.snd_buf + Octets(gone)
  BY Zenon DEF IsPcb
<1> HIDE DEF q
<1>6. Queue(q) = Queue(p) \ gone
  BY <1>5, Zenon DEF Queue
<1>7. ASSUME SendOK(p) PROVE Freeing(p, q)
  <2>1. QueueOK(Queue(q), p.snd_lbb) /\ QueueOK(gone, p.snd_lbb)
    BY <1>2, <1>6, <1>7, QueuePart, Zenon DEF SendOK
  <2>2. Octets(gone) \in Nat /\ Octets(Queue(q)) \in Nat
    BY <2>1, CoveredOctets, Zenon
  <2>3. Octets(Queue(p)) = Octets(gone) + Octets(Queue(q))
    BY <1>2, <1>6, <1>7, OctetsAdd DEF SendOK
  <2>4. Full(Queue(p)) => Whole(Octets(gone))
    <3>1. Full(Queue(p)) => Full(gone)
      BY <1>2, Zenon DEF Full
    <3> QED  BY <2>1, <3>1, OctetsWhole, Zenon
  <2>5. SendOK(q)
    BY <1>5, <1>7, <2>1, <2>2, <2>3 DEF SendOK
  <2> QED
    BY <1>5, <1>6, <2>2, <2>3, <2>4, <2>5 DEF Freeing
<1>8. /\ IsPcb(r) /\ SameControl(q, r) /\ SameStep(q, r) /\ SameRecv(q, r)
      /\ r.right_edge = q.right_edge /\ r.snd_lbb = q.snd_lbb /\ r.snd_buf = q.snd_buf
      /\ QueueOK(Queue(q), q.snd_lbb) => Queue(r) = Queue(q)
  BY <1>3, RexmitSends, Zenon
<1> HIDE DEF r
<1>9. /\ SameControl(p, r) /\ SameRecv(p, r) /\ r.right_edge = p.right_edge
      /\ r.input = p.input /\ r.recv_flags = p.recv_flags /\ r.recv_data = p.recv_data
  BY <1>4, <1>8, Zenon DEF SameControl, SameRecv, SameStep
<1>10. ASSUME SendOK(p) PROVE Freeing(p, r)
  <2>1. Freeing(p, q)
    BY <1>7, <1>10, Zenon
  <2>2. Queue(r) = Queue(q)
    BY <1>8, <2>1, Zenon DEF Freeing, SendOK
  <2>3. SendOK(r)
    BY <1>8, <2>1, <2>2, Zenon DEF Freeing, SendOK
  <2> QED
    BY <1>8, <2>1, <2>2, <2>3, Zenon DEF Freeing, SameStep
<1> QED
  BY <1>1, <1>3, <1>4, <1>7, <1>8, <1>9, <1>10, Zenon
-----------------------------------------------------------------------------
(* tcp_process.                                                            *)

(* tcp_receive: the acknowledgement, then the data.                        *)
LEMMA ReceiveProceeds ==
  ASSUME SetFacts, NEW p, NEW s, IsPcb(p), RecvOK(p), SegmentOK(p, s),
         p.recv_flags = {}, p.recv_data = <<>>
  PROVE  LET q == tcp_receive(p, s) IN Proceeds(p, q) /\ q.state = p.state
<1> DEFINE a == ReceiveAck(p, s)
           q == ReceiveData(a, s)
<1>1. /\ IsPcb(a) /\ SameControl(p, a) /\ SameRecv(p, a) /\ a.right_edge = p.right_edge
      /\ a.input = p.input /\ a.recv_flags = {} /\ a.recv_data = <<>>
      /\ SendOK(p) => Freeing(p, a)
  BY AckFrees, Zenon
<1>2. tcp_receive(p, s) = q
  BY Zenon DEF tcp_receive
<1> HIDE DEF a
<1>3. RecvOK(a)
  BY <1>1, Zenon DEF SameRecv, RecvOK
<1>4. SegmentOK(a, s)
  BY <1>1, Zenon DEF SameRecv, SegmentOK
<1>5. Received(a, q)
  BY <1>1, <1>3, <1>4, DataReceives, Zenon
<1> HIDE DEF q
<1>6. Takes(p, q)
  BY <1>1, <1>5, Zenon DEF Takes, Received, SameOutside, SameControl, SameRecv
<1>7. SendOK(p) => Freeing(p, q)
  <2>1. SameSend(a, q) /\ q.recv_acked = a.recv_acked
    BY <1>5, Zenon DEF Received, SameOutside
  <2> QED  BY <1>1, <2>1, Zenon DEF Freeing, SendOK, SameSend
<1>8. /\ q.refused = p.refused /\ q.state = p.state
      /\ q.rcv_nxt >= p.rcv_nxt /\ q.rcv_nxt + q.rcv_wnd = p.rcv_nxt + p.rcv_wnd
      /\ \A i \in 1 .. Len(q.recv_data) : q.recv_data[i] = p.rcv_nxt + i - 1
      /\ q.recv_flags = IF q.rcv_nxt > p.rcv_nxt /\ q.rcv_nxt > p.fin THEN {"GOT_FIN"} ELSE {}
  BY <1>1, <1>5, Zenon DEF Received, SameOutside, SameControl, SameRecv
<1> QED  BY <1>2, <1>6, <1>7, <1>8, Zenon DEF Proceeds

(* A state is entered, with an acknowledgement of the FIN.                 *)
LEMMA EntersProceeds ==
  ASSUME NEW p, NEW q, NEW m, NEW st, NEW r, Proceeds(p, q), Outputs(q, m),
         r = [m EXCEPT !.state = st]
  PROVE  Proceeds(p, r) /\ r.state = st
<1>1. /\ IsPcb(r) /\ r.state = st /\ SameRecv(q, r) /\ SameStep(q, r) /\ SameSend(q, r)
      /\ r.right_edge = m.right_edge /\ r.called = q.called /\ r.rst = q.rst
      /\ r.refused = q.refused
      /\ "RXCLOSED" \in r.flags <=> "RXCLOSED" \in q.flags
  BY Zenon DEF Outputs, IsPcb, SameRecv, SameStep, SameSend, SameControl, Queue
<1>2. RecvOK(r)
  <2>1. RecvOK(m)
    BY OutputsRecv, Zenon DEF Proceeds, Takes
  <2> QED  BY <1>1, <2>1, Zenon DEF RecvOK, Outputs, SameRecv
<1>3. Takes(p, r)
  BY <1>1, <1>2, Zenon DEF Proceeds, Takes, SameRecv, SameStep
<1>4. SendOK(p) => Freeing(p, r)
  BY <1>1, Zenon DEF Proceeds, Freeing, SendOK, SameSend, SameStep
<1> QED  BY <1>1, <1>3, <1>4, Zenon DEF Proceeds, SameRecv, SameStep

(* tcp_process in ESTABLISHED: the FIN, and only the FIN, leads to         *)
(* CLOSE_WAIT.                                                             *)
LEMMA EstablishedProceeds ==
  ASSUME SetFacts, NEW p, NEW s, IsPcb(p), RecvOK(p), SegmentOK(p, s), p.state = "ESTABLISHED",
         p.recv_flags = {}, p.recv_data = <<>>
  PROVE  LET q == tcp_process_synchronized(p, s)
         IN  /\ Proceeds(p, q)
             /\ q.state = IF "GOT_FIN" \in q.recv_flags THEN "CLOSE_WAIT" ELSE "ESTABLISHED"
<1> DEFINE q == tcp_receive(p, s)
           r == [tcp_ack_now(q) EXCEPT !.state = "CLOSE_WAIT"]
<1>1. Proceeds(p, q) /\ q.state = p.state
  BY ReceiveProceeds, Zenon
<1>2. tcp_process_synchronized(p, s) = IF "GOT_FIN" \in q.recv_flags THEN r ELSE q
  <2>1. CASE "GOT_FIN" \in q.recv_flags
    BY <2>1, Zenon DEF tcp_process_synchronized
  <2>2. CASE "GOT_FIN" \notin q.recv_flags
    BY <2>2, Zenon DEF tcp_process_synchronized
  <2> QED  BY <2>1, <2>2, Zenon
<1> HIDE DEF q
<1>3. Proceeds(p, r) /\ r.state = "CLOSE_WAIT"
  <2>1. Outputs(q, tcp_ack_now(q))
    BY <1>1, AckNowOutputs, Zenon DEF Proceeds, Takes
  <2> QED  BY <1>1, <2>1, EntersProceeds, Zenon
<1>4. r.recv_flags = q.recv_flags
  <2>1. Outputs(q, tcp_ack_now(q))
    BY <1>1, AckNowOutputs, Zenon DEF Proceeds, Takes
  <2> QED  BY <2>1, Zenon DEF Outputs, SameStep, IsPcb
<1> HIDE DEF r
<1> QED  BY <1>1, <1>2, <1>3, <1>4, Zenon

(* A connection the application has closed.                                *)
LEMMA PurgeTakes ==
  ASSUME NEW p, NEW q, Takes(p, q)
  PROVE  LET r == tcp_pcb_purge(q) IN Takes(p, r) /\ r.state = q.state
<1> DEFINE r == tcp_pcb_purge(q)
<1>1. IsPcb(r)
  BY Zenon DEF tcp_pcb_purge, Takes, IsPcb
<1>2. /\ r.state = q.state /\ r.fin = q.fin /\ r.input = q.input /\ r.called = q.called
      /\ r.rst = q.rst /\ r.flags = q.flags /\ r.recv_data = q.recv_data
      /\ r.rcv_nxt = q.rcv_nxt /\ r.rcv_wnd = q.rcv_wnd /\ r.rcv_ann_wnd = q.rcv_ann_wnd
      /\ r.right_edge = q.right_edge /\ r.ooseq = {}
  BY Zenon DEF tcp_pcb_purge, Takes, IsPcb
<1> HIDE DEF r
<1>3. RecvOK(r)
  BY <1>2, Zenon DEF Takes, RecvOK
<1> QED  BY <1>1, <1>2, <1>3, Zenon DEF Takes, r

(* tcp_process in these states takes what still comes, until TIME_WAIT.    *)
LEMMA LeavingTakes ==
  ASSUME SetFacts, NEW p, NEW s, IsPcb(p), RecvOK(p), SegmentOK(p, s), p.state \in Leaving,
         p.recv_flags = {}, p.recv_data = <<>>
  PROVE  LET q == tcp_process_synchronized(p, s)
         IN  Takes(p, q) /\ q.state \in Leaving \cup {"TIME_WAIT"}
<1> DEFINE q == tcp_receive(p, s)
           goes(st) == [IF "GOT_FIN" \in q.recv_flags THEN tcp_ack_now(q) ELSE q
                          EXCEPT !.state = st]
           timeWait == tcp_pcb_purge(goes("TIME_WAIT"))
           last == [q EXCEPT !.recv_flags = @ \cup {"CLOSED"}]
<1>1. Proceeds(p, q) /\ q.state = p.state
  BY ReceiveProceeds, Zenon
<1>2. \/ tcp_process_synchronized(p, s) \in {q, timeWait, last}
      \/ \E st \in Leaving : tcp_process_synchronized(p, s) = goes(st)
  <2>1. CASE p.state = "CLOSE_WAIT"
    BY <2>1, Zenon DEF tcp_process_synchronized, Leaving
  <2>2. CASE p.state = "FIN_WAIT_1"
    BY <2>2, Zenon DEF tcp_process_synchronized, Leaving
  <2>3. CASE p.state = "FIN_WAIT_2"
    BY <2>3, Zenon DEF tcp_process_synchronized, Leaving
  <2>4. CASE p.state = "CLOSING"
    BY <2>4, Zenon DEF tcp_process_synchronized, Leaving
  <2>5. CASE p.state = "LAST_ACK"
    BY <2>5, Zenon DEF tcp_process_synchronized, Leaving
  <2> QED  BY <2>1, <2>2, <2>3, <2>4, <2>5, Zenon DEF Leaving
<1> HIDE DEF q
<1>3. \A st : Takes(p, goes(st)) /\ goes(st).state = st
  <2> TAKE st
  <2>1. CASE "GOT_FIN" \in q.recv_flags
    <3>1. goes(st) = [tcp_ack_now(q) EXCEPT !.state = st]
      BY <2>1, Zenon
    <3>2. Outputs(q, tcp_ack_now(q))
      BY <1>1, AckNowOutputs, Zenon DEF Proceeds, Takes
    <3> DEFINE r == goes(st)
    <3> HIDE DEF goes
    <3>3. r = [tcp_ack_now(q) EXCEPT !.state = st]
      BY <3>1, Zenon
    <3> HIDE DEF r
    <3>4. Proceeds(p, r) /\ r.state = st
      BY <1>1, <3>2, <3>3, EntersProceeds, Zenon
    <3> QED  BY <3>4, Zenon DEF Proceeds, r
  <2>2. CASE "GOT_FIN" \notin q.recv_flags
    <3>1. goes(st) = [q EXCEPT !.state = st]
      BY <2>2, Zenon
    <3>2. Outputs(q, q)
      BY <1>1, OutputsNothing, Zenon DEF Proceeds, Takes
    <3> DEFINE r == goes(st)
    <3> HIDE DEF goes
    <3>3. r = [q EXCEPT !.state = st]
      BY <3>1, Zenon
    <3> HIDE DEF r
    <3>4. Proceeds(p, r) /\ r.state = st
      BY <1>1, <3>2, <3>3, EntersProceeds, Zenon
    <3> QED  BY <3>4, Zenon DEF Proceeds, r
  <2> QED  BY <2>1, <2>2, Zenon
<1> HIDE DEF goes
<1>4. Takes(p, timeWait) /\ timeWait.state = "TIME_WAIT"
  BY <1>3, PurgeTakes, Zenon
<1>5. Takes(p, last) /\ last.state = q.state
  <2>1. IsPcb(last)
    BY <1>1, Zenon DEF Proceeds, Takes, IsPcb
  <2>2. /\ last.state = q.state /\ last.fin = q.fin /\ last.input = q.input
        /\ last.called = q.called /\ last.rst = q.rst /\ last.flags = q.flags
        /\ last.recv_data = q.recv_data /\ last.rcv_nxt = q.rcv_nxt
        /\ last.rcv_wnd = q.rcv_wnd /\ last.rcv_ann_wnd = q.rcv_ann_wnd
        /\ last.right_edge = q.right_edge /\ last.ooseq = q.ooseq
    BY <1>1, Zenon DEF Proceeds, Takes, IsPcb
  <2> HIDE DEF last
  <2>3. RecvOK(last)
    BY <1>1, <2>2, Zenon DEF Proceeds, Takes, RecvOK
  <2> QED  BY <1>1, <2>1, <2>2, <2>3, Zenon DEF Proceeds, Takes
<1> HIDE DEF timeWait, last
<1> QED
  BY <1>1, <1>2, <1>3, <1>4, <1>5, Zenon DEF Proceeds
-----------------------------------------------------------------------------
(* tcp_write.                                                              *)

(* What the provers need to know of multiples of TCP_MSS.                  *)
LEMMA Multiples ==
  ASSUME SetFacts
  PROVE  /\ TCP_MSS \in Nat \ {0}
         /\ \A k \in Nat : k * TCP_MSS \in Nat
         /\ \A j, k \in Nat : j < k => j * TCP_MSS + TCP_MSS <= k * TCP_MSS
         /\ \A n \in Nat : \E k \in 0 .. n : k * TCP_MSS <= n /\ n < k * TCP_MSS + TCP_MSS
<1>1. TCP_MSS \in Nat \ {0}
  BY SizesAreAtLeastOne, Zenon
<1>2. \A k \in Nat : k * TCP_MSS \in Nat
  BY <1>1
<1>3. ASSUME NEW j \in Nat, NEW k \in Nat, j < k
      PROVE  j * TCP_MSS + TCP_MSS <= k * TCP_MSS
  <2> DEFINE d == k - j - 1
  <2>1. d \in Nat /\ k = j + 1 + d
    BY <1>3
  <2> HIDE DEF d
  <2>2. (j + 1 + d) * TCP_MSS = j * TCP_MSS + TCP_MSS + d * TCP_MSS
    BY <1>1, <2>1
  <2>3. d * TCP_MSS \in Nat /\ j * TCP_MSS \in Nat
    BY <1>2, <2>1, Zenon
  <2> QED  BY <1>1, <2>1, <2>2, <2>3
<1>4. ASSUME NEW n \in Nat
      PROVE  \E k \in 0 .. n : k * TCP_MSS <= n /\ n < k * TCP_MSS + TCP_MSS
  <2> DEFINE S == {k \in Nat : n < k * TCP_MSS + TCP_MSS}
  <2>1. n \in S
    <3>1. n <= n * TCP_MSS
      BY <1>1
    <3> QED  BY <1>1, <1>2, <3>1
  <2>2. PICK k \in S : \A j \in S : k <= j
    BY <2>1, LeastMember, Zenon
  <2>3. k \in 0 .. n
    BY <2>1, <2>2
  <2>4. k * TCP_MSS <= n
    <3>1. CASE k = 0
      BY <1>1, <3>1
    <3>2. CASE k # 0
      <4>1. k - 1 \in Nat /\ k - 1 \notin S
        BY <2>2, <3>2
      <4>2. (k - 1) * TCP_MSS + TCP_MSS = k * TCP_MSS
        BY <1>1, <2>2
      <4>3. ~(n < (k - 1) * TCP_MSS + TCP_MSS)
        BY <4>1, Zenon
      <4> QED  BY <1>2, <2>2, <4>2, <4>3
    <3> QED  BY <3>1, <3>2, Zenon
  <2> QED  BY <2>2, <2>3, <2>4, Zenon
<1> QED  BY <1>1, <1>2, <1>3, <1>4, Zenon

(* These segments carry the n octets, each once, and are filled when n is  *)
(* a number of whole segments.                                             *)
LEMMA ChunksCover ==
  ASSUME SetFacts, NEW b \in Nat, NEW n \in Nat
  PROVE  LET C == Chunks(b, n)
         IN  /\ QueueOK(C, b + n) /\ Octets(C) = n
             /\ \A s \in C : s.seqno >= b
             /\ Whole(n) => Full(C)
<1> DEFINE C == Chunks(b, n)
           at(k) == k * TCP_MSS
<1>1. /\ TCP_MSS \in Nat \ {0}
      /\ \A k \in Nat : at(k) \in Nat
      /\ \A j, k \in Nat : j < k => at(j) + TCP_MSS <= at(k)
      /\ \A m \in Nat : \E k \in 0 .. m : at(k) <= m /\ m < at(k) + TCP_MSS
  BY Multiples, Zenon
<1>2. \A s \in C : \E k \in Nat :
        /\ at(k) < n - 0
        /\ s = [seqno |-> b + 0 + at(k), len |-> Least(TCP_MSS, n - 0 - at(k)), flag |-> "none"]
  BY DEF Chunks
<1>3. \A k \in 0 .. n : at(k) < n - 0 =>
        [seqno |-> b + 0 + at(k), len |-> Least(TCP_MSS, n - 0 - at(k)), flag |-> "none"] \in C
  BY Zenon DEF Chunks
<1>m. TCP_MSS \in Nat \ {0}
  BY Multiples, Zenon
<1>w. Whole(n) => \E k \in Nat : n = at(k)
  BY Zenon DEF Whole
<1> HIDE DEF C, at
<1>4. ASSUME NEW s \in C
      PROVE  \E k \in Nat : /\ at(k) < n /\ s.seqno = b + at(k) /\ s.flag = "none"
                            /\ s.len = Least(TCP_MSS, n - at(k)) /\ s.len \in 1 .. TCP_MSS
                            /\ s = [seqno |-> s.seqno, len |-> s.len, flag |-> "none"]
  <2>1. PICK k \in Nat :
          /\ at(k) < n - 0
          /\ s = [seqno |-> b + 0 + at(k), len |-> Least(TCP_MSS, n - 0 - at(k)), flag |-> "none"]
    BY <1>2, Zenon
  <2>2. at(k) \in Nat
    BY <1>1, Zenon
  <2>3. n - 0 = n /\ b + 0 = b
    OBVIOUS
  <2>4. Least(TCP_MSS, n - at(k)) \in 1 .. TCP_MSS
    <3>1. at(k) < n
      BY <2>1, <2>3, Zenon
    <3> QED  BY <1>m, <2>2, <3>1 DEF Least
  <2> QED  BY <2>1, <2>2, <2>3, <2>4, Zenon
<1>5. ASSUME NEW s \in C
      PROVE  /\ s \in Segs /\ TcpLen(s) = s.len /\ s.seqno \in Nat /\ s.len \in Nat \ {0}
             /\ s.seqno >= b /\ s.seqno + s.len <= b + n
  <2>1. PICK k \in Nat : /\ at(k) < n /\ s.seqno = b + at(k) /\ s.flag = "none"
                         /\ s.len = Least(TCP_MSS, n - at(k)) /\ s.len \in 1 .. TCP_MSS
                         /\ s = [seqno |-> s.seqno, len |-> s.len, flag |-> "none"]
    BY <1>4, Zenon
  <2>2. at(k) \in Nat
    BY <1>1, Zenon
  <2>3. s.seqno \in Nat /\ s.len \in Nat \ {0} /\ s.len <= TCP_MSS
    <3>1. s.seqno = b + at(k) /\ s.len \in 1 .. TCP_MSS
      BY <2>1, Zenon
    <3> QED  BY <1>m, <2>2, <3>1
  <2>4. TcpLen(s) = s.len
    BY <2>1, <2>3 DEF TcpLen
  <2>5. s.seqno >= b /\ s.seqno + s.len <= b + n
    <3>1. s.seqno = b + at(k) /\ s.len = Least(TCP_MSS, n - at(k))
      BY <2>1, Zenon
    <3> QED  BY <1>m, <2>2, <3>1 DEF Least
  <2>6. s \in Segs
    BY <1>m, <2>1, <2>3 DEF Segs
  <2> QED  BY <2>3, <2>4, <2>5, <2>6, Zenon
<1>6. ASSUME NEW s \in C, NEW t \in C, s # t
      PROVE  s.seqno + s.len <= t.seqno \/ t.seqno + t.len <= s.seqno
  <2>1. PICK j \in Nat : /\ at(j) < n /\ s.seqno = b + at(j) /\ s.flag = "none"
                         /\ s.len = Least(TCP_MSS, n - at(j)) /\ s.len \in 1 .. TCP_MSS
                         /\ s = [seqno |-> s.seqno, len |-> s.len, flag |-> "none"]
    BY <1>4, Zenon
  <2>2. PICK k \in Nat : /\ at(k) < n /\ t.seqno = b + at(k) /\ t.flag = "none"
                         /\ t.len = Least(TCP_MSS, n - at(k)) /\ t.len \in 1 .. TCP_MSS
                         /\ t = [seqno |-> t.seqno, len |-> t.len, flag |-> "none"]
    BY <1>4, Zenon
  <2>3. j # k
    BY <1>6, <2>1, <2>2, Zenon
  <2>4. at(j) \in Nat /\ at(k) \in Nat
    BY <1>1, Zenon
  <2>5. CASE j < k
    <3>1. at(j) + TCP_MSS <= at(k)
      BY <1>1, <2>5, Zenon
    <3> QED  BY <1>m, <2>1, <2>2, <2>4, <3>1
  <2>6. CASE k < j
    <3>1. at(k) + TCP_MSS <= at(j)
      BY <1>1, <2>6, Zenon
    <3> QED  BY <1>m, <2>1, <2>2, <2>4, <3>1
  <2> QED  BY <2>3, <2>5, <2>6
<1>7. QueueOK(C, b + n)
  BY <1>5, <1>6 DEF QueueOK
<1>8. Octets(C) = n
  <2>1. Covered(C) \subseteq b .. b + n - 1
    <3>1. \A s \in C : s.seqno .. s.seqno + s.len - 1 \subseteq b .. b + n - 1
      BY <1>5
    <3> QED  BY <3>1, Zenon DEF Covered
  <2>2. ASSUME NEW x \in b .. b + n - 1 PROVE x \in Covered(C)
    <3>1. x - b \in Nat /\ x - b < n
      OBVIOUS
    <3>2. PICK k \in 0 .. x - b : at(k) <= x - b /\ x - b < at(k) + TCP_MSS
      BY <1>1, <3>1, Zenon
    <3>3. k \in Nat /\ k \in 0 .. n /\ at(k) \in Nat
      BY <1>1, <3>1, <3>2
    <3>4. at(k) < n - 0
      BY <3>1, <3>2, <3>3
    <3> DEFINE s == [seqno |-> b + 0 + at(k), len |-> Least(TCP_MSS, n - 0 - at(k)),
                     flag |-> "none"]
    <3>5. s \in C
      BY <1>3, <3>3, <3>4, Zenon
    <3>6. s.seqno = b + at(k) /\ s.len = Least(TCP_MSS, n - at(k))
      BY <3>3
    <3> HIDE DEF s
    <3>7. x \in s.seqno .. s.seqno + s.len - 1
      BY <1>m, <3>2, <3>3, <3>6 DEF Least
    <3> QED  BY <3>5, <3>7, Zenon DEF Covered
  <2>3. Covered(C) = b .. b + n - 1
    BY <2>1, <2>2, Zenon
  <2>4. Cardinality(b .. b + n - 1) = n
    <3>1. Cardinality(b .. b + n - 1) = IF b > b + n - 1 THEN 0 ELSE (b + n - 1) - b + 1
      BY DEF SetFacts
    <3> QED  BY <3>1
  <2> QED  BY <1>7, <2>3, <2>4, CoveredOctets
<1>9. ASSUME Whole(n) PROVE Full(C)
  <2>1. PICK m \in Nat : n = at(m)
    BY <1>9, <1>w, Zenon
  <2>2. ASSUME NEW s \in C PROVE s.len = TCP_MSS
    <3>1. PICK k \in Nat : at(k) < n /\ s.len = Least(TCP_MSS, n - at(k))
      BY <1>4, Zenon
    <3>2. at(k) \in Nat /\ at(m) \in Nat
      BY <1>1, Zenon
    <3>3. k < m
      <4>1. CASE m < k
        <5>1. at(m) + TCP_MSS <= at(k)
          BY <1>1, <4>1, Zenon
        <5> QED  BY <1>m, <2>1, <3>1, <3>2, <5>1
      <4>2. k # m
        BY <2>1, <3>1, <3>2
      <4> QED  BY <4>1, <4>2
    <3>4. at(k) + TCP_MSS <= at(m)
      BY <1>1, <3>3, Zenon
    <3> QED  BY <1>m, <2>1, <3>1, <3>2, <3>4 DEF Least
  <2> QED  BY <2>2, Zenon DEF Full
<1> QED  BY <1>5, <1>7, <1>8, <1>9, Zenon DEF C

(* tcp_write takes n octets from snd_buf and puts them into the queue,     *)
(* without an overlap. When the queue holds filled segments only, none is  *)
(* extended.                                                               *)
LEMMA WriteSends ==
  ASSUME SetFacts, NEW p, NEW n \in Nat, IsPcb(p), SendOK(p), n <= p.snd_buf,
         n = 0 \/ Full(Queue(p))
  PROVE  LET q == tcp_write(p, n)
         IN  /\ IsPcb(q) /\ SameControl(p, q) /\ SameStep(p, q) /\ SameRecv(p, q)
             /\ q.right_edge = p.right_edge
             /\ SendOK(q) /\ q.snd_buf = p.snd_buf - n
             /\ Octets(Queue(q)) = Octets(Queue(p)) + n
             /\ Full(Queue(p)) /\ Whole(n) => Full(Queue(q))
<1> DEFINE b == p.snd_lbb
           Q == Queue(p)
           C == Chunks(b, n)
           last == Hindmost(p.unsent)
           room == IF p.unsent = {} THEN 0 ELSE IF last.len = 0 THEN 0 ELSE TCP_MSS - last.len
           more == Least(room, n)
           q == [p EXCEPT !.unsent = @ \cup C, !.snd_lbb = @ + n, !.snd_buf = @ - n]
<1>1. QueueOK(Q, b) /\ b \in Nat /\ p.snd_buf \in Nat /\ Octets(Q) + p.snd_buf = TCP_SND_BUF
  BY Zenon DEF SendOK, QueueOK
<1>2. more = 0
  <2>1. room \in Nat /\ (Full(Q) => room = 0)
    <3>1. CASE p.unsent = {}
      BY <3>1, Zenon
    <3>2. CASE p.unsent # {}
      <4>1. QueueOK(p.unsent, b)
        BY <1>1, QueuePart, Zenon DEF Queue
      <4>2. last \in p.unsent
        BY <3>2, <4>1, HindmostIn, Zenon
      <4>3. last \in Q /\ last.len \in 0 .. TCP_MSS
        BY <4>1, <4>2, Zenon DEF QueueOK, Segs, Queue
      <4>4. Full(Q) => last.len \in {0, TCP_MSS}
        BY <4>3, Zenon DEF Full
      <4> HIDE DEF last, Q
      <4>5. TCP_MSS \in Nat
        BY SizesAreAtLeastOne, Zenon
      <4> QED  BY <3>2, <4>3, <4>4, <4>5
    <3> QED  BY <3>1, <3>2, Zenon
  <2> HIDE DEF room
  <2> QED  BY <2>1 DEF Least
<1>3. tcp_write(p, n) = q
  <2> DEFINE kept(m) == IF m = 0 THEN p.unsent
                        ELSE (p.unsent \ {last}) \cup {[last EXCEPT !.len = @ + m]}
             new(m) == {[seqno |-> p.snd_lbb + m + k * TCP_MSS,
                         len |-> Least(TCP_MSS, n - m - k * TCP_MSS), flag |-> "none"] :
                          k \in {i \in 0 .. n : i * TCP_MSS < n - m}}
             written(m) == [p EXCEPT !.unsent = kept(m) \cup new(m), !.snd_lbb = @ + n,
                                     !.snd_buf = @ - n]
  <2>1. tcp_write(p, n) = written(more)
    BY Zenon DEF tcp_write
  <2>2. written(0) = q
    BY Zenon DEF Chunks
  <2> HIDE DEF written, more, q
  <2> QED  BY <1>2, <2>1, <2>2, Zenon
<1> HIDE DEF C, Q
<1>4. IsPcb(q)
  BY Zenon DEF IsPcb
<1>5. /\ SameControl(p, q) /\ SameStep(p, q) /\ SameRecv(p, q) /\ q.right_edge = p.right_edge
      /\ Queue(q) = Q \cup C /\ q.snd_lbb = b + n /\ q.snd_buf = p.snd_buf - n
  BY Zenon DEF IsPcb, SameControl, SameStep, SameRecv, Queue, Q
<1> HIDE DEF q
<1>6. /\ QueueOK(C, b + n) /\ Octets(C) = n /\ \A s \in C : s.seqno >= b
      /\ Whole(n) => Full(C)
  BY <1>1, ChunksCover, Zenon DEF C
<1> HIDE DEF b
<1>7. ASSUME NEW s \in Q
      PROVE  /\ s.seqno \in Nat /\ s.len \in Nat /\ s.seqno + s.len <= b
             /\ TcpLen(s) \in Nat \ {0} /\ s.seqno + TcpLen(s) <= b /\ s.seqno < b
  <2>1. s.seqno \in Nat /\ s.len \in Nat /\ TcpLen(s) \in Nat \ {0} /\ s.seqno + TcpLen(s) <= b
    BY <1>1, SizesAreAtLeastOne DEF QueueOK, Segs
  <2>2. TcpLen(s) >= s.len
    BY <2>1 DEF TcpLen
  <2> QED  BY <1>1, <2>1, <2>2
<1>8. ASSUME NEW s \in C
      PROVE  s.seqno \in Nat /\ s.len \in Nat /\ s.seqno >= b
  BY <1>6, SizesAreAtLeastOne DEF QueueOK, Segs
<1>9. QueueOK(Q \cup C, b + n)
  <2>1. \A s \in Q \cup C : TcpLen(s) \in Nat \ {0} /\ s.seqno + TcpLen(s) <= b + n
    <3>1. \A s \in C : TcpLen(s) \in Nat \ {0} /\ s.seqno + TcpLen(s) <= b + n
      BY <1>6, Zenon DEF QueueOK
    <3>2. ASSUME NEW s \in Q PROVE TcpLen(s) \in Nat \ {0} /\ s.seqno + TcpLen(s) <= b + n
      <4> DEFINE l == TcpLen(s)
      <4>1. s.seqno \in Nat /\ l \in Nat \ {0} /\ s.seqno + l <= b
        BY <1>7, Zenon
      <4> HIDE DEF l
      <4>2. l \in Nat \ {0} /\ s.seqno + l <= b + n
        BY <1>1, <4>1
      <4> QED  BY <4>2, Zenon DEF l
    <3> QED  BY <3>1, <3>2, Zenon
  <2>2. ASSUME NEW s \in Q \cup C, NEW t \in Q \cup C, s # t
        PROVE  s.seqno + s.len <= t.seqno \/ t.seqno + t.len <= s.seqno
    <3>1. CASE s \in Q /\ t \in Q
      BY <1>1, <2>2, <3>1, Zenon DEF QueueOK
    <3>2. CASE s \in C /\ t \in C
      BY <1>6, <2>2, <3>2, Zenon DEF QueueOK
    <3>3. CASE s \in Q /\ t \in C
      BY <1>1, <1>7, <1>8, <3>3
    <3>4. CASE s \in C /\ t \in Q
      BY <1>1, <1>7, <1>8, <3>4
    <3> QED  BY <3>1, <3>2, <3>3, <3>4, Zenon
  <2>3. Q \cup C \subseteq Segs /\ b + n \in Nat
    BY <1>1, <1>6, Zenon DEF QueueOK
  <2> QED  BY <2>1, <2>2, <2>3, Zenon DEF QueueOK
<1>10. Octets(Q \cup C) = Octets(Q) + n
  <2>1. \A s \in Q : s \notin C
    BY <1>1, <1>7, <1>8
  <2>2. (Q \cup C) \ Q = C
    BY <2>1, Zenon
  <2>3. Octets(Q \cup C) = Octets(Q) + Octets((Q \cup C) \ Q)
    BY <1>9, OctetsAdd, Zenon
  <2> QED  BY <1>6, <2>2, <2>3, Zenon
<1>11. Octets(Q) \in Nat
  BY <1>1, CoveredOctets, Zenon
<1>12. SendOK(q)
  BY <1>1, <1>5, <1>9, <1>10, <1>11 DEF SendOK
<1>13. Full(Q) /\ Whole(n) => Full(Q \cup C)
  BY <1>6, Zenon DEF Full
<1> QED
  BY <1>3, <1>4, <1>5, <1>10, <1>12, <1>13, Zenon DEF Q
-----------------------------------------------------------------------------
(* The timers, the SYN and the close.                                      *)

(* The peer's window decides only what is sent.                            *)
LEMMA WindowOutputs ==
  ASSUME NEW p, NEW w, IsPcb(p)
  PROVE  Outputs(p, [p EXCEPT !.wnd = w])
BY Zenon DEF IsPcb, Outputs, SameControl, SameStep, SameRecv, SameSend, Queue

(* A zero-window probe sends what is already queued.                       *)
LEMMA ProbeOutputs ==
  ASSUME NEW p, IsPcb(p)
  PROVE  Outputs(p, tcp_zero_window_probe(p))
<1> DEFINE seg == Foremost(IF p.unacked # {} THEN p.unacked ELSE p.unsent)
           edge == Greatest(p.snd_nxt, seg.seqno + 1)
           q == [p EXCEPT !.right_edge = p.rcv_nxt + p.rcv_ann_wnd, !.snd_nxt = edge]
<1>1. tcp_zero_window_probe(p) = q
  BY Zenon DEF tcp_zero_window_probe
<1> HIDE DEF edge
<1>2. IsPcb(q)
  BY Zenon DEF IsPcb
<1>3. Outputs(p, q)
  BY <1>2 DEF IsPcb, Outputs, SameControl, SameStep, SameRecv, SameSend, Queue
<1> QED  BY <1>1, <1>3, Zenon

(* A retransmission timeout moves unacked back to unsent.                  *)
LEMMA RtoOutputs ==
  ASSUME NEW p, IsPcb(p)
  PROVE  Outputs(p, tcp_rexmit_rto(p))
<1> DEFINE q == [p EXCEPT !.unsent = @ \cup p.unacked, !.unacked = {}]
<1>1. IsPcb(q)
  BY Zenon DEF IsPcb
<1>2. Queue(q) = Queue(p)
  BY Zenon DEF IsPcb, Queue
<1>3. Outputs(p, q)
  BY <1>1, <1>2, Zenon DEF IsPcb, Outputs, SameControl, SameStep, SameRecv, SameSend
<1>4. tcp_rexmit_rto(p) = tcp_output(q)
  BY Zenon DEF tcp_rexmit_rto
<1> HIDE DEF q
<1> QED  BY <1>1, <1>3, <1>4, OutputOutputs, OutputsTwice, Zenon

(* The SYN takes a sequence number and no octet of the send buffer.        *)
LEMMA SynSends ==
  ASSUME NEW p, IsPcb(p), SendOK(p)
  PROVE  LET q == tcp_enqueue_flags(p, "SYN")
         IN  /\ IsPcb(q) /\ SameControl(p, q) /\ SameStep(p, q) /\ SameRecv(p, q)
             /\ q.right_edge = p.right_edge /\ q.snd_buf = p.snd_buf /\ SendOK(q)
             /\ \A s \in Queue(q) : s \in Queue(p) \/ (s.len = 0 /\ s.flag = "SYN")
<1> DEFINE b == p.snd_lbb
           Q == Queue(p)
           s == [seqno |-> b, len |-> 0, flag |-> "SYN"]
           q == [p EXCEPT !.unsent = @ \cup {s}, !.snd_lbb = @ + 1, !.flags = @]
<1>1. QueueOK(Q, b) /\ b \in Nat /\ p.snd_buf \in Nat /\ Octets(Q) + p.snd_buf = TCP_SND_BUF
  BY Zenon DEF SendOK, QueueOK
<1>2. tcp_enqueue_flags(p, "SYN") = q
  <2>1. "SYN" # "FIN"
    BY Zenon
  <2> QED  BY <2>1, Zenon DEF tcp_enqueue_flags
<1>3. s.seqno = b /\ s.len = 0 /\ s.flag = "SYN"
  BY Zenon
<1>4. s \in Segs
  BY <1>1, SizesAreAtLeastOne DEF Segs
<1> HIDE DEF s, Q
<1>5. IsPcb(q)
  BY Zenon DEF IsPcb
<1>6. /\ SameControl(p, q) /\ SameStep(p, q) /\ SameRecv(p, q) /\ q.right_edge = p.right_edge
      /\ Queue(q) = Q \cup {s} /\ q.snd_lbb = b + 1 /\ q.snd_buf = p.snd_buf
  BY Zenon DEF IsPcb, SameControl, SameStep, SameRecv, Queue, Q
<1> HIDE DEF q, b
<1>7. ASSUME NEW t \in Q
      PROVE  /\ t.seqno \in Nat /\ t.len \in Nat /\ t.seqno + t.len <= b
             /\ TcpLen(t) \in Nat \ {0} /\ t.seqno + TcpLen(t) <= b + 1
  <2> DEFINE l == TcpLen(t)
  <2>1. t.seqno \in Nat /\ t.len \in Nat /\ l \in Nat \ {0} /\ t.seqno + l <= b
    BY <1>1, SizesAreAtLeastOne DEF QueueOK, Segs
  <2>2. l >= t.len
    BY <2>1 DEF TcpLen
  <2> HIDE DEF l
  <2>3. t.seqno + t.len <= b /\ t.seqno + l <= b + 1
    BY <1>1, <2>1, <2>2
  <2> QED  BY <2>1, <2>3, Zenon DEF l
<1>8. QueueOK(Q \cup {s}, b + 1)
  <2>1. TcpLen(s) = 1
    BY <1>3 DEF TcpLen
  <2>2. \A t \in Q \cup {s} : TcpLen(t) \in Nat \ {0} /\ t.seqno + TcpLen(t) <= b + 1
    BY <1>1, <1>3, <1>7, <2>1
  <2>3. ASSUME NEW t \in Q \cup {s}, NEW u \in Q \cup {s}, t # u
        PROVE  t.seqno + t.len <= u.seqno \/ u.seqno + u.len <= t.seqno
    <3>1. CASE t \in Q /\ u \in Q
      BY <1>1, <2>3, <3>1, Zenon DEF QueueOK
    <3>2. CASE t = s /\ u \in Q
      BY <1>1, <1>3, <1>7, <3>2, Zenon
    <3>3. CASE u = s /\ t \in Q
      BY <1>1, <1>3, <1>7, <3>3, Zenon
    <3> QED  BY <2>3, <3>1, <3>2, <3>3, Zenon
  <2>4. Q \cup {s} \subseteq Segs /\ b + 1 \in Nat
    BY <1>1, <1>4 DEF QueueOK
  <2> QED  BY <2>2, <2>3, <2>4, Zenon DEF QueueOK
<1>9. Octets(Q \cup {s}) = Octets(Q)
  <2>1. s.seqno .. s.seqno + s.len - 1 = {}
    BY <1>1, <1>3
  <2>2. UNION {t.seqno .. t.seqno + t.len - 1 : t \in Q \cup {s}} =
        UNION {t.seqno .. t.seqno + t.len - 1 : t \in Q}
    BY <2>1, Zenon
  <2> QED  BY <2>2, Zenon DEF Octets
<1>10. SendOK(q)
  BY <1>1, <1>6, <1>8, <1>9, Zenon DEF SendOK
<1>11. \A t \in Queue(q) : t \in Queue(p) \/ (t.len = 0 /\ t.flag = "SYN")
  <2>1. \A t \in Q \cup {s} : t \in Q \/ (t.len = 0 /\ t.flag = "SYN")
    BY <1>3, Zenon
  <2>2. Queue(q) = Q \cup {s}
    BY <1>6, Zenon
  <2> QED  BY <2>1, <2>2, Zenon DEF Q
<1> QED  BY <1>2, <1>5, <1>6, <1>10, <1>11, Zenon

(* A freed pcb has nothing left to receive or to report.                   *)
LEMMA FreedPcb ==
  ASSUME NEW p, IsPcb(p), RecvOK(p)
  PROVE  LET q == Freed(p)
         IN  /\ IsPcb(q) /\ RecvOK(q) /\ q.state = "FREE" /\ ~q.called /\ q.rst = p.rst
             /\ q.fin = p.fin /\ q.rcv_nxt = p.rcv_nxt /\ q.rcv_wnd = TCP_WND
             /\ q.ooseq = {} /\ q.flags = {} /\ ~q.refused /\ q.input = FALSE
             /\ q.recv_flags = {} /\ q.recv_acked = 0 /\ q.recv_data = <<>>
<1> DEFINE q == Freed(p)
<1>1. IsPcb(q)
  BY Zenon DEF Freed, NewPcb, IsPcb
<1>2. /\ q.state = "FREE" /\ ~q.called /\ q.rst = p.rst /\ q.fin = p.fin
      /\ q.rcv_nxt = p.rcv_nxt /\ q.rcv_wnd = TCP_WND /\ q.rcv_ann_wnd = TCP_WND
      /\ q.right_edge = 1 /\ q.ooseq = {} /\ q.flags = {} /\ ~q.refused /\ q.input = FALSE
      /\ q.recv_flags = {} /\ q.recv_acked = 0 /\ q.recv_data = <<>>
  BY Zenon DEF Freed, NewPcb
<1> HIDE DEF q
<1>3. TCP_WND \in Nat \ {0}
  BY SizesAreAtLeastOne, Zenon
<1>4. RecvOK(q)
  BY <1>2, <1>3 DEF RecvOK
<1> QED  BY <1>1, <1>2, <1>4, Zenon DEF q

(* tcp_close_shutdown_fin queues the FIN and leaves for FIN_WAIT_1 or      *)
(* LAST_ACK.                                                               *)
LEMMA FinEnds ==
  ASSUME NEW p, IsPcb(p), RecvOK(p), p.state \in {"ESTABLISHED", "CLOSE_WAIT"},
         ~p.called, "RXCLOSED" \in p.flags, p.rcv_wnd = TCP_WND, p.input \in BOOLEAN
  PROVE  Ended(p, tcp_close_shutdown_fin(p))
<1> DEFINE f == tcp_send_fin(p)
           st == IF p.state = "CLOSE_WAIT" THEN "LAST_ACK" ELSE "FIN_WAIT_1"
           q == [f EXCEPT !.state = st]
           Kept(r) == /\ SameRecv(p, r) /\ SameStep(p, r) /\ r.right_edge = p.right_edge
                      /\ r.called = p.called /\ "RXCLOSED" \in r.flags
<1>1. IsPcb(f) /\ Kept(f)
  <2> DEFINE last == Hindmost(p.unsent)
             s == [seqno |-> p.snd_lbb, len |-> 0, flag |-> "FIN"]
             g == [p EXCEPT !.unsent = @ \cup {s}, !.snd_lbb = @ + 1, !.flags = @ \cup {"FIN"}]
             t == [last EXCEPT !.flag = "FIN"]
             h == [p EXCEPT !.unsent = (@ \ {last}) \cup {t}, !.flags = @ \cup {"FIN"}]
  <2>1. f = g \/ f = h
    BY Zenon DEF tcp_send_fin, tcp_enqueue_flags
  <2> HIDE DEF s, t, last
  <2>2. IsPcb(g) /\ IsPcb(h)
    BY Zenon DEF IsPcb
  <2>3. Kept(g)
    BY Zenon DEF IsPcb, SameRecv, SameStep
  <2>4. Kept(h)
    BY Zenon DEF IsPcb, SameRecv, SameStep
  <2> HIDE DEF f, g, h, Kept
  <2> QED  BY <2>1, <2>2, <2>3, <2>4, Zenon
<1>2. tcp_close_shutdown_fin(p) = tcp_output(q)
  <2>1. p.state \in {"SYN_RCVD", "ESTABLISHED", "CLOSE_WAIT"}
    BY Zenon
  <2> QED  BY <2>1, Zenon DEF tcp_close_shutdown_fin
<1> HIDE DEF f
<1>3. IsPcb(q) /\ Kept(q) /\ q.state \in Leaving \ {"CLOSE_WAIT"}
  BY <1>1, Zenon DEF IsPcb, SameRecv, SameStep, Leaving
<1> HIDE DEF q
<1> DEFINE r == tcp_output(q)
<1>4. Outputs(q, r)
  BY <1>3, OutputOutputs, Zenon
<1> HIDE DEF r
<1>5. RecvOK(r)
  <2>1. RecvOK(q)
    BY <1>3, Zenon DEF RecvOK, SameRecv
  <2> QED  BY <1>4, <2>1, OutputsRecv, Zenon
<1>6. /\ IsPcb(r) /\ r.called = p.called /\ r.state \in Leaving \ {"CLOSE_WAIT"}
      /\ "RXCLOSED" \in r.flags /\ r.fin = p.fin /\ r.rcv_nxt = p.rcv_nxt
      /\ r.input = p.input /\ r.recv_data = p.recv_data /\ r.recv_flags = p.recv_flags
  BY <1>3, <1>4, Zenon DEF Outputs, SameControl, SameRecv, SameStep
<1>7. "FREE" \notin Leaving
  BY Zenon DEF Leaving
<1>8. p.input => r.right_edge = p.right_edge
  <2>1. q.input => r = q
    BY Zenon DEF r, tcp_output
  <2> QED  BY <1>3, <2>1, Zenon DEF SameStep
<1> QED  BY <1>2, <1>5, <1>6, <1>7, <1>8 DEF Ended, r

(* tcp_close: data that was not taken is answered by a reset, otherwise    *)
(* the connection goes on to its FIN.                                      *)
LEMMA CloseEnds ==
  ASSUME NEW p, IsPcb(p), RecvOK(p), p.state \in {"ESTABLISHED", "CLOSE_WAIT"},
         p.input \in BOOLEAN
  PROVE  Ended(p, tcp_close([p EXCEPT !.called = FALSE]))
<1> DEFINE u == [p EXCEPT !.called = FALSE]
           v == [u EXCEPT !.flags = @ \cup {"RXCLOSED"}]
           q == tcp_pcb_purge(tcp_rst(v))
           tw == [q EXCEPT !.state = "TIME_WAIT"]
           cl == [q EXCEPT !.recv_flags = @ \cup {"CLOSED"}]
           fr == Freed(q)
<1>1. /\ IsPcb(v) /\ ~v.called /\ "RXCLOSED" \in v.flags /\ v.state = p.state
      /\ v.input = p.input /\ v.recv_data = p.recv_data /\ v.fin = p.fin
      /\ v.recv_flags = p.recv_flags
      /\ v.rcv_nxt = p.rcv_nxt /\ v.rcv_wnd = p.rcv_wnd /\ v.rcv_ann_wnd = p.rcv_ann_wnd
      /\ v.right_edge = p.right_edge /\ v.ooseq = p.ooseq
  BY Zenon DEF IsPcb
<1>2. tcp_close(u) = tcp_close_shutdown(v)
  BY Zenon DEF tcp_close
<1> HIDE DEF v
<1>3. RecvOK(v)
  BY <1>1, Zenon DEF RecvOK
<1>4. \/ tcp_close_shutdown(v) = tcp_close_shutdown_fin(v) /\ v.rcv_wnd = TCP_WND
      \/ tcp_close_shutdown(v) = tw
      \/ tcp_close_shutdown(v) = cl /\ v.state = "CLOSE_WAIT"
      \/ tcp_close_shutdown(v) = fr /\ ~v.input
  <2>1. v.state = "ESTABLISHED" \/ v.state = "CLOSE_WAIT"
    BY <1>1, Zenon
  <2> HIDE DEF q
  <2> QED  BY <2>1, Zenon DEF tcp_close_shutdown, q
<1>5. ASSUME NEW r, Ended(v, r) PROVE Ended(p, r)
  BY <1>1, <1>5, Zenon DEF Ended
<1>6. /\ IsPcb(q) /\ ~q.called /\ "RXCLOSED" \in q.flags /\ q.state = p.state /\ q.rst
      /\ q.input = p.input /\ q.recv_data = p.recv_data /\ q.fin = p.fin
      /\ q.rcv_nxt = p.rcv_nxt /\ q.rcv_wnd = p.rcv_wnd /\ q.rcv_ann_wnd = p.rcv_ann_wnd
      /\ q.right_edge = p.right_edge /\ q.ooseq = {} /\ q.recv_flags = p.recv_flags
  <2> DEFINE t == tcp_rst(v)
  <2>1. /\ IsPcb(t) /\ ~t.called /\ "RXCLOSED" \in t.flags /\ t.state = p.state /\ t.rst
        /\ t.input = p.input /\ t.recv_data = p.recv_data /\ t.fin = p.fin
        /\ t.rcv_nxt = p.rcv_nxt /\ t.rcv_wnd = p.rcv_wnd /\ t.rcv_ann_wnd = p.rcv_ann_wnd
        /\ t.right_edge = p.right_edge /\ t.recv_flags = p.recv_flags
    BY <1>1, Zenon DEF tcp_rst, IsPcb
  <2> HIDE DEF t
  <2>2. IsPcb(tcp_pcb_purge(t))
    BY <2>1, Zenon DEF tcp_pcb_purge, IsPcb
  <2>3. q = tcp_pcb_purge(t)
    BY Zenon DEF t
  <2> HIDE DEF q
  <2> QED  BY <2>1, <2>2, <2>3, Zenon DEF tcp_pcb_purge, IsPcb
<1> HIDE DEF q
<1>7. RecvOK(q)
  BY <1>6, Zenon DEF RecvOK
<1>8. Ended(p, tw)
  <2>1. /\ IsPcb(tw) /\ ~tw.called /\ "RXCLOSED" \in tw.flags /\ tw.state = "TIME_WAIT" /\ tw.rst
        /\ tw.input = p.input /\ tw.recv_data = p.recv_data /\ tw.fin = p.fin
        /\ tw.rcv_nxt = p.rcv_nxt /\ tw.rcv_wnd = q.rcv_wnd /\ tw.rcv_ann_wnd = q.rcv_ann_wnd
        /\ tw.right_edge = q.right_edge /\ tw.ooseq = q.ooseq
        /\ tw.recv_flags = p.recv_flags
    BY <1>6, Zenon DEF IsPcb
  <2> HIDE DEF tw
  <2>2. RecvOK(tw)
    BY <1>6, <1>7, <2>1 DEF RecvOK
  <2> QED  BY <1>6, <2>1, <2>2, Zenon DEF Ended
<1>9. ASSUME p.state = "CLOSE_WAIT" PROVE Ended(p, cl)
  <2>1. /\ IsPcb(cl) /\ ~cl.called /\ "RXCLOSED" \in cl.flags /\ cl.state = p.state /\ cl.rst
        /\ cl.input = p.input /\ cl.recv_data = p.recv_data /\ cl.fin = p.fin
        /\ cl.rcv_nxt = p.rcv_nxt /\ cl.rcv_wnd = q.rcv_wnd /\ cl.rcv_ann_wnd = q.rcv_ann_wnd
        /\ cl.right_edge = q.right_edge /\ cl.ooseq = q.ooseq
    BY <1>6 DEF IsPcb
  <2> HIDE DEF cl
  <2>2. RecvOK(cl)
    BY <1>6, <1>7, <2>1, Zenon DEF RecvOK
  <2> QED  BY <1>6, <1>9, <2>1, <2>2, Zenon DEF Ended, Leaving
<1>10. ASSUME ~p.input PROVE Ended(p, fr)
  BY <1>6, <1>7, <1>10, FreedPcb, Zenon DEF Ended
<1>11. ASSUME v.rcv_wnd = TCP_WND PROVE Ended(p, tcp_close_shutdown_fin(v))
  BY <1>1, <1>3, <1>5, <1>11, FinEnds, Zenon
<1> HIDE DEF tw, cl, fr, u
<1> QED
  BY <1>1, <1>2, <1>4, <1>8, <1>9, <1>10, <1>11, Zenon DEF u
=============================================================================
