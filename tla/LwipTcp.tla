------------------------------ MODULE LwipTcp ------------------------------
(* One TCP protocol control block of the gateway's lwIP stack: lwip's      *)
(* tcp_in.c, tcp_out.c and tcp.c as lwipopts.h configures them, without    *)
(* the calls to the application.  Every function of the stack is an        *)
(* operator from pcb to pcb.                                               *)
(*                                                                         *)
(* Sequence numbers count from the console's SYN and from ours, which are  *)
(* both 0.  The console's stream is bytes 1 .. fin - 1 and its FIN is at   *)
(* fin.  A queue of segments is a set, as no two share a sequence number,  *)
(* and the out-of-sequence queue the set of sequence numbers it holds.     *)
(* The fields input, wnd, recv_flags, recv_acked and recv_data belong to   *)
(* the step being taken: tcp_input_pcb, the smaller of the send and the    *)
(* congestion window, and what tcp_process tells tcp_input.                *)
(*                                                                         *)
(* Mut_X_Y is X with a slip of the kind Y.                                 *)
EXTENDS Integers, Sequences, FiniteSets

CONSTANTS
    TCP_WND,                     \* the receive window
    TCP_SND_BUF,                 \* the send buffer
    TCP_MSS,                     \* the largest segment
    TCP_WND_UPDATE_THRESHOLD     \* the window update that is sent at once

ASSUME SizesAreAtLeastOne ==
    {TCP_WND, TCP_SND_BUF, TCP_MSS, TCP_WND_UPDATE_THRESHOLD} \subseteq Nat \ {0}

(* The send buffer is a number of whole segments: 16384 and 512 octets in  *)
(* lwipopts.h.                                                             *)
ASSUME WholeSegments == \E k \in 1 .. TCP_SND_BUF : TCP_SND_BUF = k * TCP_MSS

Least(a, b) == IF a < b THEN a ELSE b
Greatest(a, b) == IF a < b THEN b ELSE a

(* TCP_TCPLEN.                                                             *)
TcpLen(seg) == seg.len + IF seg.flag = "none" THEN 0 ELSE 1

Foremost(segs) == CHOOSE s \in segs : \A t \in segs : s.seqno <= t.seqno
Hindmost(segs) == CHOOSE s \in segs : \A t \in segs : t.seqno <= s.seqno
Octets(segs) == Cardinality(UNION {s.seqno .. s.seqno + s.len - 1 : s \in segs})

(* The pcb tcp_listen_input makes for a SYN, before its SYN-ACK.           *)
NewPcb(fin) ==
    [state |-> "SYN_RCVD", fin |-> fin, rcv_nxt |-> 1, rcv_wnd |-> TCP_WND,
     rcv_ann_wnd |-> TCP_WND, right_edge |-> 1, ooseq |-> {}, flags |-> {},
     unsent |-> {}, unacked |-> {}, snd_nxt |-> 0, lastack |-> 0, snd_lbb |-> 0,
     snd_buf |-> TCP_SND_BUF, refused |-> FALSE, called |-> FALSE, rst |-> FALSE,
     input |-> FALSE, wnd |-> 0, recv_flags |-> {}, recv_acked |-> 0, recv_data |-> <<>>]

(* tcp_pcb_purge and memp_free.  Nobody looks at a freed pcb.              *)
Freed(p) == [NewPcb(p.fin) EXCEPT !.state = "FREE", !.rst = p.rst, !.rcv_nxt = p.rcv_nxt]

tcp_rst(p) == [p EXCEPT !.rst = TRUE]

tcp_pcb_purge(p) ==
    [p EXCEPT !.refused = FALSE, !.ooseq = {}, !.unsent = {}, !.unacked = {}]
-----------------------------------------------------------------------------
(* Acknowledgements and output.                                            *)

tcp_ack(p) ==
    [p EXCEPT !.flags = IF "ACK_DELAY" \in @ THEN (@ \ {"ACK_DELAY"}) \cup {"ACK_NOW"}
                        ELSE @ \cup {"ACK_DELAY"}]

tcp_ack_now(p) == [p EXCEPT !.flags = @ \cup {"ACK_NOW"}]

(* Every segment we send acknowledges and announces the window.            *)
Announced(p) ==
    [p EXCEPT !.flags = @ \ {"ACK_DELAY", "ACK_NOW"}, !.right_edge = p.rcv_nxt + p.rcv_ann_wnd]

tcp_send_empty_ack(p) == Announced(p)

Fits(p, seg) == seg.seqno - p.lastack + seg.len <= p.wnd

tcp_do_output_nagle(p, seg) ==
    \/ p.unacked = {} /\ seg = Foremost(p.unsent)
    \/ seg # Hindmost(p.unsent)
    \/ seg.len >= TCP_MSS
    \/ p.snd_buf = 0
    \/ "FIN" \in p.flags

tcp_output(p) ==
    LET go == {s \in p.unsent : \A t \in p.unsent :
                 t.seqno <= s.seqno => Fits(p, t) /\ tcp_do_output_nagle(p, t)}
    IN  IF p.input THEN p
        ELSE IF "ACK_NOW" \in p.flags /\ (p.unsent = {} \/ ~Fits(p, Foremost(p.unsent)))
        THEN tcp_send_empty_ack(p)
        ELSE IF go = {} THEN p
        ELSE [Announced(p) EXCEPT
                !.unsent = @ \ go, !.unacked = @ \cup go,
                !.snd_nxt = Greatest(@, Hindmost(go).seqno + TcpLen(Hindmost(go)))]

(* The segments tcp_write makes of n more octets: the last unsent segment  *)
(* takes what it has room for.                                             *)
tcp_write(p, n) ==
    LET last == Hindmost(p.unsent)
        room == IF p.unsent = {} THEN 0 ELSE IF last.len = 0 THEN 0 ELSE TCP_MSS - last.len
        more == Least(room, n)
        kept == IF more = 0 THEN p.unsent
                ELSE (p.unsent \ {last}) \cup {[last EXCEPT !.len = @ + more]}
        new == {[seqno |-> p.snd_lbb + more + k * TCP_MSS,
                 len |-> Least(TCP_MSS, n - more - k * TCP_MSS), flag |-> "none"] :
                  k \in {i \in 0 .. n : i * TCP_MSS < n - more}}
    IN  [p EXCEPT !.unsent = kept \cup new, !.snd_lbb = @ + n, !.snd_buf = @ - n]

tcp_enqueue_flags(p, flag) ==
    [p EXCEPT !.unsent = @ \cup {[seqno |-> p.snd_lbb, len |-> 0, flag |-> flag]},
              !.snd_lbb = @ + 1,
              !.flags = IF flag = "FIN" THEN @ \cup {"FIN"} ELSE @]

(* The FIN goes on the last unsent segment when it carries no flag yet.    *)
tcp_send_fin(p) ==
    LET last == Hindmost(p.unsent)
    IN  IF p.unsent = {} \/ last.flag # "none" THEN tcp_enqueue_flags(p, "FIN")
        ELSE [p EXCEPT !.unsent = (@ \ {last}) \cup {[last EXCEPT !.flag = "FIN"]},
                       !.flags = @ \cup {"FIN"}]

tcp_rexmit(p) ==
    IF p.unacked = {} THEN p
    ELSE LET seg == Foremost(p.unacked)
         IN  [p EXCEPT !.unacked = @ \ {seg}, !.unsent = @ \cup {seg}]

tcp_rexmit_rto(p) == tcp_output([p EXCEPT !.unsent = @ \cup p.unacked, !.unacked = {}])

(* One octet of the first segment is sent, or the FIN.                     *)
tcp_zero_window_probe(p) ==
    LET seg == Foremost(IF p.unacked # {} THEN p.unacked ELSE p.unsent)
    IN  [p EXCEPT !.right_edge = p.rcv_nxt + p.rcv_ann_wnd,
                  !.snd_nxt = Greatest(@, seg.seqno + 1)]
-----------------------------------------------------------------------------
(* The application takes octets or closes.                                 *)

tcp_update_rcv_ann_wnd(p) ==
    LET edge == p.rcv_nxt + p.rcv_wnd
    IN  [p EXCEPT !.rcv_ann_wnd =
           IF edge >= p.right_edge + Least(TCP_WND \div 2, TCP_MSS) THEN p.rcv_wnd
           ELSE Greatest(0, p.right_edge - p.rcv_nxt)]

tcp_recved(p, n) ==
    LET q == tcp_update_rcv_ann_wnd([p EXCEPT !.rcv_wnd = Least(@ + n, TCP_WND)])
        inflation == IF q.rcv_nxt + q.rcv_wnd >= p.right_edge + Least(TCP_WND \div 2, TCP_MSS)
                     THEN q.rcv_nxt + q.rcv_wnd - p.right_edge ELSE 0
    IN  IF inflation >= TCP_WND_UPDATE_THRESHOLD THEN tcp_output(tcp_ack_now(q)) ELSE q

tcp_close_shutdown_fin(p) ==
    IF p.state \in {"SYN_RCVD", "ESTABLISHED", "CLOSE_WAIT"}
    THEN tcp_output([tcp_send_fin(p) EXCEPT
           !.state = IF p.state = "CLOSE_WAIT" THEN "LAST_ACK" ELSE "FIN_WAIT_1"])
    ELSE p

Mut_tcp_close_shutdown_NoReset(p) == tcp_close_shutdown_fin(p)

(* Octets the application has not taken make the close a reset.            *)
tcp_close_shutdown(p) ==
    IF p.state \in {"ESTABLISHED", "CLOSE_WAIT"} /\ (p.refused \/ p.rcv_wnd # TCP_WND)
    THEN LET q == tcp_pcb_purge(tcp_rst(p))
         IN  IF p.state = "ESTABLISHED" THEN [q EXCEPT !.state = "TIME_WAIT"]
             ELSE IF p.input THEN [q EXCEPT !.recv_flags = @ \cup {"CLOSED"}]
             ELSE Freed(q)
    ELSE tcp_close_shutdown_fin(p)

tcp_close(p) == tcp_close_shutdown([p EXCEPT !.flags = @ \cup {"RXCLOSED"}])

(* tcp_abort; nothing is sent in TIME_WAIT.                                *)
tcp_abandon(p) == Freed(IF p.state = "TIME_WAIT" THEN p ELSE tcp_rst(p))
-----------------------------------------------------------------------------
(* Input.  A segment is its sequence number, octets, FIN, acknowledgement, *)
(* whether it is the third duplicate acknowledgement in a row, and what    *)
(* queueing it out of sequence cuts off.                                   *)

TcpLenOf(s) == s.len + IF s.fin THEN 1 ELSE 0

(* tcp_receive, the acknowledgement.                                       *)
ReceiveAck(p, s) ==
    LET new == s.ackno \in p.lastack + 1 .. p.snd_nxt
        sent(seg) == seg.seqno + TcpLen(seg) <= s.ackno
        gone == {seg \in p.unsent : sent(seg)} \cup {seg \in p.unacked : new /\ sent(seg)}
        q == [p EXCEPT !.lastack = IF new THEN s.ackno ELSE @,
                       !.unsent = @ \ gone, !.unacked = @ \ gone,
                       !.recv_acked = Octets(gone), !.snd_buf = @ + Octets(gone)]
    IN  IF s.dup3 THEN tcp_rexmit(q) ELSE q

(* The next segment in sequence: it, and what it connects to, is received. *)
ReceiveInOrder(p, s) ==
    LET end == Least(s.seqno + TcpLenOf(s), p.rcv_nxt + p.rcv_wnd)
        have == (p.rcv_nxt .. end - 1) \cup p.ooseq
        nxt == CHOOSE x \in end .. end + TCP_WND :
                 x \notin have /\ end .. x - 1 \subseteq have
        last == Least(nxt, p.fin)
        q == [p EXCEPT !.rcv_nxt = nxt, !.rcv_wnd = @ - (nxt - p.rcv_nxt),
                       !.ooseq = {x \in @ : x > nxt},
                       !.recv_data = [i \in 1 .. last - p.rcv_nxt |-> p.rcv_nxt + i - 1],
                       !.recv_flags = IF nxt > p.fin THEN @ \cup {"GOT_FIN"} ELSE @]
    IN  tcp_ack(tcp_update_rcv_ann_wnd(q))

(* Ahead of sequence: it is queued, and what we have acknowledged again.   *)
(* Where segments overlap on the queue some of it may be cut off.          *)
ReceiveOutOfOrder(p, s) ==
    LET all == p.ooseq \cup (s.seqno .. s.seqno + TcpLenOf(s) - 1)
    IN  [tcp_send_empty_ack(p) EXCEPT !.ooseq = IF @ = {} THEN all ELSE all \ s.cut]

(* tcp_receive, the octets; what we have is trimmed off the front.         *)
ReceiveData(p, s) ==
    LET skip == Greatest(0, p.rcv_nxt - s.seqno)
        t == IF skip = 0 \/ skip >= TcpLenOf(s) THEN s
             ELSE [s EXCEPT !.seqno = p.rcv_nxt, !.len = @ - skip]
        q == IF s.seqno < p.rcv_nxt /\ t = s THEN tcp_ack_now(p) ELSE p
    IN  IF TcpLenOf(s) = 0 \/ p.state \notin {"ESTABLISHED", "FIN_WAIT_1", "FIN_WAIT_2"}
        THEN IF s.seqno \in p.rcv_nxt .. p.rcv_nxt + p.rcv_wnd - 1 THEN p ELSE tcp_ack_now(p)
        ELSE IF t.seqno \notin p.rcv_nxt .. p.rcv_nxt + p.rcv_wnd - 1 THEN tcp_send_empty_ack(q)
        ELSE IF t.seqno = p.rcv_nxt THEN ReceiveInOrder(q, t) ELSE ReceiveOutOfOrder(q, t)

tcp_receive(p, s) == ReceiveData(ReceiveAck(p, s), s)

(* tcp_process after SYN_RCVD.                                             *)
tcp_process_synchronized(p, s) ==
    LET q == tcp_receive(p, s)
        fin == "GOT_FIN" \in q.recv_flags
        acked == s.ackno = q.snd_nxt /\ q.unsent = {}
        goes(st) == [IF fin THEN tcp_ack_now(q) ELSE q EXCEPT !.state = st]
        timeWait == tcp_pcb_purge(goes("TIME_WAIT"))
    IN  CASE p.state \in {"ESTABLISHED", "CLOSE_WAIT"} -> IF fin THEN goes("CLOSE_WAIT") ELSE q
          [] p.state = "FIN_WAIT_1" ->
               IF fin THEN IF acked THEN timeWait ELSE goes("CLOSING")
               ELSE IF acked THEN goes("FIN_WAIT_2") ELSE q
          [] p.state = "FIN_WAIT_2" -> IF fin THEN timeWait ELSE q
          [] p.state = "CLOSING" -> IF acked THEN timeWait ELSE q
          [] p.state = "LAST_ACK" ->
               IF acked THEN [q EXCEPT !.recv_flags = @ \cup {"CLOSED"}] ELSE q

tcp_timewait_input(p, s) ==
    IF TcpLenOf(s) > 0 THEN tcp_output(tcp_ack_now(p)) ELSE p
=============================================================================
