---------------------------- MODULE LanProtocol -----------------------------
(***************************************************************************)
(* The packets ldn_mitm sends over TCP (lan_protocol.cpp): sendPacket      *)
(* compresses runs of zeros and puts a header in front, recvPartPacket     *)
(* cuts the stream into packets again, recvPacket decompresses them.  The  *)
(* stream is reliable, but a recv may return any part of what has arrived. *)
(*                                                                         *)
(* A header is two units of the stream, its magic number and the rest.     *)
(* Bytes are numbers; MaxRun stands for 0xFF, the longest run of further   *)
(* zeros that fits the count byte.                                         *)
(*                                                                         *)
(* A definition named Mut_X_Y is X with a slip of the kind Y; it is used   *)
(* only to see that a property notices the slip.                           *)
(***************************************************************************)
EXTENDS Integers, Sequences

CONSTANTS
    Bytes,       \* values of the bytes of a packet
    MaxRun,      \* 0xFF
    BufferSize,  \* units a LanSocket holds
    MaxBody,     \* bound: bytes of a packet
    MaxSends     \* bound: packets sent

HeaderSize == 2

ASSUME LanProtocolAssumption ==
    /\ {0} \subseteq Bytes /\ Bytes \subseteq Nat /\ MaxRun \in Nat \ {0}
    /\ {BufferSize, MaxBody, MaxSends} \subseteq Nat
    /\ HeaderSize + MaxBody <= BufferSize

VARIABLES
    sent, delivered,   \* bodies given to sendPacket and to the callback
    stream,            \* what the connection carries
    buffer,            \* the receiver's LanSocket buffer
    failed             \* recvPacket returned an error

vars == <<sent, delivered, stream, buffer, failed>>

Bodies == UNION {[1 .. n -> Bytes] : n \in 0 .. MaxBody}
Byte(b) == [unit |-> "byte", value |-> b]
Values(units) == [i \in 1 .. Len(units) |-> units[i].value]

(* Sequences: whether s begins with d, and those of q one after the other. *)
IsPrefix(d, s) == Len(d) <= Len(s) /\ \A i \in 1 .. Len(d) : s[i] = d[i]
Flatten(q) ==
    LET joined[k \in 0 .. Len(q)] == IF k = 0 THEN <<>> ELSE joined[k - 1] \o q[k]
    IN  joined[Len(q)]

TypeOK ==
    /\ sent \in Seq(Bodies) /\ delivered \in Seq(Bodies)
    /\ \A s \in {stream, buffer} : \A i \in DOMAIN s : s[i].unit \in {"magic", "header", "byte"}
    /\ Len(buffer) <= BufferSize /\ failed \in BOOLEAN
-----------------------------------------------------------------------------
(* One round of the loop of compress, after the bytes read and with what   *)
(* is written.  When there is no room for what it writes, the loop ends    *)
(* with input left, which compress reports.                                *)
CompressRound(in, s) ==
    LET i == s.read + 1
        more == {n \in 0 .. MaxRun : i + n <= Len(in) /\ \A k \in 1 .. n : in[i + k] = 0}
        count == CHOOSE n \in more : \A k \in more : k <= n
        round == IF in[i] # 0 THEN [read |-> i, out |-> Append(s.out, in[i])]
                 ELSE [read |-> i + count, out |-> s.out \o <<0, count>>]
    IN  IF s.read < Len(in) /\ Len(round.out) <= Len(in) THEN round ELSE s

(* Each round reads a byte at least.  The room is the length of the input. *)
compress(in) ==
    LET loop[k \in 0 .. Len(in)] ==
            IF k = 0 THEN [read |-> 0, out |-> <<>>] ELSE CompressRound(in, loop[k - 1])
        end == loop[Len(in)]
    IN  [ok |-> end.read = Len(in), out |-> end.out]

Zeros(n) == [i \in 1 .. n |-> 0]

(* One round of the loop of decompress.  A zero without its count ends it  *)
(* with input left; zeros for which there is no room are left out.         *)
DecompressRound(in, s) ==
    LET i == s.read + 1
        free == BufferSize - Len(s.out) - 1
    IN  IF s.read = Len(in) \/ free < 0 \/ (in[i] = 0 /\ i = Len(in)) THEN s
        ELSE IF in[i] # 0 THEN [read |-> i, out |-> Append(s.out, in[i])]
        ELSE [read |-> i + 1,
              out |-> s.out \o Zeros(1 + IF in[i + 1] <= free THEN in[i + 1] ELSE free)]

(* Each round writes a byte at least.                                      *)
decompress(in) ==
    LET loop[k \in 0 .. BufferSize] ==
            IF k = 0 THEN [read |-> 0, out |-> <<>>] ELSE DecompressRound(in, loop[k - 1])
        end == loop[BufferSize]
    IN  [ok |-> end.read = Len(in), out |-> end.out]
-----------------------------------------------------------------------------
(* What sendPacket puts on the stream; an empty body is not compressed.    *)
Packet(body) ==
    LET c == compress(body)
        data == IF c.ok THEN c.out ELSE body
    IN  <<[unit |-> "magic"],
          [unit |-> "header", compressed |-> c.ok /\ body # <<>>, length |-> Len(data),
           decompress_length |-> IF c.ok THEN Len(body) ELSE 0]>>
        \o [i \in 1 .. Len(data) |-> Byte(data[i])]

sendPacket(body) ==
    /\ Len(sent) < MaxSends
    /\ sent' = Append(sent, body)
    /\ stream' = stream \o Packet(body)
    /\ UNCHANGED <<delivered, buffer, failed>>
-----------------------------------------------------------------------------
(* recvPartPacket on what the buffer holds after the recv: how much of it  *)
(* is a packet for recvPacket (0 if none yet), and what stays.             *)
Mut_recvPartPacket_WaitsForMore(all) ==
    IF Len(all) < HeaderSize THEN [total |-> 0, rest |-> all]
    ELSE IF all[1].unit # "magic" \/ HeaderSize + all[2].length > BufferSize
    THEN [total |-> 0, rest |-> <<>>]
    ELSE LET total == HeaderSize + all[2].length
         IN  IF Len(all) <= total THEN [total |-> 0, rest |-> all]
             ELSE [total |-> total, rest |-> SubSeq(all, total + 1, Len(all))]

recvPartPacket(all) ==
    IF Len(all) < HeaderSize THEN [total |-> 0, rest |-> all]
    ELSE IF all[1].unit # "magic" \/ HeaderSize + all[2].length > BufferSize
    THEN [total |-> 0, rest |-> <<>>]
    ELSE LET total == HeaderSize + all[2].length
         IN  IF Len(all) < total THEN [total |-> 0, rest |-> all]
             ELSE [total |-> total, rest |-> SubSeq(all, total + 1, Len(all))]

(* recvPacket when n units of the stream arrive with the recv.             *)
recvPacket(n) ==
    LET all == buffer \o SubSeq(stream, 1, n)
        part == recvPartPacket(all)
        data == Values(SubSeq(all, HeaderSize + 1, part.total))
        plain == decompress(data)
    IN  /\ ~failed
        /\ stream' = SubSeq(stream, n + 1, Len(stream))
        /\ buffer' = part.rest
        /\ IF part.total = 0 THEN UNCHANGED <<delivered, failed>>
           ELSE IF ~all[2].compressed THEN delivered' = Append(delivered, data) /\ UNCHANGED failed
           ELSE IF plain.ok /\ Len(plain.out) = all[2].decompress_length
           THEN delivered' = Append(delivered, plain.out) /\ UNCHANGED failed
           ELSE failed' = TRUE /\ UNCHANGED delivered
        /\ UNCHANGED sent

-----------------------------------------------------------------------------
Init == sent = <<>> /\ delivered = <<>> /\ stream = <<>> /\ buffer = <<>> /\ failed = FALSE

Next ==
    \/ \E body \in Bodies : sendPacket(body)
    \/ \E n \in 1 .. BufferSize : n <= Len(stream) /\ n <= BufferSize - Len(buffer) /\ recvPacket(n)

Spec == Init /\ [][Next]_vars
-----------------------------------------------------------------------------
(* The stream is not damaged, nothing of it is lost or left behind, and a  *)
(* healthy connection is never taken for a broken one, however the stream  *)
(* is cut and whether or not a body is compressed: what the callback got   *)
(* is what was sent, the buffer and the stream hold exactly the packets    *)
(* sent and not delivered, no packet fails to decompress, and the buffer   *)
(* has room for every recv (a recv into no room returns 0, which recvfrom  *)
(* takes for the end of the connection).                                   *)
SentIsDelivered ==
    /\ IsPrefix(delivered, sent)
    /\ buffer \o stream = Flatten([i \in 1 .. Len(sent) - Len(delivered)
                                       |-> Packet(sent[Len(delivered) + i])])
    /\ ~failed /\ Len(buffer) < BufferSize
=============================================================================
