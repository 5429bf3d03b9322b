----------------------------- MODULE PacketProofs ---------------------------
(***************************************************************************)
(* Proofs about the two ways in which the system cuts packets and puts     *)
(* them together again; they share no state.                               *)
(*                                                                         *)
(* LanProtocol: what the callback of a LanSocket gets is what the other    *)
(* side gave to sendPacket (SentIsDelivered), for bodies of any bytes, any *)
(* size of the buffer that holds them, any longest run of zeros, and       *)
(* however the stream is cut.  The loops of compress and decompress and    *)
(* that of Flatten are functions of the number of rounds.  UpTo is the     *)
(* induction over rounds, Recursion says that such a function exists.      *)
(* RoundTrip then follows the two loops side by side: after each round     *)
(* decompress has read what compress has written and written what compress *)
(* has read.                                                               *)
(*                                                                         *)
(* FragReassembly, for any senders, number of slots and widths of the ids. *)
(* OneSlotPerPacket is inductive once the slots have their types: a slot   *)
(* is given to a packet only when no used slot holds it, and keeping a     *)
(* part changes neither the source nor the id of its slot.                 *)
(***************************************************************************)
EXTENDS LanProtocol, FragReassembly, WellFoundedInduction, TLAPS

(* Time limits of the provers, for the many facts in scope.                *)
USE SMTT(20), ZenonT(30)

(* Sequences with the same members in the same places are the same.        *)
LEMMA SameMembers ==
  ASSUME NEW S, NEW a \in Seq(S), NEW b \in Seq(S), Len(a) = Len(b),
         \A i \in 1 .. Len(a) : a[i] = b[i]
  PROVE  a = b
OBVIOUS

(* Where the members of two joined sequences are.                          *)
LEMMA JoinedIs ==
  ASSUME NEW S, NEW a \in Seq(S), NEW b \in Seq(S)
  PROVE  /\ a \o b \in Seq(S) /\ Len(a \o b) = Len(a) + Len(b)
         /\ \A i \in 1 .. Len(a) + Len(b) :
               (a \o b)[i] = IF i <= Len(a) THEN a[i] ELSE b[i - Len(a)]
OBVIOUS

(* The part of a sequence from its first member to its last.               *)
LEMMA AllOfIt ==
  ASSUME NEW S, NEW s \in Seq(S)
  PROVE  SubSeq(s, 1, Len(s)) = s
OBVIOUS

(* A part that is cut in two.                                              *)
LEMMA CutJoined ==
  ASSUME NEW S, NEW s \in Seq(S), NEW i \in 1 .. Len(s) + 1, NEW j \in i - 1 .. Len(s),
         NEW k \in j .. Len(s)
  PROVE  SubSeq(s, i, j) \o SubSeq(s, j + 1, k) = SubSeq(s, i, k)
OBVIOUS

(* A nonempty set of naturals has a least element.                         *)
LEMMA LeastNat ==
  ASSUME NEW S \in SUBSET Nat, S # {}
  PROVE  \E x \in S : \A y \in S : x <= y
<1> DEFINE R == OpToRel(<, Nat)
<1>1. IsWellFoundedOn(R, Nat)
  BY NatLessThanWellFounded, Zenon
<1>2. \A x, y \in Nat : x < y => <<x, y>> \in R
  BY Zenon DEF OpToRel
<1> HIDE DEF R
<1>3. PICK x \in S : \A y \in S : <<y, x>> \notin R
  BY <1>1, WFMin, Zenon
<1>4. ASSUME NEW y \in S PROVE x <= y
  <2>1. ~(y < x)
    BY <1>2, <1>3, Zenon
  <2> QED  BY <2>1
<1> QED  BY <1>4, Zenon

(* Induction up to a bound, with a set for the property.                   *)
LEMMA UpTo ==
  ASSUME NEW N \in Nat, NEW T, 0 \in T,
         \A k \in 0 .. N : k \in T /\ k + 1 <= N => k + 1 \in T
  PROVE  0 .. N \subseteq T
<1> DEFINE S == (0 .. N) \ T
<1>1. SUFFICES ASSUME S # {} PROVE FALSE
  BY Zenon
<1>2. S \in SUBSET Nat
  OBVIOUS
<1> HIDE DEF S
<1>3. PICK n \in S : \A k \in S : n <= k
  BY <1>1, <1>2, LeastNat, Zenon
<1>4. n \in 0 .. N /\ n \notin T /\ n # 0
  BY Zenon DEF S
<1>5. n - 1 \in 0 .. N /\ n - 1 \notin S
  BY <1>3, <1>4
<1> QED  BY <1>4, <1>5 DEF S

(* f starts with a, and G gives each value from the one before.            *)
Iterates(f, n, a, G) == f = [k \in 0 .. n |-> IF k = 0 THEN a ELSE G[k][f[k - 1]]]

(* A function that is defined by what it is at 0 and how each value        *)
(* follows from the one before exists.                                     *)
LEMMA Recursion ==
  ASSUME NEW N \in Nat, NEW S, NEW a \in S, NEW G \in [1 .. N -> [S -> S]]
  PROVE  \E f \in [0 .. N -> S] : Iterates(f, N, a, G)
<1> USE DEF Iterates
<1> DEFINE Good(n, f) == Iterates(f, n, a, G)
           T == {n \in 0 .. N : \E f \in [0 .. n -> S] : Good(n, f)}
<1>1. 0 \in T
  <2> DEFINE f == [k \in 0 .. 0 |-> a]
  <2>1. f \in [0 .. 0 -> S] /\ Good(0, f)
    OBVIOUS
  <2> HIDE DEF f, Good
  <2> QED  BY <2>1
<1>2. ASSUME NEW n \in 0 .. N, n \in T, n + 1 <= N PROVE n + 1 \in T
  <2>1. PICK f \in [0 .. n -> S] : Good(n, f)
    BY <1>2, Zenon
  <2> DEFINE g == [k \in 0 .. n + 1 |-> IF k = n + 1 THEN G[n + 1][f[n]] ELSE f[k]]
  <2>2. G[n + 1][f[n]] \in S
    BY <1>2
  <2>3. g \in [0 .. n + 1 -> S]
    BY <2>2
  <2>4. ASSUME NEW k \in 0 .. n + 1
        PROVE  g[k] = IF k = 0 THEN a ELSE G[k][g[k - 1]]
    <3>1. CASE k = n + 1
      BY <3>1
    <3>2. CASE k \in 0 .. n
      <4>1. f[k] = IF k = 0 THEN a ELSE G[k][f[k - 1]]
        BY <2>1, <3>2, Zenon
      <4>2. g[k] = f[k] /\ (k # 0 => g[k - 1] = f[k - 1])
        BY <3>2
      <4> QED  BY <4>1, <4>2, Zenon
    <3> QED  BY <3>1, <3>2
  <2>5. Good(n + 1, g)
    BY <2>3, <2>4, Zenon
  <2> HIDE DEF g, Good
  <2> QED  BY <1>2, <2>3, <2>5
<1>3. 0 .. N \subseteq T
  BY <1>1, <1>2, UpTo, Zenon
<1> QED  BY <1>3
-----------------------------------------------------------------------------
(* The loops of compress and decompress.                                   *)

(* The states of both loops.                                               *)
LoopStates == [read : Nat, out : Seq(Nat)]
LoopStart == [read |-> 0, out |-> <<>>]

(* The buffer has a size.                                                  *)
LEMMA BufferIsNat ==
  BufferSize \in Nat /\ MaxBody \in Nat /\ 2 + MaxBody <= BufferSize
BY LanProtocolAssumption, Zenon DEF HeaderSize

(* The zeros that can be counted with the one at i.                        *)
More(in, i) == {n \in 0 .. MaxRun : i + n <= Len(in) /\ \A k \in 1 .. n : in[i + k] = 0}
Count(in, i) == CHOOSE n \in More(in, i) : \A k \in More(in, i) : k <= n

(* compress counts zeros that are there.                                   *)
LEMMA CountCounts ==
  ASSUME NEW in \in Seq(Nat), NEW i \in 1 .. Len(in)
  PROVE  Count(in, i) \in More(in, i)
<1> DEFINE S == {MaxRun - n : n \in More(in, i)}
<1>1. MaxRun \in Nat /\ Len(in) \in Nat
  BY LanProtocolAssumption
<1>2. 0 \in More(in, i) /\ More(in, i) \subseteq 0 .. MaxRun
  BY <1>1 DEF More
<1>3. S \in SUBSET Nat /\ S # {}
  BY <1>1, <1>2
<1>4. PICK x \in S : \A y \in S : x <= y
  BY <1>3, LeastNat, Zenon
<1>5. PICK n \in More(in, i) : x = MaxRun - n
  BY Zenon
<1>6. ASSUME NEW k \in More(in, i) PROVE k <= n
  <2>1. x <= MaxRun - k
    BY <1>4, Zenon
  <2> QED  BY <1>1, <1>2, <1>5, <2>1
<1> QED  BY <1>5, <1>6, Zenon DEF Count

(* What a round of compress does.                                          *)
LEMMA CompressRounds ==
  ASSUME NEW in \in Seq(Nat), NEW s \in LoopStates
  PROVE  LET t == CompressRound(in, s)
             i == s.read + 1
         IN  \/ t = s
             \/ /\ s.read < Len(in) /\ in[i] # 0 /\ Len(s.out) + 1 <= Len(in)
                /\ t = [read |-> i, out |-> Append(s.out, in[i])]
             \/ /\ s.read < Len(in) /\ in[i] = 0 /\ Len(s.out) + 2 <= Len(in)
                /\ t = [read |-> i + Count(in, i), out |-> s.out \o <<0, Count(in, i)>>]
<1> DEFINE i == s.read + 1
           a == [read |-> i, out |-> Append(s.out, in[i])]
           b == [read |-> i + Count(in, i), out |-> s.out \o <<0, Count(in, i)>>]
           r == IF in[i] # 0 THEN a ELSE b
<1>1. CompressRound(in, s) = IF s.read < Len(in) /\ Len(r.out) <= Len(in) THEN r ELSE s
  BY Zenon DEF CompressRound, Count, More
<1>2. s.out \in Seq(Nat) /\ s.read \in Nat
  BY Zenon DEF LoopStates
<1>3. ASSUME s.read < Len(in), in[i] # 0, Len(r.out) <= Len(in)
      PROVE  Len(s.out) + 1 <= Len(in)
  <2>1. r.out = Append(s.out, in[i]) /\ in[i] \in Nat
    BY <1>2, <1>3
  <2> QED  BY <1>2, <1>3, <2>1
<1>4. ASSUME s.read < Len(in), in[i] = 0, Len(r.out) <= Len(in)
      PROVE  Len(s.out) + 2 <= Len(in)
  <2> DEFINE c == Count(in, i)
  <2>1. r.out = s.out \o <<0, c>>
    BY <1>4, Zenon
  <2>2. i \in 1 .. Len(in)
    BY <1>2, <1>4
  <2>3. c \in Nat
    BY <2>2, CountCounts DEF More
  <2> HIDE DEF c
  <2>4. Len(s.out \o <<0, c>>) = Len(s.out) + 2
    BY <1>2, <2>3
  <2> QED  BY <1>2, <1>4, <2>1, <2>4, Zenon
<1> HIDE DEF r
<1>5. (in[i] # 0 => r = a) /\ (in[i] = 0 => r = b)
  BY Zenon DEF r
<1> HIDE DEF a, b, i
<1>6. QED  BY <1>1, <1>3, <1>4, <1>5, Zenon DEF a, b, i

(* The states of compress between two rounds.                              *)
CompressStates(in) == {s \in LoopStates : s.read <= Len(in) /\ Len(s.out) <= Len(in)}

(* What a round of compress has written, the rounds after it keep, and it  *)
(* stays within the room.                                                  *)
LEMMA CompressKeeps ==
  ASSUME NEW in \in Seq(Nat), NEW s \in CompressStates(in)
  PROVE  LET t == CompressRound(in, s)
         IN  /\ t \in CompressStates(in) /\ Len(s.out) <= Len(t.out)
             /\ \A j \in 1 .. Len(s.out) : t.out[j] = s.out[j]
<1> DEFINE t == CompressRound(in, s)
           i == s.read + 1
           c == Count(in, i)
<1> SUFFICES /\ t \in CompressStates(in) /\ Len(s.out) <= Len(t.out)
             /\ \A j \in 1 .. Len(s.out) : t.out[j] = s.out[j]
  BY Zenon
<1>1. /\ s \in LoopStates /\ s.out \in Seq(Nat) /\ s.read \in Nat
      /\ s.read <= Len(in) /\ Len(s.out) <= Len(in)
  BY Zenon DEF LoopStates, CompressStates
<1>2. CASE t = s
  BY <1>1, <1>2
<1>3. CASE /\ s.read < Len(in) /\ Len(s.out) + 1 <= Len(in)
           /\ t = [read |-> i, out |-> Append(s.out, in[i])]
  <2>1. in[i] \in Nat /\ i \in Nat /\ i <= Len(in)
    <3>1. s.read < Len(in)
      BY <1>3, Zenon
    <3> HIDE DEF t
    <3> QED  BY ONLY <1>1, <3>1, in \in Seq(Nat)
  <2>2. t.read = i /\ t.out = Append(s.out, in[i]) /\ t \in LoopStates
    BY <1>1, <1>3, <2>1 DEF LoopStates
  <2> HIDE DEF t, i
  <2>3. Len(t.out) = Len(s.out) + 1 /\ \A j \in 1 .. Len(s.out) : t.out[j] = s.out[j]
    BY <1>1, <2>1, <2>2
  <2>4. t.read <= Len(in)
    BY <2>1, <2>2, Zenon
  <2>5. Len(t.out) <= Len(in) /\ Len(s.out) <= Len(t.out)
    <3>1. Len(s.out) + 1 <= Len(in)
      BY <1>3, Zenon
    <3> QED  BY ONLY <1>1, <2>3, <3>1
  <2> QED  BY <2>2, <2>3, <2>4, <2>5, Zenon DEF CompressStates
<1>4. CASE /\ s.read < Len(in) /\ Len(s.out) + 2 <= Len(in)
           /\ t = [read |-> i + c, out |-> s.out \o <<0, c>>]
  <2>1. i \in 1 .. Len(in)
    <3>1. s.read < Len(in)
      BY <1>4, Zenon
    <3> HIDE DEF t
    <3> QED  BY ONLY <1>1, <3>1, in \in Seq(Nat)
  <2>2. c \in Nat /\ i + c <= Len(in)
    BY <2>1, CountCounts DEF More
  <2> HIDE DEF c
  <2>3. /\ s.out \o <<0, c>> \in Seq(Nat) /\ Len(s.out \o <<0, c>>) = Len(s.out) + 2
        /\ \A j \in 1 .. Len(s.out) : (s.out \o <<0, c>>)[j] = s.out[j]
    BY <1>1, <2>2
  <2> DEFINE q == s.out \o <<0, c>>
  <2> HIDE DEF q, t
  <2>4. t = [read |-> i + c, out |-> q]
    BY <1>4, Zenon DEF q, c
  <2>5. t.read = i + c /\ t.out = q
    BY <2>4, Zenon
  <2>6. q \in Seq(Nat) /\ i + c \in Nat
    BY <1>1, <2>2, <2>3 DEF q
  <2>7. t \in LoopStates
    BY <2>4, <2>6, Zenon DEF LoopStates
  <2>8. Len(q) = Len(s.out) + 2 /\ \A j \in 1 .. Len(s.out) : q[j] = s.out[j]
    BY <2>3, Zenon DEF q
  <2> HIDE DEF i
  <2>9. t.read <= Len(in) /\ Len(t.out) <= Len(in) /\ Len(s.out) <= Len(t.out)
    BY <1>1, <1>4, <2>2, <2>5, <2>8
  <2> QED  BY <2>5, <2>7, <2>8, <2>9, Zenon DEF CompressStates
<1> HIDE DEF t
<1> QED  BY <1>1, <1>2, <1>3, <1>4, CompressRounds, Zenon DEF t

(* f goes through the rounds of compress.                                  *)
Compresses(in, f) ==
    /\ f \in [0 .. Len(in) -> CompressStates(in)] /\ f[0] = LoopStart
    /\ \A k \in 1 .. Len(in) : f[k] = CompressRound(in, f[k - 1])

(* The loop of compress is defined.                                        *)
LEMMA CompressLoops ==
  ASSUME NEW in \in Seq(Nat)
  PROVE  \E f : /\ Compresses(in, f)
                /\ compress(in) = [ok |-> f[Len(in)].read = Len(in), out |-> f[Len(in)].out]
<1> DEFINE N == Len(in)
           Eq(g) == g = [k \in 0 .. N |-> IF k = 0 THEN LoopStart ELSE CompressRound(in, g[k - 1])]
           S == CompressStates(in)
           G == [k \in 1 .. N |-> [s \in S |-> CompressRound(in, s)]]
           L == CHOOSE g : Eq(g)
<1>1. N \in Nat
  OBVIOUS
<1>2. LoopStart \in S
  BY <1>1 DEF LoopStart, LoopStates, CompressStates
<1>3. \A s \in S : CompressRound(in, s) \in S
  BY CompressKeeps, Zenon
<1>4. G \in [1 .. N -> [S -> S]]
  BY <1>3, Zenon
<1>5. compress(in) = [ok |-> L[N].read = N, out |-> L[N].out]
  BY Zenon DEF compress, LoopStart
<1> HIDE DEF N, S, G
<1>6. PICK f \in [0 .. N -> S] : Iterates(f, N, LoopStart, G)
  BY <1>1, <1>2, <1>4, Recursion, Zenon
<1>7. Eq(f)
  <2>1. ASSUME NEW k \in 0 .. N, k # 0 PROVE G[k][f[k - 1]] = CompressRound(in, f[k - 1])
    <3>1. k \in 1 .. N /\ k - 1 \in 0 .. N
      BY <1>1, <2>1
    <3>2. f[k - 1] \in S
      BY <3>1, Zenon
    <3> QED  BY <3>1, <3>2, Zenon DEF G
  <2> QED  BY <1>6, <2>1, Zenon DEF Iterates
<1>8. Eq(L)
  BY <1>7, Zenon
<1> HIDE DEF L
<1>9. ASSUME NEW k \in 0 .. N PROVE L[k] \in S
  <2> DEFINE T == {j \in 0 .. N : L[j] \in S}
  <2>1. 0 \in T
    BY <1>1, <1>2, <1>8
  <2>2. ASSUME NEW j \in 0 .. N, j \in T, j + 1 <= N PROVE j + 1 \in T
    <3>1. L[j + 1] = CompressRound(in, L[j])
      BY <1>1, <1>8, <2>2
    <3> QED  BY <1>1, <1>3, <2>2, <3>1
  <2>3. 0 .. N \subseteq T
    BY <1>1, <2>1, <2>2, UpTo, Zenon
  <2> QED  BY <2>3, Zenon
<1>10. Compresses(in, L)
  <2>1. L \in [0 .. N -> S]
    BY <1>8, <1>9, Zenon
  <2>2. L[0] = LoopStart /\ \A k \in 1 .. N : L[k] = CompressRound(in, L[k - 1])
    BY <1>1, <1>8
  <2> QED  BY <1>9, <2>1, <2>2, Zenon DEF Compresses, S, N
<1> QED  BY <1>5, <1>10, Zenon DEF N

(* The states of decompress between two rounds.                            *)
DecompressStates(in) ==
    {s \in LoopStates : s.read <= Len(in) /\ Len(s.out) <= BufferSize}

(* Zeros(n) is n zeros.                                                    *)
LEMMA ZerosAre ==
  ASSUME NEW n \in Nat
  PROVE  /\ Zeros(n) \in Seq(Nat) /\ Len(Zeros(n)) = n
         /\ \A i \in 1 .. n : Zeros(n)[i] = 0
BY DEF Zeros

(* A round of decompress stays within its input and within the room.       *)
LEMMA DecompressKeeps ==
  ASSUME NEW in \in Seq(Nat), NEW s \in DecompressStates(in)
  PROVE  DecompressRound(in, s) \in DecompressStates(in)
<1> DEFINE i == s.read + 1
           free == BufferSize - Len(s.out) - 1
           z == 1 + IF in[i + 1] <= free THEN in[i + 1] ELSE free
           t == DecompressRound(in, s)
<1>1. /\ s \in LoopStates /\ s.out \in Seq(Nat) /\ s.read \in Nat
      /\ s.read <= Len(in) /\ Len(s.out) <= BufferSize
  BY Zenon DEF LoopStates, DecompressStates
<1>2. BufferSize \in Nat
  BY LanProtocolAssumption, BufferIsNat, Zenon
<1>3. t = IF s.read = Len(in) \/ free < 0 \/ (in[i] = 0 /\ i = Len(in)) THEN s
          ELSE IF in[i] # 0 THEN [read |-> i, out |-> Append(s.out, in[i])]
          ELSE [read |-> i + 1, out |-> s.out \o Zeros(z)]
  BY Zenon DEF DecompressRound
<1> HIDE DEF t
<1>4. CASE t = s
  BY <1>4, Zenon DEF t
<1>5. CASE /\ s.read # Len(in) /\ ~(free < 0) /\ t = [read |-> i, out |-> Append(s.out, in[i])]
  <2>1. in[i] \in Nat /\ i \in Nat /\ i <= Len(in)
    BY <1>1, <1>5
  <2>2. Append(s.out, in[i]) \in Seq(Nat) /\ Len(Append(s.out, in[i])) <= BufferSize
    BY <1>1, <1>2, <1>5, <2>1
  <2>3. t.read = i /\ t.out = Append(s.out, in[i]) /\ t \in LoopStates
    BY <1>5, <2>1, <2>2, Zenon DEF LoopStates
  <2> QED  BY <2>1, <2>2, <2>3, Zenon DEF t, DecompressStates
<1>6. CASE /\ s.read # Len(in) /\ ~(free < 0) /\ i # Len(in)
           /\ t = [read |-> i + 1, out |-> s.out \o Zeros(z)]
  <2>1. i + 1 \in Nat /\ i + 1 <= Len(in) /\ in[i + 1] \in Nat
    BY <1>1, <1>6
  <2>2. z \in Nat /\ z <= BufferSize - Len(s.out)
    <3>1. free \in Nat /\ 1 + free = BufferSize - Len(s.out)
      BY <1>1, <1>2, <1>6
    <3>2. \A v, w \in Nat : LET y == 1 + IF v <= w THEN v ELSE w IN y \in Nat /\ y <= 1 + w
      OBVIOUS
    <3> HIDE DEF free
    <3> QED  BY <2>1, <3>1, <3>2, Zenon
  <2> DEFINE q == s.out \o Zeros(z)
  <2> HIDE DEF z
  <2>3. q \in Seq(Nat) /\ Len(q) <= BufferSize
    BY <1>1, <1>2, <2>2, ZerosAre
  <2> HIDE DEF q
  <2>4. t = [read |-> i + 1, out |-> q]
    BY <1>6, Zenon DEF q
  <2>5. t.read = i + 1 /\ t.out = q /\ t \in LoopStates
    BY <2>1, <2>3, <2>4, Zenon DEF LoopStates
  <2> QED  BY <2>1, <2>3, <2>5, Zenon DEF t, DecompressStates
<1> HIDE DEF i, free, z
<1> QED  BY <1>3, <1>4, <1>5, <1>6, Zenon

(* f goes through the rounds of decompress.                                *)
Decompresses(in, f) ==
    /\ f \in [0 .. BufferSize -> DecompressStates(in)] /\ f[0] = LoopStart
    /\ \A k \in 1 .. BufferSize : f[k] = DecompressRound(in, f[k - 1])

(* The loop of decompress is defined.                                      *)
LEMMA DecompressLoops ==
  ASSUME NEW in \in Seq(Nat)
  PROVE  \E f : /\ Decompresses(in, f)
                /\ decompress(in) = [ok |-> f[BufferSize].read = Len(in), out |-> f[BufferSize].out]
<1> DEFINE N == BufferSize
           Eq(g) == g = [k \in 0 .. N |-> IF k = 0 THEN LoopStart
                                          ELSE DecompressRound(in, g[k - 1])]
           S == DecompressStates(in)
           G == [k \in 1 .. N |-> [s \in S |-> DecompressRound(in, s)]]
           L == CHOOSE g : Eq(g)
<1>1. N \in Nat
  BY BufferIsNat, Zenon
<1>2. LoopStart \in S
  BY <1>1 DEF LoopStart, LoopStates, DecompressStates
<1>3. \A s \in S : DecompressRound(in, s) \in S
  BY DecompressKeeps, Zenon
<1>4. G \in [1 .. N -> [S -> S]]
  BY <1>3, Zenon
<1>5. decompress(in) = [ok |-> L[N].read = Len(in), out |-> L[N].out]
  BY Zenon DEF decompress, LoopStart
<1> HIDE DEF N, S, G
<1>6. PICK f \in [0 .. N -> S] : Iterates(f, N, LoopStart, G)
  BY <1>1, <1>2, <1>4, Recursion, Zenon
<1>7. Eq(f)
  <2>1. ASSUME NEW k \in 0 .. N, k # 0 PROVE G[k][f[k - 1]] = DecompressRound(in, f[k - 1])
    <3>1. k \in 1 .. N /\ k - 1 \in 0 .. N
      BY <1>1, <2>1
    <3>2. f[k - 1] \in S
      BY <3>1, Zenon
    <3> QED  BY <3>1, <3>2, Zenon DEF G
  <2> QED  BY <1>6, <2>1, Zenon DEF Iterates
<1>8. Eq(L)
  BY <1>7, Zenon
<1> HIDE DEF L
<1>9. ASSUME NEW k \in 0 .. N PROVE L[k] \in S
  <2> DEFINE T == {j \in 0 .. N : L[j] \in S}
  <2>1. 0 \in T
    BY <1>1, <1>2, <1>8
  <2>2. ASSUME NEW j \in 0 .. N, j \in T, j + 1 <= N PROVE j + 1 \in T
    <3>1. L[j + 1] = DecompressRound(in, L[j])
      BY <1>1, <1>8, <2>2
    <3> QED  BY <1>1, <1>3, <2>2, <3>1
  <2>3. 0 .. N \subseteq T
    BY <1>1, <2>1, <2>2, UpTo, Zenon
  <2> QED  BY <2>3, Zenon
<1>10. Decompresses(in, L)
  <2>1. L \in [0 .. N -> S]
    BY <1>8, <1>9, Zenon
  <2>2. L[0] = LoopStart /\ \A k \in 1 .. N : L[k] = DecompressRound(in, L[k - 1])
    BY <1>1, <1>8
  <2> QED  BY <1>9, <2>1, <2>2, Zenon DEF Decompresses, S, N
<1> QED  BY <1>5, <1>10, Zenon DEF N

(* A loop whose rounds do nothing from j on ends as it was at j.           *)
LEMMA Stays ==
  ASSUME NEW M \in Nat, NEW f, NEW j \in 0 .. M,
         \A k \in 0 .. M : k >= j /\ k + 1 <= M /\ f[k] = f[j] => f[k + 1] = f[j]
  PROVE  f[M] = f[j]
<1> DEFINE T == {k \in 0 .. M : k >= j => f[k] = f[j]}
<1>1. 0 \in T
  OBVIOUS
<1>2. ASSUME NEW k \in 0 .. M, k \in T, k + 1 <= M PROVE k + 1 \in T
  <2>1. CASE k + 1 = j
    BY <1>2, <2>1, Zenon
  <2>2. CASE k + 1 < j
    BY <1>2, <2>2
  <2>3. CASE k + 1 > j
    BY <1>2, <2>3
  <2> QED  BY <2>1, <2>2, <2>3
<1> HIDE DEF T
<1>3. 0 .. M \subseteq T
  BY <1>1, <1>2, UpTo, Zenon
<1> QED  BY <1>3 DEF T

(* What compress has written after a round is what its result begins with. *)
LEMMA CompressPrefix ==
  ASSUME NEW in \in Seq(Nat), NEW f, Compresses(in, f), NEW k \in 0 .. Len(in)
  PROVE  LET out == f[Len(in)].out
         IN  Len(f[k].out) <= Len(out) /\ \A j \in 1 .. Len(f[k].out) : out[j] = f[k].out[j]
<1> DEFINE N == Len(in)
           Begins(s, t) == Len(s) <= Len(t) /\ \A j \in 1 .. Len(s) : t[j] = s[j]
           T == {n \in 0 .. N : n >= k => Begins(f[k].out, f[n].out)}
<1>1. N \in Nat
  OBVIOUS
<1>2. ASSUME NEW n \in 0 .. N PROVE f[n] \in CompressStates(in) /\ f[n].out \in Seq(Nat)
  BY Zenon DEF Compresses, CompressStates, LoopStates
<1>3. ASSUME NEW n \in 0 .. N, n + 1 <= N PROVE Begins(f[n].out, f[n + 1].out)
  <2>1. f[n + 1] = CompressRound(in, f[n])
    BY <1>3 DEF Compresses
  <2> QED  BY <1>2, <2>1, CompressKeeps
<1>4. \A r, s, t \in Seq(Nat) : Begins(r, s) /\ Begins(s, t) => Begins(r, t)
  <2> SUFFICES ASSUME NEW r \in Seq(Nat), NEW s \in Seq(Nat), NEW t \in Seq(Nat),
                      Begins(r, s), Begins(s, t)
               PROVE  Begins(r, t)
    BY Zenon
  <2>1. ASSUME NEW j \in 1 .. Len(r) PROVE t[j] = r[j]
    <3>1. j \in 1 .. Len(s)
      OBVIOUS
    <3> QED  BY <3>1, Zenon
  <2> QED  BY <2>1
<1>5. \A s \in Seq(Nat) : Begins(s, s)
  OBVIOUS
<1> HIDE DEF Begins, N
<1>6. 0 \in T
  BY <1>1, <1>2, <1>5 DEF N
<1>7. ASSUME NEW n \in 0 .. N, n \in T, n + 1 <= N PROVE n + 1 \in T
  <2>1. n + 1 \in 0 .. N /\ k \in 0 .. N
    BY <1>1, <1>7 DEF N
  <2>2. CASE n + 1 > k
    <3>1. Begins(f[k].out, f[n].out) /\ Begins(f[n].out, f[n + 1].out)
      BY <1>3, <1>7, <2>1, <2>2
    <3> QED  BY <1>2, <1>4, <2>1, <3>1, Zenon
  <2>3. CASE n + 1 = k
    BY <1>2, <1>5, <2>1, <2>3, Zenon
  <2>4. CASE n + 1 < k
    BY <2>1, <2>4
  <2> QED  BY <2>1, <2>2, <2>3, <2>4
<1>8. 0 .. N \subseteq T
  <2> HIDE DEF T
  <2> QED  BY <1>1, <1>6, <1>7, UpTo, Zenon
<1>9. Begins(f[k].out, f[N].out)
  BY <1>1, <1>8 DEF N
<1> QED  BY <1>9, Zenon DEF Begins, N

(* A prefix is as long as it says.                                         *)
LEMMA Prefix ==
  ASSUME NEW in \in Seq(Nat), NEW r \in Nat, r <= Len(in)
  PROVE  SubSeq(in, 1, r) \in Seq(Nat) /\ Len(SubSeq(in, 1, r)) = r
OBVIOUS

(* A prefix that ends in zeros is a shorter one and the zeros.             *)
LEMMA Padded ==
  ASSUME NEW in \in Seq(Nat), NEW r \in Nat, NEW c \in Nat, r + 1 + c <= Len(in)
  PROVE  (\A k \in 0 .. c : in[r + 1 + k] = 0)
            => SubSeq(in, 1, r + 1 + c) = SubSeq(in, 1, r) \o Zeros(1 + c)
<1> DEFINE n == r + 1 + c
           a == SubSeq(in, r + 1, n)
           z == Zeros(1 + c)
<1>1. z \in Seq(Nat) /\ Len(z) = 1 + c /\ \A k \in 1 .. 1 + c : z[k] = 0
  BY ZerosAre
<1>2. SubSeq(in, 1, r) \o a = SubSeq(in, 1, n)
  <2>1. 1 \in 1 .. Len(in) + 1 /\ r \in 1 - 1 .. Len(in) /\ n \in r .. Len(in)
    OBVIOUS
  <2> HIDE DEF n
  <2> QED  BY <2>1, CutJoined, Zenon
<1>3. a \in Seq(Nat) /\ Len(a) = 1 + c /\ \A k \in 1 .. 1 + c : a[k] = in[r + 1 + (k - 1)]
  OBVIOUS
<1>4. \A k \in 1 .. 1 + c : k - 1 \in 0 .. c
  OBVIOUS
<1> HIDE DEF a, z, n
<1>5. ASSUME \A k \in 0 .. c : in[r + 1 + k] = 0 PROVE a = z
  <2>1. \A k \in 1 .. 1 + c : a[k] = z[k]
    BY <1>1, <1>3, <1>4, <1>5, Zenon
  <2> QED  BY <1>1, <1>3, <2>1, SameMembers, Zenon
<1> QED  BY <1>2, <1>5, Zenon DEF z, n

(* A round of decompress on a byte, and on a zero with its count.          *)
LEMMA ByteRound ==
  ASSUME NEW out \in Seq(Nat), NEW w \in Nat, w < Len(out), out[w + 1] # 0,
         NEW d \in Seq(Nat), Len(d) < BufferSize
  PROVE  DecompressRound(out, [read |-> w, out |-> d])
            = [read |-> w + 1, out |-> Append(d, out[w + 1])]
<1> DEFINE u == [read |-> w, out |-> d]
<1>1. u.read = w /\ u.out = d
  BY Zenon
<1>2. w # Len(out) /\ ~(BufferSize - Len(d) - 1 < 0)
  BY BufferIsNat
<1> HIDE DEF u
<1>3. DecompressRound(out, u) = [read |-> w + 1, out |-> Append(d, out[w + 1])]
  BY <1>1, <1>2, Zenon DEF DecompressRound
<1> QED  BY <1>3, Zenon DEF u

(* A round of decompress undoes a run of zeros that fits the room.         *)
LEMMA ZerosRound ==
  ASSUME NEW out \in Seq(Nat), NEW w \in Nat, w + 2 <= Len(out), out[w + 1] = 0,
         NEW d \in Seq(Nat), Len(d) + 1 + out[w + 2] <= BufferSize
  PROVE  DecompressRound(out, [read |-> w, out |-> d])
            = [read |-> w + 2, out |-> d \o Zeros(1 + out[w + 2])]
<1> DEFINE u == [read |-> w, out |-> d]
           free == BufferSize - Len(d) - 1
<1>1. u.read = w /\ u.out = d
  BY Zenon
<1>2. out[w + 2] \in Nat /\ w + 1 + 1 = w + 2
  OBVIOUS
<1>3. w # Len(out) /\ w + 1 # Len(out)
  OBVIOUS
<1>4. ~(free < 0) /\ out[w + 2] <= free
  BY <1>2, BufferIsNat
<1> HIDE DEF u
<1>5. DecompressRound(out, u) = [read |-> w + 2, out |-> d \o Zeros(1 + out[w + 2])]
  BY <1>1, <1>2, <1>3, <1>4, Zenon DEF DecompressRound
<1> QED  BY <1>5, Zenon DEF u

(* A round of decompress undoes a round of compress, whatever follows in   *)
(* the compressed bytes: a byte that is not zero,                          *)
LEMMA ByteUndone ==
  ASSUME NEW in \in Seq(Nat), Len(in) <= BufferSize, NEW r \in Nat, r < Len(in),
         in[r + 1] # 0,
         NEW out \in Seq(Nat), NEW w \in Nat, w + 1 <= Len(out), out[w + 1] = in[r + 1]
  PROVE  DecompressRound(out, [read |-> w, out |-> SubSeq(in, 1, r)])
            = [read |-> w + 1, out |-> SubSeq(in, 1, r + 1)]
<1> DEFINE d == SubSeq(in, 1, r)
<1>1. d \in Seq(Nat) /\ Len(d) = r
  OBVIOUS
<1>2. SubSeq(in, 1, r + 1) = Append(d, in[r + 1])
  <2> DEFINE a == SubSeq(in, 1, r + 1)
             b == Append(d, in[r + 1])
  <2>1. in[r + 1] \in Nat
    OBVIOUS
  <2>2. a \in Seq(Nat) /\ Len(a) = r + 1 /\ \A k \in 1 .. r + 1 : a[k] = in[k]
    OBVIOUS
  <2>3. b \in Seq(Nat) /\ Len(b) = r + 1 /\ \A k \in 1 .. r + 1 : b[k] = in[k]
    BY <1>1, <2>1
  <2> HIDE DEF a, b
  <2>4. \A k \in 1 .. r + 1 : a[k] = b[k]
    BY <2>2, <2>3, Zenon
  <2>5. a = b
    BY <2>2, <2>3, <2>4, SameMembers, Zenon
  <2> QED  BY <2>5, Zenon DEF a, b
<1> HIDE DEF d
<1>3. Len(d) < BufferSize /\ w < Len(out) /\ out[w + 1] # 0
  BY <1>1, BufferIsNat
<1>4. DecompressRound(out, [read |-> w, out |-> d])
        = [read |-> w + 1, out |-> Append(d, out[w + 1])]
  BY <1>1, <1>3, ByteRound, Zenon
<1> QED  BY <1>2, <1>4, Zenon DEF d

(* and a run of zeros.                                                     *)
LEMMA ZerosUndone ==
  ASSUME NEW in \in Seq(Nat), Len(in) <= BufferSize, NEW r \in Nat,
         NEW out \in Seq(Nat), NEW w \in Nat, w + 2 <= Len(out), out[w + 1] = 0,
         r + 1 + out[w + 2] <= Len(in)
  PROVE  (\A k \in 0 .. out[w + 2] : in[r + 1 + k] = 0)
            => DecompressRound(out, [read |-> w, out |-> SubSeq(in, 1, r)])
                  = [read |-> w + 2, out |-> SubSeq(in, 1, r + 1 + out[w + 2])]
<1> DEFINE d == SubSeq(in, 1, r)
           c == out[w + 2]
<1>1. c \in Nat
  OBVIOUS
<1>2. d \in Seq(Nat) /\ Len(d) = r
  <2>1. r <= Len(in)
    <3> HIDE DEF c
    <3> QED  BY <1>1 DEF c
  <2> QED  BY <2>1, Prefix, Zenon
<1> HIDE DEF d
<1>3. Len(d) + 1 + c <= BufferSize
  <2> HIDE DEF c
  <2> QED  BY <1>1, <1>2, BufferIsNat DEF c
<1>4. DecompressRound(out, [read |-> w, out |-> d])
        = [read |-> w + 2, out |-> d \o Zeros(1 + c)]
  BY <1>2, <1>3, ZerosRound, Zenon
<1>5. (\A k \in 0 .. c : in[r + 1 + k] = 0) => SubSeq(in, 1, r + 1 + c) = d \o Zeros(1 + c)
  BY <1>1, Padded, Zenon DEF d
<1> QED  BY <1>4, <1>5, Zenon DEF d

(* What a round of compress writes is at the end.                          *)
LEMMA Written ==
  ASSUME NEW q \in Seq(Nat), NEW x \in Nat
  PROVE  /\ Len(Append(q, x)) = Len(q) + 1 /\ Append(q, x)[Len(q) + 1] = x
         /\ LET z == q \o <<0, x>>
            IN  Len(z) = Len(q) + 2 /\ z[Len(q) + 1] = 0 /\ z[Len(q) + 2] = x
OBVIOUS

(* so what the loop of decompress has read and written follows what that   *)
(* of compress has.                                                        *)
LEMMA RoundUndone ==
  ASSUME NEW in \in Seq(Nat), Len(in) <= BufferSize, NEW s \in CompressStates(in),
         NEW out \in Seq(Nat)
  PROVE  LET t == CompressRound(in, s)
         IN  /\ t # s /\ Len(t.out) <= Len(out)
             /\ \A j \in 1 .. Len(t.out) : out[j] = t.out[j]
             => DecompressRound(out, [read |-> Len(s.out), out |-> SubSeq(in, 1, s.read)])
                   = [read |-> Len(t.out), out |-> SubSeq(in, 1, t.read)]
<1> DEFINE t == CompressRound(in, s)
           r == s.read
           w == Len(s.out)
           i == r + 1
           c == Count(in, i)
           u == DecompressRound(out, [read |-> w, out |-> SubSeq(in, 1, r)])
<1>1. SUFFICES ASSUME t # s, Len(t.out) <= Len(out),
                      \A j \in 1 .. Len(t.out) : out[j] = t.out[j]
               PROVE  u = [read |-> Len(t.out), out |-> SubSeq(in, 1, t.read)]
  BY Zenon
<1>2. /\ s \in LoopStates /\ s.out \in Seq(Nat) /\ r \in Nat /\ w \in Nat
      /\ r <= Len(in) /\ Len(in) \in Nat
  BY DEF LoopStates, CompressStates
<1>3. \/ t = s
      \/ r < Len(in) /\ in[i] # 0 /\ t = [read |-> i, out |-> Append(s.out, in[i])]
      \/ r < Len(in) /\ in[i] = 0 /\ t = [read |-> i + c, out |-> s.out \o <<0, c>>]
  BY <1>2, CompressRounds, Zenon
<1> HIDE DEF t
<1>4. CASE r < Len(in) /\ in[i] # 0 /\ t = [read |-> i, out |-> Append(s.out, in[i])]
  <2>1. t.read = i /\ t.out = Append(s.out, in[i])
    BY <1>4, Zenon
  <2>2. in[i] \in Nat
    BY <1>2, <1>4
  <2>3. Len(t.out) = w + 1 /\ t.out[w + 1] = in[i]
    <3>1. Len(Append(s.out, in[i])) = w + 1 /\ Append(s.out, in[i])[w + 1] = in[i]
      BY <1>2, <2>2, Written, Zenon
    <3> QED  BY <2>1, <3>1, Zenon
  <2> HIDE DEF w, r
  <2>4. w + 1 \in 1 .. Len(t.out) /\ w + 1 <= Len(out)
    BY <1>1, <1>2, <2>3
  <2>5. out[w + 1] = in[i]
    BY <1>1, <2>3, <2>4, Zenon
  <2>6. u = [read |-> w + 1, out |-> SubSeq(in, 1, r + 1)]
    BY <1>2, <1>4, <2>4, <2>5, ByteUndone, ZenonT(30)
  <2> QED  BY <2>1, <2>3, <2>6, Zenon
<1>5. CASE r < Len(in) /\ in[i] = 0 /\ t = [read |-> i + c, out |-> s.out \o <<0, c>>]
  <2>1. i \in 1 .. Len(in)
    BY <1>2, <1>5
  <2>2. c \in More(in, i)
    BY <2>1, CountCounts, Zenon
  <2>3. t.read = i + c /\ t.out = s.out \o <<0, c>>
    BY <1>5, Zenon
  <2> HIDE DEF c
  <2>4. c \in Nat /\ i + c <= Len(in)
    BY <2>2 DEF More
  <2>5. \A k \in 0 .. c : in[i + k] = 0
    <3>1. i + 0 = i
      BY <1>2
    <3>2. \A k \in 0 .. c : k = 0 \/ k \in 1 .. c
      BY <2>4
    <3>3. \A k \in 1 .. c : in[i + k] = 0
      BY <2>2, Zenon DEF More
    <3> QED  BY <1>5, <3>1, <3>2, <3>3, Zenon
  <2>6. Len(t.out) = w + 2 /\ t.out[w + 1] = 0 /\ t.out[w + 2] = c
    <3> DEFINE z == s.out \o <<0, c>>
    <3>1. Len(z) = w + 2 /\ z[w + 1] = 0 /\ z[w + 2] = c
      BY <1>2, <2>4, Written, Zenon
    <3> QED  BY <2>3, <3>1, Zenon
  <2> HIDE DEF w, r
  <2>7. /\ w + 1 \in 1 .. Len(t.out) /\ w + 2 \in 1 .. Len(t.out) /\ w + 2 <= Len(out)
    BY <1>1, <1>2, <2>6
  <2>8. out[w + 1] = 0 /\ out[w + 2] = c
    BY <1>1, <2>6, <2>7, Zenon
  <2>9. u = [read |-> w + 2, out |-> SubSeq(in, 1, r + 1 + c)]
    <3>1. r \in Nat /\ w \in Nat /\ w + 2 <= Len(out)
      BY <1>2, <2>7, Zenon
    <3>2. r + 1 + out[w + 2] <= Len(in) /\ \A k \in 0 .. out[w + 2] : in[r + 1 + k] = 0
      BY <2>4, <2>5, <2>8, Zenon
    <3>3. u = [read |-> w + 2, out |-> SubSeq(in, 1, r + 1 + out[w + 2])]
      BY <2>8, <3>1, <3>2, ZerosUndone, Zenon
    <3> QED  BY <2>8, <3>3, Zenon
  <2> QED  BY <2>3, <2>6, <2>9, Zenon
<1> QED  BY <1>1, <1>3, <1>4, <1>5, Zenon

(* With nothing left to read, a round of decompress does nothing.          *)
LEMMA DecompressEnds ==
  ASSUME NEW out, NEW s, s.read = Len(out)
  PROVE  DecompressRound(out, s) = s
BY Zenon DEF DecompressRound

(* Once a round of compress does nothing, no later one does.               *)
LEMMA CompressEnds ==
  ASSUME NEW in \in Seq(Nat), NEW f, Compresses(in, f), NEW k \in 0 .. Len(in),
         k + 1 <= Len(in), f[k + 1] = f[k]
  PROVE  f[Len(in)] = f[k]
<1> DEFINE N == Len(in)
<1>1. N \in Nat
  OBVIOUS
<1>2. \A j \in 0 .. N : j + 1 <= N => f[j + 1] = CompressRound(in, f[j])
  <2>1. \A j \in 1 .. N : f[j] = CompressRound(in, f[j - 1])
    BY Zenon DEF Compresses
  <2> HIDE DEF N
  <2>2. \A j \in 0 .. N : j + 1 <= N => j + 1 \in 1 .. N /\ (j + 1) - 1 = j
    BY <1>1
  <2> QED  BY <2>1, <2>2, Zenon
<1>3. \A j \in 0 .. N : j >= k /\ j + 1 <= N /\ f[j] = f[k] => f[j + 1] = f[k]
  BY <1>2, Zenon
<1> QED  BY <1>1, <1>3, Stays, Zenon

(* What compress makes of a body, when it has the room, decompress turns   *)
(* into that body again.                                                   *)
THEOREM RoundTrip ==
  ASSUME NEW in \in Seq(Nat), Len(in) <= BufferSize
  PROVE  LET c == compress(in)
         IN  /\ c.ok \in BOOLEAN /\ c.out \in Seq(Nat) /\ Len(c.out) <= Len(in)
             /\ c.ok => decompress(c.out) = [ok |-> TRUE, out |-> in]
<1> DEFINE N == Len(in)
<1>1. PICK f : /\ Compresses(in, f)
               /\ compress(in) = [ok |-> f[N].read = N, out |-> f[N].out]
  BY CompressLoops, Zenon
<1> DEFINE out == f[N].out
           D(k) == [read |-> Len(f[k].out), out |-> SubSeq(in, 1, f[k].read)]
<1>2. N \in Nat /\ BufferSize \in Nat
  BY BufferIsNat
<1>3. ASSUME NEW k \in 0 .. N PROVE f[k] \in CompressStates(in)
  BY <1>1, Zenon DEF Compresses
<1>4. out \in Seq(Nat) /\ Len(out) <= N /\ f[N].read \in Nat
  BY <1>2, <1>3 DEF CompressStates, LoopStates
<1>5. PICK g : /\ Decompresses(out, g)
               /\ decompress(out) = [ok |-> g[BufferSize].read = Len(out),
                                     out |-> g[BufferSize].out]
  BY <1>4, DecompressLoops, Zenon
<1> HIDE DEF out, N
<1>6. ASSUME NEW k \in 0 .. BufferSize, k + 1 <= BufferSize
      PROVE  g[k + 1] = DecompressRound(out, g[k])
  BY <1>2, <1>5, <1>6 DEF Decompresses
<1>7. ASSUME NEW k \in 0 .. N, k + 1 <= N
      PROVE  f[k + 1] = CompressRound(in, f[k])
  BY <1>1, <1>2, <1>7 DEF Compresses, N
<1>8. ASSUME f[N].read = N PROVE decompress(out) = [ok |-> TRUE, out |-> in]
  <2> DEFINE T == {k \in 0 .. N : g[k] = D(k)}
  <2>1. 0 \in T
    <3>1. g[0] = LoopStart /\ f[0] = LoopStart
      BY <1>1, <1>5, Zenon DEF Compresses, Decompresses
    <3>2. Len(<<>>) = 0 /\ SubSeq(in, 1, 0) = <<>>
      OBVIOUS
    <3>3. f[0].read = 0 /\ f[0].out = <<>>
      BY <3>1 DEF LoopStart
    <3>4. g[0] = D(0)
      BY <3>1, <3>2, <3>3, Zenon DEF LoopStart
    <3> QED  BY <1>2, <3>4
  <2>2. ASSUME NEW k \in 0 .. N, k \in T, k + 1 <= N PROVE k + 1 \in T
    <3>1. k + 1 \in 0 .. N /\ k \in 0 .. BufferSize /\ k + 1 <= BufferSize
      BY <1>2, <2>2 DEF N
    <3>2. g[k + 1] = DecompressRound(out, D(k))
      BY <1>6, <2>2, <3>1, Zenon
    <3>3. CASE f[k + 1] = f[k]
      <4>1. f[N] = f[k]
        BY <1>1, <2>2, <3>3, CompressEnds, Zenon DEF N
      <4>2. D(k).read = Len(out) /\ D(k + 1) = D(k)
        BY <3>3, <4>1, Zenon DEF out
      <4> HIDE DEF D
      <4>3. g[k + 1] = D(k + 1)
        BY <3>2, <4>2, DecompressEnds, Zenon
      <4> QED  BY <3>1, <4>3, Zenon
    <3>4. CASE f[k + 1] # f[k]
      <4>1. /\ Len(f[k + 1].out) <= Len(out)
            /\ \A j \in 1 .. Len(f[k + 1].out) : out[j] = f[k + 1].out[j]
        <5>1. Compresses(in, f) /\ k + 1 \in 0 .. Len(in)
          BY <1>1, <3>1, Zenon DEF N
        <5> QED  BY <5>1, CompressPrefix DEF out, N
      <4>2. f[k] \in CompressStates(in) /\ f[k + 1] = CompressRound(in, f[k])
        BY <1>3, <1>7, <2>2, Zenon
      <4>3. DecompressRound(out, D(k)) = D(k + 1)
        BY <1>4, <3>4, <4>1, <4>2, RoundUndone, ZenonT(30)
      <4> HIDE DEF D
      <4> QED  BY <3>1, <3>2, <4>3, Zenon
    <3> QED  BY <3>3, <3>4, Zenon
  <2> HIDE DEF T
  <2>3. 0 .. N \subseteq T
    BY <1>2, <2>1, <2>2, UpTo, Zenon
  <2>4. N \in 0 .. BufferSize /\ N \in 0 .. N
    BY <1>2 DEF N
  <2>5. g[N] = D(N)
    BY <2>3, <2>4, Zenon DEF T
  <2>6. D(N) = [read |-> Len(out), out |-> in]
    <3>1. SubSeq(in, 1, N) = in
      BY AllOfIt, Zenon DEF N
    <3> QED  BY <1>8, <3>1, Zenon DEF out
  <2>7. g[N].read = Len(out) /\ g[N].out = in
    BY <2>5, <2>6
  <2>8. \A k \in 0 .. BufferSize : k >= N /\ k + 1 <= BufferSize /\ g[k] = g[N] => g[k + 1] = g[N]
    BY <1>6, <2>7, DecompressEnds, Zenon
  <2>9. g[BufferSize] = g[N]
    BY <1>2, <2>4, <2>8, Stays, Zenon
  <2> QED  BY <1>5, <2>7, <2>9, Zenon
<1>9. compress(in).ok = (f[N].read = N) /\ compress(in).out = out
  BY <1>1 DEF out, N
<1> QED  BY <1>4, <1>8, <1>9, Zenon DEF N
-----------------------------------------------------------------------------
(* The packets on the stream, one after the other.                         *)

(* The order in which three sequences are joined.                          *)
JoinedAlike(a, b, c) == (a \o b) \o c = a \o (b \o c)

(* It does not matter in which order sequences are joined.                 *)
LEMMA Joined ==
  ASSUME NEW S, NEW a \in Seq(S), NEW b \in Seq(S), NEW c \in Seq(S)
  PROVE  JoinedAlike(a, b, c)
BY DEF JoinedAlike

(* f goes through the rounds of Flatten.                                   *)
Flattens(q, f) == f[0] = <<>> /\ \A k \in 1 .. Len(q) : f[k] = f[k - 1] \o q[k]

(* What Flatten computes.                                                  *)
LEMMA FlattenLoops ==
  ASSUME NEW S, NEW q \in Seq(Seq(S))
  PROVE  \E f \in [0 .. Len(q) -> Seq(S)] : Flattens(q, f) /\ Flatten(q) = f[Len(q)]
<1> DEFINE n == Len(q)
           Eq(h) == h = [k \in 0 .. n |-> IF k = 0 THEN <<>> ELSE h[k - 1] \o q[k]]
           L == CHOOSE h : Eq(h)
           X == Seq(S)
           G == [k \in 1 .. n |-> [v \in X |-> v \o q[k]]]
<1>1. n \in Nat /\ <<>> \in X /\ \A i \in 1 .. n : q[i] \in X
  OBVIOUS
<1>2. Flatten(q) = L[n]
  BY Zenon DEF Flatten
<1>3. \A v, w \in X : v \o w \in X
  OBVIOUS
<1> HIDE DEF X
<1>4. G \in [1 .. n -> [X -> X]]
  BY <1>1, <1>3, Zenon
<1>5. PICK f \in [0 .. n -> X] : Iterates(f, n, <<>>, G)
  BY <1>1, <1>4, Recursion, Zenon
<1>6. ASSUME NEW k \in 1 .. n PROVE f[k] = f[k - 1] \o q[k]
  <2>1. k \in 0 .. n /\ k # 0 /\ k - 1 \in 0 .. n
    BY <1>1
  <2>2. f[k] = G[k][f[k - 1]] /\ f[k - 1] \in X
    <3> HIDE DEF G, n
    <3> QED  BY <1>5, <2>1, Zenon DEF Iterates
  <2> QED  BY <2>2, Zenon
<1>7. f[0] = <<>>
  BY <1>1, <1>5 DEF Iterates
<1>8. Eq(f)
  <2>1. ASSUME NEW k \in 0 .. n PROVE f[k] = IF k = 0 THEN <<>> ELSE f[k - 1] \o q[k]
    <3>1. k # 0 => k \in 1 .. n
      BY <1>1
    <3> QED  BY <1>6, <1>7, <3>1, Zenon
  <2>2. f = [k \in 0 .. n |-> f[k]]
    BY <1>5, Zenon
  <2> HIDE DEF n, G
  <2> QED  BY <2>1, <2>2, Zenon
<1>9. Eq(L)
  BY <1>8, Zenon
<1> HIDE DEF L, G, n
<1>10. L[0] = <<>> /\ \A k \in 1 .. n : L[k] = L[k - 1] \o q[k]
  <2>1. 0 \in 0 .. n /\ \A k \in 1 .. n : k \in 0 .. n /\ k # 0
    BY <1>1
  <2> QED  BY <1>9, <2>1, Zenon
<1>11. \A k \in 0 .. n : L[k] \in X
  <2> DEFINE T == {k \in 0 .. n : L[k] \in X}
  <2>1. 0 \in T
    BY <1>1, <1>10
  <2>2. ASSUME NEW k \in 0 .. n, k \in T, k + 1 <= n PROVE k + 1 \in T
    <3>1. k + 1 \in 1 .. n /\ k + 1 \in 0 .. n /\ (k + 1) - 1 = k
      BY ONLY <1>1, k \in 0 .. n, k + 1 <= n
    <3>2. L[k + 1] = L[k] \o q[k + 1]
      BY <1>10, <3>1, Zenon
    <3>3. L[k + 1] \in X
      BY <1>1, <1>3, <2>2, <3>1, <3>2, Zenon
    <3> QED  BY <3>1, <3>3, Zenon
  <2> HIDE DEF T
  <2>3. 0 .. n \subseteq T
    BY <1>1, <2>1, <2>2, UpTo, Zenon
  <2> QED  BY <2>3, Zenon DEF T
<1>12. L \in [0 .. n -> X]
  <2>1. L = [k \in 0 .. n |-> L[k]]
    BY <1>9, Zenon
  <2> QED  BY <1>11, <2>1, Zenon
<1> QED  BY <1>2, <1>10, <1>12, Zenon DEF Flattens, X, n

(* Nothing joined is nothing.                                              *)
LEMMA FlattenEmpty ==
  Flatten(<<>>) = <<>>
<1>1. <<>> \in Seq(Seq({})) /\ Len(<<>>) = 0
  OBVIOUS
<1>2. PICK f : Flattens(<<>>, f) /\ Flatten(<<>>) = f[0]
  BY <1>1, FlattenLoops, Zenon
<1> QED  BY <1>2, Zenon DEF Flattens

(* The members of the sequences are the members of the whole.              *)
LEMMA FlattenTypes ==
  ASSUME NEW S, NEW q \in Seq(Seq(S))
  PROVE  Flatten(q) \in Seq(S)
<1>1. PICK f \in [0 .. Len(q) -> Seq(S)] : Flatten(q) = f[Len(q)]
  BY FlattenLoops, Zenon
<1>2. Len(q) \in 0 .. Len(q)
  OBVIOUS
<1> QED  BY <1>1, <1>2, Zenon

(* Loops that agree where they begin and in what they add agree.           *)
LEMMA SameLoops ==
  ASSUME NEW M \in Nat, NEW f, NEW g, f[0] = g[0],
         \A k \in 0 .. M : k + 1 <= M /\ f[k] = g[k] => f[k + 1] = g[k + 1]
  PROVE  f[M] = g[M]
<1> DEFINE T == {k \in 0 .. M : f[k] = g[k]}
<1>1. 0 \in T
  OBVIOUS
<1>2. ASSUME NEW k \in 0 .. M, k \in T, k + 1 <= M PROVE k + 1 \in T
  <2>1. k + 1 \in 0 .. M
    BY <1>2
  <2> QED  BY <1>2, <2>1, Zenon
<1> HIDE DEF T
<1>3. 0 .. M \subseteq T
  BY <1>1, <1>2, UpTo, Zenon
<1> QED  BY <1>3 DEF T

(* A sequence at the end comes last.                                       *)
LEMMA FlattenAppend ==
  ASSUME NEW S, NEW q \in Seq(Seq(S)), NEW x \in Seq(S)
  PROVE  Flatten(Append(q, x)) = Flatten(q) \o x
<1> DEFINE n == Len(q)
           a == Append(q, x)
           X == Seq(S)
<1>1. /\ a \in Seq(X) /\ Len(a) = n + 1 /\ a[n + 1] = x
      /\ \A i \in 1 .. n : a[i] = q[i]
  <2>1. q \in Seq(X) /\ x \in X
    BY Zenon
  <2> HIDE DEF X
  <2> QED  BY <2>1
<1>2. n \in Nat
  OBVIOUS
<1> HIDE DEF a
<1>3. PICK g : Flattens(a, g) /\ Flatten(a) = g[n + 1]
  BY <1>1, FlattenLoops, Zenon
<1>4. g[0] = <<>> /\ \A k \in 1 .. n + 1 : g[k] = g[k - 1] \o a[k]
  BY <1>1, <1>3, Zenon DEF Flattens
<1>5. PICK f : Flattens(q, f) /\ Flatten(q) = f[n]
  BY FlattenLoops, Zenon
<1>6. f[0] = <<>> /\ \A k \in 1 .. n : f[k] = f[k - 1] \o q[k]
  BY <1>5, Zenon DEF Flattens
<1> HIDE DEF n
<1>7. f[0] = g[0]
  BY <1>4, <1>6, Zenon
<1>8. ASSUME NEW k \in 0 .. n, k + 1 <= n, f[k] = g[k] PROVE f[k + 1] = g[k + 1]
  <2>1. k + 1 \in 1 .. n /\ k + 1 \in 1 .. n + 1 /\ (k + 1) - 1 = k
    BY <1>2, <1>8
  <2>2. f[k + 1] = f[k] \o q[k + 1] /\ g[k + 1] = g[k] \o a[k + 1]
    BY <1>4, <1>6, <2>1, Zenon
  <2> QED  BY <1>1, <1>8, <2>1, <2>2, Zenon
<1>9. f[n] = g[n]
  BY <1>2, <1>7, <1>8, SameLoops, Zenon
<1>10. g[n + 1] = g[n] \o x
  <2>1. n + 1 \in 1 .. n + 1 /\ (n + 1) - 1 = n
    BY <1>2
  <2> QED  BY <1>1, <1>4, <2>1, Zenon
<1> QED  BY <1>3, <1>5, <1>9, <1>10, Zenon DEF a

(* A sequence at the head comes first.                                     *)
LEMMA FlattenHead ==
  ASSUME NEW S, NEW q \in Seq(Seq(S)), q # <<>>
  PROVE  Flatten(q) = q[1] \o Flatten(Tail(q))
<1> DEFINE r == Tail(q)
           m == Len(r)
           h == q[1]
           X == Seq(S)
<1>1. /\ r \in Seq(X) /\ m \in Nat /\ Len(q) = m + 1 /\ h \in X
      /\ \A i \in 1 .. m : r[i] = q[i + 1] /\ r[i] \in X
  <2>1. q \in Seq(X)
    BY Zenon
  <2> HIDE DEF X
  <2> QED  BY <2>1
<1>2. \A a, b, c \in X : JoinedAlike(a, b, c)
  BY Joined, Zenon
<1> HIDE DEF r, h
<1>3. PICK f : Flattens(q, f) /\ Flatten(q) = f[m + 1]
  BY <1>1, FlattenLoops, Zenon
<1>4. f[0] = <<>> /\ \A k \in 1 .. m + 1 : f[k] = f[k - 1] \o q[k]
  BY <1>1, <1>3, Zenon DEF Flattens
<1>5. PICK g \in [0 .. m -> X] : Flattens(r, g) /\ Flatten(r) = g[m]
  BY <1>1, FlattenLoops, Zenon
<1>6. g[0] = <<>> /\ \A k \in 1 .. m : g[k] = g[k - 1] \o r[k]
  BY <1>5, Zenon DEF Flattens
<1> HIDE DEF m
<1> DEFINE u == [k \in 0 .. m |-> f[k + 1]]
           v == [k \in 0 .. m |-> h \o g[k]]
<1>7. u[0] = v[0]
  <2>1. 1 \in 1 .. m + 1 /\ 1 - 1 = 0 /\ 0 + 1 = 1 /\ 0 \in 0 .. m
    BY <1>1
  <2>2. f[1] = <<>> \o h
    BY <1>4, <2>1, Zenon DEF h
  <2>3. <<>> \o h = h \o <<>>
    BY <1>1
  <2> QED  BY <1>6, <2>1, <2>2, <2>3, Zenon
<1>8. ASSUME NEW k \in 0 .. m, k + 1 <= m, u[k] = v[k] PROVE u[k + 1] = v[k + 1]
  <2> DEFINE j == k + 1
  <2>1. /\ j \in 0 .. m /\ j \in 1 .. m /\ j - 1 = k
        /\ j + 1 \in 1 .. m + 1 /\ (j + 1) - 1 = j
    BY <1>1, <1>8
  <2> HIDE DEF j
  <2>2. u[k] = f[j] /\ v[k] = h \o g[k] /\ u[j] = f[j + 1] /\ v[j] = h \o g[j]
    BY <2>1, Zenon DEF j
  <2> HIDE DEF u, v
  <2>3. f[j + 1] = f[j] \o q[j + 1] /\ g[j] = g[k] \o r[j] /\ r[j] = q[j + 1]
    BY <1>1, <1>4, <1>6, <2>1, Zenon
  <2>4. g[k] \in X /\ r[j] \in X
    BY <1>1, <1>5, <2>1, Zenon
  <2>5. (h \o g[k]) \o r[j] = h \o (g[k] \o r[j])
    BY <1>1, <1>2, <2>4, ZenonT(30) DEF JoinedAlike
  <2> QED  BY <1>8, <2>2, <2>3, <2>5, Zenon DEF j
<1> HIDE DEF u, v
<1>9. u[m] = v[m]
  BY <1>1, <1>7, <1>8, SameLoops, Zenon
<1>10. u[m] = f[m + 1] /\ v[m] = h \o g[m]
  BY <1>1 DEF u, v
<1> QED  BY <1>3, <1>5, <1>9, <1>10, Zenon DEF r, h
-----------------------------------------------------------------------------
(* The units of the stream.                                                *)
Units ==
    {[unit |-> "magic"]} \cup {Byte(b) : b \in Nat}
    \cup [unit : {"header"}, compressed : BOOLEAN, length : Nat, decompress_length : Nat]

(* A body fits the buffer.                                                 *)
LEMMA BodyIs ==
  ASSUME NEW body \in Bodies
  PROVE  body \in Seq(Nat) /\ Len(body) <= MaxBody
<1>1. PICK n \in 0 .. MaxBody : body \in [1 .. n -> Bytes]
  BY Zenon DEF Bodies
<1>2. n \in Nat /\ n <= MaxBody
  BY BufferIsNat
<1>3. Bytes \subseteq Nat
  BY LanProtocolAssumption, Zenon
<1>4. body \in [1 .. n -> Nat]
  BY <1>1, <1>3, Zenon
<1>5. body \in Seq(Nat)
  BY <1>2, <1>4
<1>6. Len(body) = n
  BY <1>2, <1>4
<1> QED  BY <1>2, <1>5, <1>6, Zenon

(* What sendPacket puts on the stream is a header and as many bytes as it  *)
(* says; they are the body, or decompress to it.                           *)
LEMMA PacketIs ==
  ASSUME NEW body \in Bodies
  PROVE  LET p == Packet(body)
             data == Values(SubSeq(p, 3, Len(p)))
         IN  /\ p \in Seq(Units) /\ Len(p) \in 2 .. BufferSize
             /\ p[1].unit = "magic" /\ p[2].length = Len(p) - 2
             /\ p[2].compressed \in BOOLEAN
             /\ ~p[2].compressed => data = body
             /\ p[2].compressed => /\ decompress(data) = [ok |-> TRUE, out |-> body]
                                   /\ p[2].decompress_length = Len(body)
<1> DEFINE c == compress(body)
           data == IF c.ok THEN c.out ELSE body
           head == [unit |-> "header", compressed |-> c.ok /\ body # <<>>, length |-> Len(data),
                    decompress_length |-> IF c.ok THEN Len(body) ELSE 0]
           bytes == [i \in 1 .. Len(data) |-> Byte(data[i])]
           magic == [unit |-> "magic"]
           p == <<magic, head>> \o bytes
           back == Values(SubSeq(p, 3, Len(p)))
<1>1. Packet(body) = p
  BY Zenon DEF Packet
<1>2. body \in Seq(Nat) /\ Len(body) \in Nat /\ Len(body) <= MaxBody
  BY BodyIs
<1>3. /\ c.ok \in BOOLEAN /\ c.out \in Seq(Nat) /\ Len(c.out) <= Len(body)
      /\ c.ok => decompress(c.out) = [ok |-> TRUE, out |-> body]
  <2>1. Len(body) <= BufferSize
    BY <1>2, BufferIsNat
  <2> QED  BY <1>2, <2>1, RoundTrip, Zenon
<1> HIDE DEF c
<1>4. data \in Seq(Nat) /\ Len(data) \in Nat /\ Len(data) <= Len(body)
  BY <1>2, <1>3
<1>5. ~(c.ok /\ body # <<>>) => data = body
  <2>1. CASE ~c.ok
    BY <2>1, Zenon
  <2>2. CASE c.ok /\ body = <<>>
    <3>1. data = c.out /\ Len(data) = 0
      BY <1>4, <2>2
    <3> QED  BY <1>4, <2>2, <3>1
  <2> QED  BY <1>3, <2>1, <2>2, Zenon
<1>6. c.ok => decompress(data) = [ok |-> TRUE, out |-> body]
  BY <1>3, Zenon
<1>7. head \in Units /\ magic \in Units
  BY <1>2, <1>3, <1>4, Zenon DEF Units
<1>8. /\ head.length = Len(data) /\ head.compressed = (c.ok /\ body # <<>>)
      /\ head.decompress_length = IF c.ok THEN Len(body) ELSE 0
  BY Zenon
<1> HIDE DEF data
<1>9. /\ bytes \in Seq(Units) /\ Len(bytes) = Len(data)
      /\ \A i \in 1 .. Len(data) : bytes[i].value = data[i]
  <2>1. \A i \in 1 .. Len(data) : Byte(data[i]) \in Units
    BY <1>4 DEF Units
  <2>2. bytes \in Seq(Units) /\ Len(bytes) = Len(data)
    <3> HIDE DEF Units
    <3> QED  BY <1>4, <2>1
  <2>3. \A i \in 1 .. Len(data) : bytes[i].value = data[i]
    BY Zenon DEF Byte
  <2> QED  BY <2>2, <2>3, Zenon
<1> HIDE DEF head, bytes
<1>10. magic.unit = "magic"
  BY Zenon
<1> HIDE DEF magic
<1>11. p \in Seq(Units) /\ Len(p) = 2 + Len(data) /\ p[1] = magic /\ p[2] = head
  <2>1. <<magic, head>> \in Seq(Units) /\ Len(<<magic, head>>) = 2
    BY <1>7
  <2> QED  BY <1>4, <1>9, <2>1
<1>12. \A i \in 1 .. Len(data) : p[2 + i] = bytes[i]
  BY <1>4, <1>9
<1> HIDE DEF p
<1>13. back = data
  <2> DEFINE q == SubSeq(p, 3, Len(p))
  <2>1. Len(q) = Len(data)
    BY <1>4, <1>11
  <2>2. \A i \in 1 .. Len(data) : q[i] = p[2 + i]
    BY <1>4, <1>11
  <2> HIDE DEF q
  <2>3. back = [i \in 1 .. Len(data) |-> q[i].value]
    BY <2>1, Zenon DEF Values, q
  <2>4. \A i \in 1 .. Len(data) : q[i].value = data[i]
    BY <1>9, <1>12, <2>2, Zenon
  <2>5. data = [i \in 1 .. Len(data) |-> data[i]]
    BY <1>4
  <2> QED  BY <2>3, <2>4, <2>5, Zenon
<1> HIDE DEF back
<1>14. Len(p) \in 2 .. BufferSize /\ p[2].length = Len(p) - 2
  BY <1>2, <1>4, <1>8, <1>11, BufferIsNat
<1>15. /\ p \in Seq(Units) /\ p[1].unit = "magic" /\ p[2].compressed \in BOOLEAN
       /\ ~p[2].compressed => back = body
       /\ p[2].compressed => /\ decompress(back) = [ok |-> TRUE, out |-> body]
                             /\ p[2].decompress_length = Len(body)
  BY <1>3, <1>5, <1>6, <1>8, <1>10, <1>11, <1>13, Zenon
<1> QED  BY <1>1, <1>14, <1>15, Zenon DEF back
-----------------------------------------------------------------------------
(* The packets that are on their way: sent, and not delivered.             *)
OnTheWay(d, s) == [i \in 1 .. Len(s) - Len(d) |-> Packet(s[Len(d) + i])]

ProtocolInv ==
    /\ sent \in Seq(Bodies) /\ delivered \in Seq(Bodies)
    /\ buffer \in Seq(Units) /\ stream \in Seq(Units)
    /\ SentIsDelivered

(* On its way is the packet of every body sent and not delivered.          *)
LEMMA OnTheWayIs ==
  ASSUME NEW d \in Seq(Bodies), NEW s \in Seq(Bodies), Len(d) <= Len(s)
  PROVE  /\ OnTheWay(d, s) \in Seq(Seq(Units))
         /\ Len(OnTheWay(d, s)) = Len(s) - Len(d)
         /\ \A i \in 1 .. Len(s) - Len(d) : OnTheWay(d, s)[i] = Packet(s[Len(d) + i])
<1> DEFINE n == Len(s) - Len(d)
           X == Seq(Units)
           o == [i \in 1 .. n |-> Packet(s[Len(d) + i])]
<1>1. n \in Nat
  OBVIOUS
<1>2. \A i \in 1 .. n : s[Len(d) + i] \in Bodies
  OBVIOUS
<1>3. \A b \in Bodies : Packet(b) \in X
  BY PacketIs, Zenon
<1> HIDE DEF n, X
<1>4. \A i \in 1 .. n : Packet(s[Len(d) + i]) \in X
  BY <1>2, <1>3, Zenon
<1>5. o \in Seq(X) /\ Len(o) = n /\ \A i \in 1 .. n : o[i] = Packet(s[Len(d) + i])
  BY <1>1, <1>4
<1> QED  BY <1>5, Zenon DEF OnTheWay, n, X

(* What sendPacket adds to it, and what a delivery takes from it.          *)
LEMMA OneMore ==
  ASSUME NEW d \in Seq(Bodies), NEW s \in Seq(Bodies), Len(d) <= Len(s), NEW body \in Bodies
  PROVE  OnTheWay(d, Append(s, body)) = Append(OnTheWay(d, s), Packet(body))
<1> DEFINE t == Append(s, body)
           n == Len(s) - Len(d)
           X == Seq(Units)
           a == OnTheWay(d, t)
           o == OnTheWay(d, s)
           p == Packet(body)
           b == Append(o, p)
<1>1. /\ t \in Seq(Bodies) /\ Len(t) = Len(s) + 1 /\ t[Len(s) + 1] = body
      /\ \A i \in 1 .. Len(s) : t[i] = s[i]
  OBVIOUS
<1>2. n \in Nat /\ Len(d) \in Nat /\ Len(s) = Len(d) + n
  OBVIOUS
<1> HIDE DEF t, n
<1>3. Len(t) - Len(d) = n + 1 /\ Len(d) <= Len(t)
  BY <1>1, <1>2
<1>4. a \in Seq(X) /\ Len(a) = n + 1 /\ \A i \in 1 .. n + 1 : a[i] = Packet(t[Len(d) + i])
  BY <1>1, <1>3, OnTheWayIs, ZenonT(30)
<1>5. o \in Seq(X) /\ Len(o) = n /\ \A i \in 1 .. n : o[i] = Packet(s[Len(d) + i])
  BY OnTheWayIs, Zenon DEF n
<1>6. p \in X
  BY PacketIs, Zenon
<1> HIDE DEF a, o, p, X
<1>7. b \in Seq(X) /\ Len(b) = n + 1 /\ b[n + 1] = p /\ \A i \in 1 .. n : b[i] = o[i]
  BY <1>5, <1>6
<1>8. ASSUME NEW i \in 1 .. n + 1 PROVE a[i] = b[i]
  <2>1. CASE i = n + 1
    <3>1. Len(d) + i = Len(s) + 1
      BY <1>2, <2>1
    <3> QED  BY <1>1, <1>4, <1>7, <2>1, <3>1, Zenon DEF p
  <2>2. CASE i # n + 1
    <3>1. i \in 1 .. n /\ Len(d) + i \in 1 .. Len(s)
      BY <1>2, <2>2
    <3> QED  BY <1>1, <1>4, <1>5, <1>7, <3>1, Zenon
  <2> QED  BY <2>1, <2>2, Zenon
<1> HIDE DEF b
<1>9. a = b
  BY <1>4, <1>7, <1>8, SameMembers, Zenon
<1> QED  BY <1>9, Zenon DEF a, b, o, p, t

(* A delivery takes the first of them away.                                *)
LEMMA OneLess ==
  ASSUME NEW d \in Seq(Bodies), NEW s \in Seq(Bodies), Len(d) < Len(s), NEW body \in Bodies
  PROVE  OnTheWay(Append(d, body), s) = Tail(OnTheWay(d, s))
<1> DEFINE e == Append(d, body)
           n == Len(s) - Len(d) - 1
           X == Seq(Units)
           a == OnTheWay(e, s)
           o == OnTheWay(d, s)
           b == Tail(o)
<1>1. e \in Seq(Bodies) /\ Len(e) = Len(d) + 1
  OBVIOUS
<1>2. n \in Nat /\ Len(d) \in Nat /\ Len(s) \in Nat /\ Len(s) = Len(d) + 1 + n
  OBVIOUS
<1> HIDE DEF e, n
<1>3. Len(s) - Len(e) = n /\ Len(e) <= Len(s) /\ Len(s) - Len(d) = n + 1 /\ Len(d) <= Len(s)
  BY <1>1, <1>2
<1>4. a \in Seq(X) /\ Len(a) = n /\ \A i \in 1 .. n : a[i] = Packet(s[Len(e) + i])
  BY <1>1, <1>3, OnTheWayIs, Zenon
<1>5. o \in Seq(X) /\ Len(o) = n + 1 /\ \A i \in 1 .. n + 1 : o[i] = Packet(s[Len(d) + i])
  BY <1>3, OnTheWayIs, Zenon
<1> HIDE DEF a, o, X
<1>6. b \in Seq(X) /\ Len(b) = n /\ \A i \in 1 .. n : b[i] = o[i + 1]
  BY <1>2, <1>5
<1>7. ASSUME NEW i \in 1 .. n PROVE a[i] = b[i]
  <2>1. i + 1 \in 1 .. n + 1 /\ Len(e) + i = Len(d) + (i + 1)
    BY <1>1, <1>2
  <2> QED  BY <1>4, <1>5, <1>6, <2>1, Zenon
<1> HIDE DEF b
<1>8. a = b
  BY <1>4, <1>6, <1>7, SameMembers, Zenon
<1> QED  BY <1>8, Zenon DEF a, b, o, e
-----------------------------------------------------------------------------
(* The property in terms of OnTheWay.                                      *)
LEMMA SentIsDeliveredIs ==
  SentIsDelivered <=>
    /\ IsPrefix(delivered, sent)
    /\ buffer \o stream = Flatten(OnTheWay(delivered, sent))
    /\ ~failed /\ Len(buffer) < BufferSize
BY Zenon DEF SentIsDelivered, OnTheWay

(* sendPacket adds a packet to the end of the stream.                      *)
LEMMA SendStep ==
  ASSUME ProtocolInv, NEW body \in Bodies, sendPacket(body)
  PROVE  ProtocolInv'
<1> DEFINE p == Packet(body)
           o == OnTheWay(delivered, sent)
<1>1. /\ sent \in Seq(Bodies) /\ delivered \in Seq(Bodies)
      /\ buffer \in Seq(Units) /\ stream \in Seq(Units)
      /\ IsPrefix(delivered, sent) /\ buffer \o stream = Flatten(o)
      /\ ~failed /\ Len(buffer) < BufferSize
  BY SentIsDeliveredIs, Zenon DEF ProtocolInv
<1>2. /\ sent' = Append(sent, body) /\ stream' = stream \o p
      /\ delivered' = delivered /\ buffer' = buffer /\ failed' = failed
  BY Zenon DEF sendPacket
<1>3. p \in Seq(Units)
  BY PacketIs, Zenon
<1>4. Len(delivered) <= Len(sent) /\ \A i \in 1 .. Len(delivered) : sent[i] = delivered[i]
  BY <1>1, Zenon DEF IsPrefix
<1> HIDE DEF p
<1>5. sent' \in Seq(Bodies) /\ stream' \in Seq(Units)
  BY <1>1, <1>2, <1>3
<1>6. IsPrefix(delivered', sent')
  <2>1. Len(delivered) <= Len(sent') /\ \A i \in 1 .. Len(delivered) : sent'[i] = delivered[i]
    BY <1>1, <1>2, <1>4
  <2> QED  BY <1>1, <1>2, <1>5, <2>1, Zenon DEF IsPrefix
<1>7. OnTheWay(delivered', sent') = Append(o, p)
  BY <1>1, <1>2, <1>4, OneMore, Zenon DEF p
<1>8. o \in Seq(Seq(Units))
  BY <1>1, <1>4, OnTheWayIs, Zenon
<1> HIDE DEF o
<1>9. Flatten(Append(o, p)) = Flatten(o) \o p
  BY <1>3, <1>8, FlattenAppend, Zenon
<1>10. buffer' \o stream' = Flatten(o) \o p
  <2>1. (buffer \o stream) \o p = buffer \o (stream \o p)
    <3>1. JoinedAlike(buffer, stream, p)
      BY <1>1, <1>3, Joined, Zenon
    <3> QED  BY <3>1, Zenon DEF JoinedAlike
  <2> QED  BY <1>1, <1>2, <2>1, Zenon
<1>11. SentIsDelivered'
  BY <1>1, <1>2, <1>6, <1>7, <1>9, <1>10, SentIsDeliveredIs, Zenon DEF SentIsDelivered, OnTheWay
<1> QED  BY <1>1, <1>2, <1>5, <1>11, Zenon DEF ProtocolInv

(* What a recv takes from the stream goes to the end of the buffer.        *)
IsCut(S, b, s, n) ==
    LET all == b \o SubSeq(s, 1, n)
        left == SubSeq(s, n + 1, Len(s))
    IN  /\ all \in Seq(S) /\ left \in Seq(S) /\ Len(all) = Len(b) + n
        /\ all \o left = b \o s

(* A recv moves the front of the stream to the end of the buffer.          *)
LEMMA CutStream ==
  ASSUME NEW S, NEW b \in Seq(S), NEW s \in Seq(S), NEW n \in 1 .. Len(s)
  PROVE  IsCut(S, b, s, n)
<1> DEFINE c == SubSeq(s, 1, n)
           left == SubSeq(s, n + 1, Len(s))
<1>1. c \in Seq(S) /\ Len(c) = n /\ left \in Seq(S)
  OBVIOUS
<1>2. c \o left = s
  <2>1. 1 \in 1 .. Len(s) + 1 /\ n \in 1 - 1 .. Len(s) /\ Len(s) \in n .. Len(s)
    OBVIOUS
  <2>2. c \o left = SubSeq(s, 1, Len(s))
    BY <2>1, CutJoined, Zenon
  <2> QED  BY <2>2, AllOfIt, Zenon
<1> HIDE DEF c, left
<1>3. b \o c \in Seq(S) /\ Len(b \o c) = Len(b) + n
  BY <1>1, JoinedIs, Zenon
<1>4. JoinedAlike(b, c, left)
  BY <1>1, Joined, Zenon
<1>5. (b \o c) \o left = b \o s
  BY <1>2, <1>4, Zenon DEF JoinedAlike
<1> QED  BY <1>1, <1>3, <1>5, Zenon DEF c, left, IsCut

(* Two ways to cut the same sequence in two.                               *)
LEMMA SameStart ==
  ASSUME NEW S, NEW a \in Seq(S), NEW l \in Seq(S), NEW p \in Seq(S), NEW r \in Seq(S),
         a \o l = p \o r
  PROVE  /\ \A j \in 1 .. Len(a) : j <= Len(p) => a[j] = p[j]
         /\ Len(p) <= Len(a) => SubSeq(a, Len(p) + 1, Len(a)) \o l = r
<1> DEFINE x == a \o l
<1>1. /\ Len(x) = Len(a) + Len(l)
      /\ \A j \in 1 .. Len(x) : x[j] = IF j <= Len(a) THEN a[j] ELSE l[j - Len(a)]
  BY JoinedIs
<1>2. /\ Len(x) = Len(p) + Len(r)
      /\ \A j \in 1 .. Len(x) : x[j] = IF j <= Len(p) THEN p[j] ELSE r[j - Len(p)]
  <2>1. /\ Len(p \o r) = Len(p) + Len(r)
        /\ \A j \in 1 .. Len(p) + Len(r) :
              (p \o r)[j] = IF j <= Len(p) THEN p[j] ELSE r[j - Len(p)]
    BY JoinedIs, Zenon
  <2> QED  BY <2>1, Zenon
<1>3. Len(a) \in Nat /\ Len(l) \in Nat /\ Len(p) \in Nat /\ Len(r) \in Nat
  OBVIOUS
<1> HIDE DEF x
<1>4. ASSUME NEW j \in 1 .. Len(a), j <= Len(p) PROVE a[j] = p[j]
  <2>1. j \in 1 .. Len(x) /\ j <= Len(a)
    BY <1>1, <1>3
  <2> QED  BY <1>1, <1>2, <1>4, <2>1, Zenon
<1>5. ASSUME Len(p) <= Len(a) PROVE SubSeq(a, Len(p) + 1, Len(a)) \o l = r
  <2> DEFINE t == SubSeq(a, Len(p) + 1, Len(a))
             m == Len(a) - Len(p)
             y == t \o l
  <2>1. m \in Nat /\ Len(a) = Len(p) + m
    BY <1>3, <1>5
  <2>2. t \in Seq(S) /\ Len(t) = m /\ \A i \in 1 .. m : t[i] = a[Len(p) + i]
    BY <1>3, <1>5
  <2> HIDE DEF t, m
  <2>3. /\ y \in Seq(S) /\ Len(y) = m + Len(l)
        /\ \A i \in 1 .. m + Len(l) : y[i] = IF i <= m THEN t[i] ELSE l[i - m]
    BY <2>2, JoinedIs, ZenonT(30)
  <2> HIDE DEF y
  <2>4. Len(r) = m + Len(l)
    BY <1>1, <1>2, <1>3, <2>1
  <2>5. ASSUME NEW i \in 1 .. m + Len(l) PROVE y[i] = r[i]
    <3> DEFINE j == Len(p) + i
    <3>1. /\ j \in 1 .. Len(x) /\ ~(j <= Len(p)) /\ j - Len(p) = i
          /\ (i <= m => j <= Len(a) /\ i \in 1 .. m)
          /\ (~(i <= m) => ~(j <= Len(a)) /\ j - Len(a) = i - m)
      BY <1>1, <1>3, <2>1
    <3>2. r[i] = x[j]
      <4> HIDE DEF j
      <4> QED  BY <1>2, <3>1, Zenon
    <3>3. CASE i <= m
      <4>1. y[i] = a[j]
        BY <2>2, <2>3, <3>1, <3>3, Zenon
      <4> HIDE DEF j
      <4> QED  BY <1>1, <3>1, <3>2, <3>3, <4>1, Zenon
    <3>4. CASE ~(i <= m)
      <4>1. y[i] = l[i - m]
        BY <2>3, <3>4, Zenon
      <4> HIDE DEF j
      <4> QED  BY <1>1, <3>1, <3>2, <3>4, <4>1, Zenon
    <3> QED  BY <3>3, <3>4, Zenon
  <2>6. y = r
    BY <2>3, <2>4, <2>5, SameMembers, Zenon
  <2> QED  BY <2>6, Zenon DEF y, t
<1> QED  BY <1>4, <1>5, Zenon

(* recvPartPacket finds the packet as soon as it is there.                 *)
LEMMA PartIs ==
  ASSUME NEW all \in Seq(Units), NEW p \in Seq(Units), Len(p) \in 2 .. BufferSize,
         p[1].unit = "magic", p[2].length = Len(p) - 2,
         \A j \in 1 .. Len(all) : j <= Len(p) => all[j] = p[j]
  PROVE  recvPartPacket(all) = IF Len(all) < Len(p) THEN [total |-> 0, rest |-> all]
                               ELSE [total |-> Len(p),
                                     rest |-> SubSeq(all, Len(p) + 1, Len(all))]
<1>1. Len(all) \in Nat /\ Len(p) \in Nat /\ BufferSize \in Nat
  BY BufferIsNat
<1>2. CASE Len(all) < 2
  <2>1. Len(all) < Len(p)
    BY <1>1, <1>2
  <2> QED  BY <1>2, <2>1, Zenon DEF recvPartPacket, HeaderSize
<1>3. CASE ~(Len(all) < 2)
  <2>1. 1 \in 1 .. Len(all) /\ 2 \in 1 .. Len(all) /\ 1 <= Len(p) /\ 2 <= Len(p)
    BY <1>1, <1>3
  <2>2. all[1] = p[1] /\ all[2] = p[2]
    BY <2>1, Zenon
  <2>3. 2 + (Len(p) - 2) = Len(p) /\ ~(Len(p) > BufferSize)
    BY <1>1
  <2>4. ~(all[1].unit # "magic" \/ HeaderSize + all[2].length > BufferSize)
        /\ HeaderSize + all[2].length = Len(p)
    BY <2>2, <2>3, Zenon DEF HeaderSize
  <2>5. ~(Len(all) < HeaderSize)
    BY <1>3, Zenon DEF HeaderSize
  <2> QED  BY <2>4, <2>5, Zenon DEF recvPartPacket
<1> QED  BY <1>2, <1>3, Zenon

(* A part of a sequence.                                                   *)
LEMMA Middle ==
  ASSUME NEW S, NEW s \in Seq(S), NEW k \in Nat, NEW m \in Nat, k + m <= Len(s)
  PROVE  LET a == SubSeq(s, k + 1, k + m)
         IN  a \in Seq(S) /\ Len(a) = m /\ \A i \in 1 .. m : a[i] = s[k + i]
OBVIOUS

(* recvPacket takes no packet, or the first one on its way.                *)
LEMMA RecvStep ==
  ASSUME ProtocolInv, NEW n \in 1 .. BufferSize, n <= Len(stream),
         n <= BufferSize - Len(buffer), recvPacket(n)
  PROVE  ProtocolInv'
<1> DEFINE all == buffer \o SubSeq(stream, 1, n)
           left == SubSeq(stream, n + 1, Len(stream))
           o == OnTheWay(delivered, sent)
           body == sent[Len(delivered) + 1]
           p == Packet(body)
           rest == Flatten(Tail(o))
           part == recvPartPacket(all)
           data == Values(SubSeq(all, HeaderSize + 1, part.total))
           plain == decompress(data)
<1>1. /\ sent \in Seq(Bodies) /\ delivered \in Seq(Bodies)
      /\ buffer \in Seq(Units) /\ stream \in Seq(Units)
      /\ IsPrefix(delivered, sent) /\ buffer \o stream = Flatten(o)
      /\ ~failed /\ Len(buffer) < BufferSize
  BY SentIsDeliveredIs, Zenon DEF ProtocolInv
<1>2. /\ stream' = left /\ buffer' = part.rest /\ sent' = sent
      /\ IF part.total = 0 THEN delivered' = delivered /\ failed' = failed
         ELSE IF ~all[2].compressed
         THEN delivered' = Append(delivered, data) /\ failed' = failed
         ELSE IF plain.ok /\ Len(plain.out) = all[2].decompress_length
         THEN delivered' = Append(delivered, plain.out) /\ failed' = failed
         ELSE failed' = TRUE /\ delivered' = delivered
  BY Zenon DEF recvPacket
<1>3. Len(delivered) <= Len(sent) /\ \A i \in 1 .. Len(delivered) : sent[i] = delivered[i]
  BY <1>1, Zenon DEF IsPrefix
<1>4. BufferSize \in Nat /\ Len(buffer) \in Nat /\ n \in 1 .. Len(stream)
  BY <1>1, BufferIsNat
<1>5. /\ all \in Seq(Units) /\ left \in Seq(Units) /\ Len(all) = Len(buffer) + n
      /\ all \o left = Flatten(o)
  <2>1. IsCut(Units, buffer, stream, n)
    BY <1>1, <1>4, CutStream, Zenon
  <2> QED  BY <1>1, <2>1, Zenon DEF IsCut
<1>6. /\ o \in Seq(Seq(Units)) /\ Len(o) = Len(sent) - Len(delivered)
      /\ \A i \in 1 .. Len(sent) - Len(delivered) : o[i] = Packet(sent[Len(delivered) + i])
  BY <1>1, <1>3, OnTheWayIs, Zenon
<1> HIDE DEF all, left, o, part
<1>7. Len(all) \in 1 .. BufferSize
  BY <1>4, <1>5
<1>8. o # <<>>
  <2> SUFFICES ASSUME o = <<>> PROVE FALSE
    BY Zenon
  <2>1. all \o left = <<>>
    BY <1>5, FlattenEmpty, Zenon
  <2>2. Len(all \o left) = Len(all) + Len(left)
    BY <1>5, JoinedIs, Zenon
  <2>3. Len(left) \in Nat /\ Len(<<>>) = 0
    BY <1>5
  <2> QED  BY <1>7, <2>1, <2>2, <2>3
<1>9. Len(delivered) < Len(sent) /\ 1 \in 1 .. Len(sent) - Len(delivered)
  <2>1. Len(sent) - Len(delivered) # 0
    <3>1. Len(o) # 0
      <4> DEFINE X == Seq(Units)
      <4>1. o \in Seq(X)
        BY <1>6, Zenon
      <4> HIDE DEF X
      <4> QED  BY <1>8, <4>1
    <3> QED  BY <1>6, <3>1, Zenon
  <2>2. Len(sent) \in Nat /\ Len(delivered) \in Nat
    BY <1>1
  <2> QED  BY <1>3, <2>1, <2>2
<1>10. body \in Bodies /\ o[1] = p
  <2>1. Len(delivered) + 1 \in 1 .. Len(sent)
    BY <1>1, <1>9
  <2>2. body \in Bodies
    BY <1>1, <2>1
  <2> QED  BY <1>6, <1>9, <2>2, Zenon
<1>11. Flatten(o) = p \o rest
  BY <1>6, <1>8, <1>10, FlattenHead, Zenon
<1>12. rest \in Seq(Units)
  <2>1. Tail(o) \in Seq(Seq(Units))
    <3> DEFINE X == Seq(Units)
    <3>1. o \in Seq(X)
      BY <1>6, Zenon
    <3> HIDE DEF X
    <3>2. Tail(o) \in Seq(X)
      BY <1>8, <3>1
    <3> QED  BY <3>2, Zenon DEF X
  <2> QED  BY <2>1, FlattenTypes, Zenon
<1> DEFINE back == Values(SubSeq(p, 3, Len(p)))
<1>13. /\ p \in Seq(Units) /\ Len(p) \in 2 .. BufferSize
       /\ p[1].unit = "magic" /\ p[2].length = Len(p) - 2
       /\ p[2].compressed \in BOOLEAN
       /\ ~p[2].compressed => back = body
       /\ p[2].compressed => /\ decompress(back) = [ok |-> TRUE, out |-> body]
                             /\ p[2].decompress_length = Len(body)
  BY <1>10, PacketIs, Zenon
<1> HIDE DEF p, rest, body
<1>14. /\ \A j \in 1 .. Len(all) : j <= Len(p) => all[j] = p[j]
       /\ Len(p) <= Len(all) => SubSeq(all, Len(p) + 1, Len(all)) \o left = rest
  <2>1. all \o left = p \o rest
    BY <1>5, <1>11, Zenon
  <2>2. all \in Seq(Units) /\ left \in Seq(Units) /\ p \in Seq(Units) /\ rest \in Seq(Units)
    BY <1>5, <1>12, <1>13, Zenon
  <2> QED  BY ONLY <2>1, <2>2, SameStart, Zenon
<1>15. part = IF Len(all) < Len(p) THEN [total |-> 0, rest |-> all]
              ELSE [total |-> Len(p), rest |-> SubSeq(all, Len(p) + 1, Len(all))]
  BY <1>5, <1>13, <1>14, PartIs, Zenon DEF part
<1>16. CASE Len(all) < Len(p)
  <2>1. part.total = 0 /\ part.rest = all
    BY <1>15, <1>16, Zenon
  <2>2. /\ buffer' = all /\ stream' = left
        /\ sent' = sent /\ delivered' = delivered /\ failed' = failed
    BY <1>2, <2>1, Zenon
  <2>3. Len(all) < BufferSize
    BY <1>4, <1>7, <1>13, <1>16
  <2>4. SentIsDelivered'
    BY <1>1, <1>5, <2>2, <2>3, Zenon DEF SentIsDelivered, OnTheWay, o
  <2> QED  BY <1>1, <1>5, <2>2, <2>4, Zenon DEF ProtocolInv
<1>17. CASE ~(Len(all) < Len(p))
  <2> DEFINE t == SubSeq(all, Len(p) + 1, Len(all))
  <2>1. part.total = Len(p) /\ part.rest = t /\ Len(p) <= Len(all) /\ Len(p) # 0
    BY <1>7, <1>13, <1>15, <1>17
  <2>2. SubSeq(all, 3, Len(p)) = SubSeq(p, 3, Len(p))
    <3> DEFINE a == SubSeq(all, 3, Len(p))
               b == SubSeq(p, 3, Len(p))
               m == Len(p) - 2
    <3>1. m \in Nat /\ Len(p) = m + 2
      BY <1>13
    <3>2. a \in Seq(Units) /\ Len(a) = m /\ \A i \in 1 .. m : a[i] = all[2 + i]
      <4>1. a = SubSeq(all, 2 + 1, 2 + m) /\ 2 + m <= Len(all)
        BY <2>1, <3>1
      <4> HIDE DEF a, m
      <4>2. all \in Seq(Units) /\ 2 \in Nat /\ m \in Nat
        BY <1>5, <3>1, Zenon
      <4> QED  BY <4>1, <4>2, Middle
    <3>3. b \in Seq(Units) /\ Len(b) = m /\ \A i \in 1 .. m : b[i] = p[2 + i]
      <4>1. b = SubSeq(p, 2 + 1, 2 + m) /\ 2 + m <= Len(p)
        BY <3>1
      <4> HIDE DEF b, m
      <4>2. p \in Seq(Units) /\ 2 \in Nat /\ m \in Nat
        BY <1>13, <3>1, Zenon
      <4> QED  BY <4>1, <4>2, Middle
    <3> HIDE DEF a, b, m
    <3>4. \A i \in 1 .. m : 2 + i \in 1 .. Len(all) /\ 2 + i <= Len(p)
      BY <1>7, <2>1, <3>1
    <3>5. \A i \in 1 .. m : a[i] = b[i]
      BY <1>14, <3>2, <3>3, <3>4, Zenon
    <3>6. a = b
      BY <3>2, <3>3, <3>5, SameMembers, Zenon
    <3> QED  BY <3>6, Zenon DEF a, b
  <2>3. data = back
    <3>1. HeaderSize + 1 = 3
      BY DEF HeaderSize
    <3> QED  BY <2>1, <2>2, <3>1, Zenon
  <2>4. all[2] = p[2]
    <3>1. 2 \in 1 .. Len(all) /\ 2 <= Len(p)
      BY <1>7, <1>13, <2>1
    <3> QED  BY <1>14, <3>1, Zenon
  <2> HIDE DEF back, data
  <2>5. delivered' = Append(delivered, body) /\ failed' = failed
    <3>1. CASE ~p[2].compressed
      BY <1>2, <1>13, <2>1, <2>3, <2>4, <3>1, Zenon
    <3>2. CASE p[2].compressed
      <4>1. plain = [ok |-> TRUE, out |-> body]
        BY <1>13, <2>3, <3>2, Zenon
      <4> HIDE DEF plain
      <4>2. plain.ok /\ plain.out = body
        BY <4>1, Zenon
      <4> QED  BY <1>2, <1>13, <2>1, <2>4, <3>2, <4>2, Zenon
    <3> QED  BY <1>13, <3>1, <3>2, Zenon
  <2>6. t \in Seq(Units) /\ Len(t) < BufferSize
    <3> DEFINE m == Len(all) - Len(p)
    <3>1. m \in Nat /\ Len(p) \in Nat /\ Len(all) = Len(p) + m /\ m < BufferSize
      BY <1>4, <1>7, <1>13, <2>1
    <3> HIDE DEF m
    <3>2. t = SubSeq(all, Len(p) + 1, Len(p) + m) /\ Len(p) + m <= Len(all)
      BY <1>7, <3>1
    <3> HIDE DEF t
    <3>3. all \in Seq(Units)
      BY <1>5, Zenon
    <3> QED  BY <3>1, <3>2, <3>3, Middle
  <2>7. buffer' = t /\ stream' = left /\ sent' = sent /\ buffer' \o stream' = rest
    BY <1>2, <1>14, <2>1, Zenon
  <2> HIDE DEF t
  <2>8. delivered' \in Seq(Bodies)
    BY <1>1, <1>10, <2>5
  <2>9. IsPrefix(delivered', sent')
    <3>1. /\ Len(delivered') = Len(delivered) + 1 /\ delivered'[Len(delivered) + 1] = body
          /\ \A i \in 1 .. Len(delivered) : delivered'[i] = delivered[i]
      BY <1>1, <1>10, <2>5
    <3>2. Len(delivered) + 1 <= Len(sent)
      BY <1>1, <1>9
    <3>3. \A i \in 1 .. Len(delivered) + 1 : i = Len(delivered) + 1 \/ i \in 1 .. Len(delivered)
      BY <1>1
    <3>4. \A i \in 1 .. Len(delivered') : sent[i] = delivered'[i]
      BY <1>3, <3>1, <3>3, Zenon DEF body
    <3> QED  BY <1>1, <2>7, <2>8, <3>1, <3>2, <3>4, ZenonT(30) DEF IsPrefix
  <2>10. OnTheWay(delivered', sent') = Tail(o)
    BY <1>1, <1>9, <1>10, <2>5, <2>7, OneLess, ZenonT(30) DEF o
  <2>11. SentIsDelivered'
    <3>1. buffer' \o stream' = Flatten(OnTheWay(delivered', sent'))
      BY <2>7, <2>10, Zenon DEF rest
    <3> QED  BY <1>1, <2>5, <2>6, <2>7, <2>9, <3>1, Zenon DEF SentIsDelivered, OnTheWay
  <2> QED  BY <1>1, <1>5, <2>6, <2>7, <2>8, <2>11, Zenon DEF ProtocolInv
<1> QED  BY <1>16, <1>17, Zenon

(* What the callbacks of an ldn_mitm connection get is what was given to   *)
(* sendPacket, for bodies of any bytes and any length the buffer holds,    *)
(* however the stream is cut; the connection never fails.                  *)
THEOREM SentIsDeliveredAlways == Spec => []SentIsDelivered
<1>1. Init => ProtocolInv
  <2> SUFFICES ASSUME Init PROVE ProtocolInv
    BY Zenon
  <2>1. /\ sent = <<>> /\ delivered = <<>> /\ stream = <<>> /\ buffer = <<>> /\ ~failed
    BY Zenon DEF Init
  <2>2. /\ <<>> \in Seq(Bodies) /\ <<>> \in Seq(Units) /\ Len(<<>>) = 0
        /\ <<>> \o <<>> = <<>> /\ SubSeq(<<>>, 1, 0) = <<>>
    OBVIOUS
  <2>3. [i \in 1 .. 0 - 0 |-> Packet(<<>>[0 + i])] = <<>>
    OBVIOUS
  <2>4. 0 < BufferSize /\ 0 <= 0
    BY BufferIsNat
  <2> QED  BY <2>1, <2>2, <2>3, <2>4, FlattenEmpty, Zenon DEF ProtocolInv, SentIsDelivered, IsPrefix
<1>2. ProtocolInv /\ [Next]_vars => ProtocolInv'
  <2> SUFFICES ASSUME ProtocolInv, [Next]_vars PROVE ProtocolInv'
    BY Zenon
  <2>1. ASSUME NEW body \in Bodies, sendPacket(body) PROVE ProtocolInv'
    BY <2>1, SendStep, Zenon
  <2>2. ASSUME NEW n \in 1 .. BufferSize, n <= Len(stream), n <= BufferSize - Len(buffer),
               recvPacket(n)
        PROVE  ProtocolInv'
    BY <2>2, RecvStep, Zenon
  <2>3. CASE UNCHANGED vars
    BY <2>3, Zenon DEF vars, ProtocolInv, SentIsDelivered
  <2> QED  BY <2>1, <2>2, <2>3, Zenon DEF Next
<1>3. ProtocolInv => SentIsDelivered
  BY Zenon DEF ProtocolInv
<1> QED  BY <1>1, <1>2, <1>3, PTL DEF Spec
-----------------------------------------------------------------------------
(* The fragments of a relay client.                                        *)

SlotRecords ==
    [used : BOOLEAN, src : Senders, id : 0 .. IdMod - 1, local_id : 0 .. LocalIdMod - 1,
     part : SUBSET Parts, buffer : [Parts -> Nat], total_len : Nat, total : Nat]

Typed ==
    /\ frag_id \in [Senders -> Nat] /\ sends \in [Senders -> Nat]
    /\ net \subseteq Fragment
    /\ local_id \in Nat
    /\ frags \in [FragSlots -> SlotRecords]

FragInv == Typed /\ OneSlotPerPacket

USE FragReassemblyAssumption

(* The first index of a set of slots, as the loops over frags find it, is  *)
(* one of the set.                                                         *)
LEMMA FirstIn ==
  ASSUME NEW S, S \subseteq FragSlots, S # {}
  PROVE  First(S) \in S
<1>1. S \subseteq Nat
  BY DEF FragSlots
<1>2. \E i \in S : \A j \in S : i <= j
  BY <1>1, LeastNat, Zenon
<1> QED  BY <1>2, Zenon DEF First

(* Every slot starts empty.                                                *)
LEMMA InitFrag == FragInit => FragInv
<1> SUFFICES ASSUME FragInit PROVE FragInv
  BY Zenon
<1>1. EmptySlot \in SlotRecords /\ ~EmptySlot.used
  <2>1. (CHOOSE s \in Senders : TRUE) \in Senders
    BY Zenon
  <2>2. [p \in Parts |-> 0] \in [Parts -> Nat]
    BY Zenon
  <2> QED  BY <2>1, <2>2 DEF EmptySlot, SlotRecords
<1>2. Typed
  BY <1>1, Zenon DEF FragInit, Typed
<1>3. \A i \in FragSlots : ~frags[i].used
  BY <1>1, Zenon DEF FragInit
<1> QED  BY <1>2, <1>3, Zenon DEF FragInv, OneSlotPerPacket

(* Storing a part leaves a slot's source and id alone.                     *)
LEMMA StoreKeeps ==
  ASSUME NEW slot \in SlotRecords, NEW f \in Fragment
  PROVE  /\ AddPart(slot, f) \in SlotRecords
         /\ AddPart(slot, f).src = slot.src /\ AddPart(slot, f).id = slot.id
<1>1. f.part \in Parts /\ f.n \in Nat /\ f.total \in Nat
  BY DEF Fragment
<1>2. /\ slot.part \cup {f.part} \in SUBSET Parts
      /\ [slot.buffer EXCEPT ![f.part] = f.n] \in [Parts -> Nat]
      /\ (IF f.part = f.total - 1 THEN f.n ELSE slot.total_len) \in Nat
  BY <1>1, Zenon DEF SlotRecords
<1>3. AddPart(slot, f) = [slot EXCEPT !.part = slot.part \cup {f.part},
                                    !.buffer = [slot.buffer EXCEPT ![f.part] = f.n],
                                    !.total_len = IF f.part = f.total - 1 THEN f.n
                                                  ELSE slot.total_len,
                                    !.total = f.total]
  BY Zenon DEF AddPart, SlotRecords
<1> QED  BY <1>1, <1>2, <1>3, Zenon DEF SlotRecords

(* A slot that starts a packet takes the source and id of its fragment.    *)
LEMMA AllocateNames ==
  ASSUME Typed, NEW i \in FragSlots, NEW f \in Fragment
  PROVE  /\ Allocate(i, f) \in SlotRecords
         /\ Allocate(i, f).src = f.src /\ Allocate(i, f).id = f.id
<1>1. frags[i] \in SlotRecords
  BY Zenon DEF Typed
<1>2. f.src \in Senders /\ f.id \in 0 .. IdMod - 1
  BY Zenon DEF Fragment
<1>3. local_id % LocalIdMod \in 0 .. LocalIdMod - 1
  BY DEF Typed
<1>4. {} \in SUBSET Parts
  BY Zenon
<1> QED  BY <1>1, <1>2, <1>3, <1>4, Zenon DEF Allocate, SlotRecords

(* Keeping a part changes one slot, which stays with its packet.           *)
LEMMA KeepChangesOne ==
  ASSUME Typed, NEW i \in FragSlots, NEW slot \in SlotRecords, NEW f \in Fragment, NEW did,
         Keep(i, slot, f, did)
  PROVE  /\ frags' \in [FragSlots -> SlotRecords]
         /\ \A j \in FragSlots \ {i} : frags'[j] = frags[j]
         /\ frags'[i].src = slot.src /\ frags'[i].id = slot.id
<1> DEFINE new == AddPart(slot, f)
           whole == new.part = 0 .. f.total - 1
           kept == [new EXCEPT !.used = ~whole]
<1>1. new \in SlotRecords /\ new.src = slot.src /\ new.id = slot.id
  BY StoreKeeps, Zenon
<1>2. frags' = [frags EXCEPT ![i] = kept]
  BY Zenon DEF Keep
<1>3. (~whole) \in BOOLEAN
  BY Zenon
<1> HIDE DEF new, whole
<1>4. kept \in SlotRecords /\ kept.src = slot.src /\ kept.id = slot.id
  BY <1>1, <1>3, Zenon DEF SlotRecords
<1> HIDE DEF kept
<1>5. frags \in [FragSlots -> SlotRecords]
  BY Zenon DEF Typed
<1> QED  BY ONLY <1>2, <1>4, <1>5, i \in FragSlots, Zenon

(* A slot is changed for a fragment only to stay with its packet, or to    *)
(* take a packet that no used slot holds.                                  *)
LEMMA OneSlotKept ==
  ASSUME FragInv, NEW i \in FragSlots, NEW f \in Fragment,
         frags' \in [FragSlots -> SlotRecords],
         \A j \in FragSlots \ {i} : frags'[j] = frags[j],
         frags'[i].src = f.src, frags'[i].id = f.id,
         Holding(f) = {} \/ i \in Holding(f)
  PROVE  OneSlotPerPacket'
<1>1. \A j \in FragSlots \ {i} : frags[j].used => <<frags[j].src, frags[j].id>> # <<f.src, f.id>>
  <2>1. CASE Holding(f) = {}
    BY <2>1, Zenon DEF Holding, Holds
  <2>2. CASE i \in Holding(f)
    BY <2>2 DEF Holding, Holds, FragInv, OneSlotPerPacket
  <2> QED  BY <2>1, <2>2, Zenon
<1>2. ASSUME NEW j \in FragSlots, NEW k \in FragSlots, frags'[j].used, frags'[k].used, j # k
      PROVE  <<frags'[j].src, frags'[j].id>> # <<frags'[k].src, frags'[k].id>>
  <2>1. CASE j = i
    BY <1>1, <1>2, <2>1, Zenon
  <2>2. CASE k = i
    BY <1>1, <1>2, <2>2, Zenon
  <2>3. CASE j # i /\ k # i
    <3>1. frags'[j] = frags[j] /\ frags'[k] = frags[k]
      BY <2>3, Zenon
    <3> QED  BY <1>2, <3>1 DEF FragInv, OneSlotPerPacket
  <2> QED  BY <2>1, <2>2, <2>3, Zenon
<1>3. FragSlots' = FragSlots
  BY Zenon DEF FragSlots
<1> QED  BY <1>2, <1>3, Zenon DEF OneSlotPerPacket

(* Distances from local_id are bounded, so some slot is farthest.          *)
LEMMA SomeFarthest ==
  ASSUME Typed
  PROVE  \E i \in FragSlots : \A j \in FragSlots : Dif(i) >= Dif(j)
<1> DEFINE Near == {LocalIdMod + local_id - Dif(i) : i \in FragSlots}
<1>1. \A i \in FragSlots : Dif(i) \in 0 .. LocalIdMod + local_id
  <2> TAKE i \in FragSlots
  <2>1. frags[i].local_id \in 0 .. LocalIdMod - 1 /\ local_id \in Nat
    BY Zenon DEF Typed, SlotRecords
  <2> QED  BY <2>1 DEF Dif, Abs
<1>2. local_id \in Nat /\ 0 \in FragSlots
  BY DEF Typed, FragSlots
<1>3. Near \subseteq Nat /\ Near # {}
  BY <1>1, <1>2
<1>4. PICK m \in Near : \A n \in Near : m <= n
  BY <1>3, LeastNat, Zenon
<1>5. PICK i \in FragSlots : m = LocalIdMod + local_id - Dif(i)
  BY <1>4, Zenon
<1>6. \A j \in FragSlots : Dif(i) >= Dif(j)
  <2> TAKE j \in FragSlots
  <2>1. m <= LocalIdMod + local_id - Dif(j)
    BY <1>4, Zenon
  <2> QED  BY <1>1, <1>2, <1>5, <2>1
<1> QED  BY <1>6, Zenon

(* The slot evicted is one of those farthest from local_id.                *)
LEMMA ToDeleteIsFarthest ==
  ASSUME Typed
  PROVE  ToDelete \in FragSlots /\ \A j \in FragSlots : Dif(ToDelete) >= Dif(j)
<1> DEFINE Far == {i \in FragSlots : \A j \in FragSlots : Dif(i) >= Dif(j)}
<1>1. Far # {} /\ Far \subseteq FragSlots
  BY SomeFarthest, Zenon
<1> HIDE DEF Far
<1>2. First(Far) \in Far
  BY <1>1, FirstIn, Zenon
<1> QED  BY <1>2, Zenon DEF Far, ToDelete

(* Starting a packet that no slot holds, in any slot.                      *)
LEMMA StartPreserves ==
  ASSUME FragInv, NEW i \in FragSlots, NEW f \in Fragment, NEW did, Holding(f) = {},
         Start(i, f, did)
  PROVE  frags' \in [FragSlots -> SlotRecords] /\ local_id' \in Nat /\ OneSlotPerPacket'
<1>1. Typed /\ Keep(i, Allocate(i, f), f, did)
  BY Zenon DEF FragInv, Start
<1>2. /\ Allocate(i, f) \in SlotRecords
      /\ Allocate(i, f).src = f.src /\ Allocate(i, f).id = f.id
  BY <1>1, AllocateNames, Zenon
<1>3. /\ frags' \in [FragSlots -> SlotRecords]
      /\ \A j \in FragSlots \ {i} : frags'[j] = frags[j]
      /\ frags'[i].src = f.src /\ frags'[i].id = f.id
  BY <1>1, <1>2, KeepChangesOne, Zenon
<1>4. OneSlotPerPacket'
  BY <1>3, OneSlotKept, Zenon
<1>5. local_id' \in Nat
  BY <1>1 DEF Typed, Start
<1> QED  BY <1>3, <1>4, <1>5, Zenon

(* A fragment whose packet has a slot, or for whose packet one is unused.  *)
LEMMA PlacePreserves ==
  ASSUME FragInv, NEW f \in Fragment, Place(f)
  PROVE  frags' \in [FragSlots -> SlotRecords] /\ local_id' \in Nat /\ OneSlotPerPacket'
<1> DEFINE i == First(Holding(f))
<1>1. CASE Holding(f) # {} /\ Keep(i, frags[i], f, "kept") /\ UNCHANGED local_id
  <2>1. i \in Holding(f)
    <3>1. Holding(f) \subseteq FragSlots
      BY Zenon DEF Holding
    <3> QED  BY <1>1, <3>1, FirstIn, Zenon
  <2>2. i \in FragSlots /\ frags[i].src = f.src /\ frags[i].id = f.id
    BY <2>1, Zenon DEF Holding, Holds
  <2> HIDE DEF i
  <2>3. Typed /\ frags[i] \in SlotRecords
    BY <2>2, Zenon DEF FragInv, Typed
  <2>4. /\ frags' \in [FragSlots -> SlotRecords]
        /\ \A j \in FragSlots \ {i} : frags'[j] = frags[j]
        /\ frags'[i].src = f.src /\ frags'[i].id = f.id
    BY <1>1, <2>2, <2>3, KeepChangesOne, Zenon
  <2>5. OneSlotPerPacket'
    BY <2>1, <2>2, <2>4, OneSlotKept, Zenon
  <2> QED  BY <1>1, <2>3, <2>4, <2>5, Zenon DEF Typed
<1>2. CASE Holding(f) = {} /\ Unused # {} /\ Start(First(Unused), f, "kept")
  <2>1. First(Unused) \in FragSlots
    <3>1. Unused \subseteq FragSlots
      BY Zenon DEF Unused
    <3> QED  BY <1>2, <3>1, FirstIn, Zenon
  <2> QED  BY <1>2, <2>1, StartPreserves, Zenon
<1> QED  BY <1>1, <1>2, Zenon DEF Place

(* Every step of senders and receiver keeps the invariant.                 *)
LEMMA FragStep == FragInv /\ [FragNext]_fragVars => FragInv'
<1> SUFFICES ASSUME FragInv, [FragNext]_fragVars PROVE FragInv'
  BY Zenon
<1>0. Typed /\ OneSlotPerPacket
  BY Zenon DEF FragInv
<1>1. ASSUME NEW s \in Senders, NEW total \in 2 .. MaxPart, lan_client_send(s, total)
      PROVE  FragInv'
  <2>1. frag_id[s] % IdMod \in 0 .. IdMod - 1 /\ sends[s] + 1 \in Nat
    BY <1>0 DEF Typed
  <2>2. \A p \in 0 .. total - 1 : p \in Parts
    BY DEF Parts
  <2>3. {[src |-> s, id |-> frag_id[s] % IdMod, part |-> p, total |-> total,
          n |-> sends[s] + 1] : p \in 0 .. total - 1} \subseteq Fragment
    BY <2>1, <2>2 DEF Fragment
  <2>4. net' \subseteq Fragment
    BY <1>0, <1>1, <2>3, Zenon DEF Typed, lan_client_send
  <2>5. frag_id' \in [Senders -> Nat] /\ sends' \in [Senders -> Nat]
    BY <1>0, <1>1 DEF Typed, lan_client_send
  <2>6. UNCHANGED <<frags, local_id>>
    BY <1>1, Zenon DEF lan_client_send
  <2> QED  BY <1>0, <2>4, <2>5, <2>6, Zenon DEF FragInv, Typed, OneSlotPerPacket
<1>2. ASSUME NEW s \in Senders, lan_client_init(s) PROVE FragInv'
  <2>1. frag_id' \in [Senders -> Nat]
    BY <1>0, <1>2, Zenon DEF Typed, lan_client_init
  <2>2. UNCHANGED <<sends, net, frags, local_id>>
    BY <1>2, Zenon DEF lan_client_init
  <2> QED  BY <1>0, <2>1, <2>2, Zenon DEF FragInv, Typed, OneSlotPerPacket
<1>3. ASSUME NEW f \in net, lan_client_process_frag(f) \/ nx_lan_client_process_frag(f)
      PROVE  FragInv'
  <2>1. f \in Fragment
    BY <1>0, Zenon DEF Typed
  <2>2. UNCHANGED <<frag_id, sends, net>>
    BY <1>3, Zenon DEF lan_client_process_frag, nx_lan_client_process_frag, sendVars
  <2>3. CASE Place(f)
    <3>1. frags' \in [FragSlots -> SlotRecords] /\ local_id' \in Nat /\ OneSlotPerPacket'
      BY <2>1, <2>3, PlacePreserves, Zenon
    <3> QED  BY <1>0, <2>2, <3>1, Zenon DEF FragInv, Typed
  <2>4. CASE NoRoom(f) /\ Start(ToDelete, f, "evicted")
    <3>1. Holding(f) = {} /\ ToDelete \in FragSlots
      BY <1>0, <2>4, ToDeleteIsFarthest, Zenon DEF NoRoom
    <3>2. frags' \in [FragSlots -> SlotRecords] /\ local_id' \in Nat /\ OneSlotPerPacket'
      BY <2>1, <2>4, <3>1, StartPreserves, Zenon
    <3> QED  BY <1>0, <2>2, <3>2, Zenon DEF FragInv, Typed
  <2>5. CASE Ignore
    BY <1>0, <2>2, <2>5, Zenon DEF Ignore, FragInv, Typed, OneSlotPerPacket
  <2> QED  BY <1>3, <2>3, <2>4, <2>5, Zenon DEF lan_client_process_frag, nx_lan_client_process_frag
<1>4. CASE UNCHANGED fragVars
  BY <1>0, <1>4, Zenon DEF fragVars, FragInv, Typed, OneSlotPerPacket
<1> QED  BY <1>1, <1>2, <1>3, <1>4, Zenon DEF FragNext

(* A packet is never put together in two slots at once, on the PC client   *)
(* (which evicts) and on the console (which does not), whatever is lost,   *)
(* duplicated or reordered and however the ids wrap around.                *)
THEOREM PacketHasOneSlot == FragSpec => []OneSlotPerPacket
<1>1. FragInv => OneSlotPerPacket
  BY Zenon DEF FragInv
<1> QED  BY InitFrag, FragStep, <1>1, PTL DEF FragSpec
-----------------------------------------------------------------------------
(* What is put together is of one packet.                                  *)
(*                                                                         *)
(* DeliveredIntact says something of a slot only once it is whole.  The    *)
(* invariant says of every slot, of a sender whose ids have named each     *)
(* packet once, that the parts it has, and the length once it has the last *)
(* part, are of the packet its id names.  For that the fragments on the    *)
(* way must carry the number their id stands for, and all fragments of a   *)
(* packet the same total.                                                  *)

Unspoilt(s) == restarts[s] = 0 /\ sends[s] <= IdMod

Numbered ==
    /\ restarts \in [Senders -> Nat]
    /\ \A s \in Senders : restarts[s] = 0 => frag_id[s] = sends[s]
    /\ \A f \in net : f.n \in 1 .. sends[f.src]
    /\ \A f \in net : restarts[f.src] = 0 => f.id = (f.n - 1) % IdMod
    /\ \A f, g \in net : f.src = g.src /\ f.n = g.n => f.total = g.total

OfOnePacket(slot) ==
    Unspoilt(slot.src) =>
       /\ \A p \in slot.part : slot.buffer[p] = slot.id + 1
       /\ slot.part # {} =>
             \E g \in net : g.src = slot.src /\ g.id = slot.id /\ g.total = slot.total
       /\ slot.total - 1 \in slot.part => slot.total_len = slot.id + 1

Whole ==
    result.did = "delivered" =>
       /\ result.slot \in FragSlots /\ frags[result.slot].total \in 2 .. MaxPart
       /\ frags[result.slot].part = 0 .. frags[result.slot].total - 1

IntactInv == FragInv /\ Numbered /\ (\A i \in FragSlots : OfOnePacket(frags[i])) /\ Whole

(* What Keep leaves in its slot: the part is stored, and the packet is     *)
(* delivered only when all its parts are there.                            *)
LEMMA KeepStores ==
  ASSUME Typed, NEW i \in FragSlots, NEW slot \in SlotRecords, NEW f \in Fragment, NEW did,
         did # "delivered", Keep(i, slot, f, did)
  PROVE  /\ frags'[i].part = slot.part \cup {f.part}
         /\ frags'[i].buffer = [slot.buffer EXCEPT ![f.part] = f.n]
         /\ frags'[i].total_len = IF f.part = f.total - 1 THEN f.n ELSE slot.total_len
         /\ frags'[i].total = f.total /\ frags'[i].local_id = slot.local_id
         /\ result'.slot = i /\ result'.did \in {did, "delivered"}
         /\ result'.did = "delivered" => frags'[i].part = 0 .. f.total - 1
<1> DEFINE new == AddPart(slot, f)
           whole == new.part = 0 .. f.total - 1
           kept == [new EXCEPT !.used = ~whole]
<1>1. new \in SlotRecords
  BY StoreKeeps, Zenon
<1>2. /\ new.part = slot.part \cup {f.part}
      /\ new.buffer = [slot.buffer EXCEPT ![f.part] = f.n]
      /\ new.total_len = (IF f.part = f.total - 1 THEN f.n ELSE slot.total_len)
      /\ new.total = f.total /\ new.local_id = slot.local_id
  BY Zenon DEF AddPart, SlotRecords
<1>3. frags' = [frags EXCEPT ![i] = kept]
  BY Zenon DEF Keep
<1>4. result' = [did |-> IF whole THEN "delivered" ELSE did, slot |-> i]
  BY Zenon DEF Keep
<1>5. frags'[i] = kept
  BY <1>3, Zenon DEF Typed
<1> HIDE DEF new
<1>6. kept.part = new.part /\ kept.buffer = new.buffer /\ kept.total_len = new.total_len
  BY <1>1, Zenon DEF SlotRecords
<1>7. kept.total = new.total /\ kept.local_id = new.local_id
  BY <1>1, Zenon DEF SlotRecords
<1>8. result'.slot = i /\ result'.did \in {did, "delivered"} /\ (result'.did = "delivered" => whole)
  BY <1>4, Zenon
<1> QED  BY <1>2, <1>5, <1>6, <1>7, <1>8, Zenon

(* A sender whose ids have named each packet once: the id of a fragment is *)
(* the number of its packet.                                               *)
LEMMA IdNames ==
  ASSUME Typed, Numbered, NEW f \in net, Unspoilt(f.src)
  PROVE  f.n = f.id + 1
<1>1. /\ f.n \in 1 .. sends[f.src] /\ sends[f.src] \in Nat /\ sends[f.src] <= IdMod
      /\ f.id = (f.n - 1) % IdMod
  BY Zenon DEF Typed, Numbered, Unspoilt, Fragment
<1>2. f.n - 1 \in 0 .. IdMod - 1
  BY <1>1
<1>3. (f.n - 1) % IdMod = f.n - 1
  BY <1>2
<1> QED  BY <1>1, <1>2, <1>3

(* A slot of one packet still is when a fragment of that packet is stored. *)
LEMMA StoreOfOne ==
  ASSUME Typed, Numbered, NEW f \in net, NEW slot \in SlotRecords, OfOnePacket(slot),
         f.src = slot.src, f.id = slot.id, NEW new \in SlotRecords,
         new.src = slot.src, new.id = slot.id,
         new.part = slot.part \cup {f.part},
         new.buffer = [slot.buffer EXCEPT ![f.part] = f.n],
         new.total_len = (IF f.part = f.total - 1 THEN f.n ELSE slot.total_len),
         new.total = f.total
  PROVE  OfOnePacket(new)
<1> SUFFICES ASSUME Unspoilt(slot.src) PROVE OfOnePacket(new)
  BY Zenon DEF OfOnePacket
<1>1. f.n = slot.id + 1
  BY IdNames, Zenon
<1>2. /\ \A p \in slot.part : slot.buffer[p] = slot.id + 1
      /\ slot.part # {} =>
            \E g \in net : g.src = slot.src /\ g.id = slot.id /\ g.total = slot.total
      /\ slot.total - 1 \in slot.part => slot.total_len = slot.id + 1
  BY Zenon DEF OfOnePacket
<1>3. slot.part \subseteq Parts /\ slot.buffer \in [Parts -> Nat] /\ f.part \in Parts
  BY Zenon DEF SlotRecords, Typed, Fragment
<1>4. \A p \in new.part : new.buffer[p] = new.id + 1
  BY <1>1, <1>2, <1>3
<1>5. slot.part # {} => slot.total = f.total
  <2> SUFFICES ASSUME slot.part # {} PROVE slot.total = f.total
    BY Zenon
  <2>1. PICK g \in net : g.src = slot.src /\ g.id = slot.id /\ g.total = slot.total
    BY <1>2, Zenon
  <2>2. g.n = slot.id + 1
    BY <2>1, IdNames, Zenon
  <2> QED  BY <1>1, <2>1, <2>2 DEF Numbered
<1>6. new.total - 1 \in new.part => new.total_len = new.id + 1
  BY <1>1, <1>2, <1>5, Zenon
<1>7. \E g \in net : g.src = new.src /\ g.id = new.id /\ g.total = new.total
  BY Zenon
<1> QED  BY <1>4, <1>6, <1>7, Zenon DEF OfOnePacket

(* What a fragment that is not ignored does: its part is kept in the slot  *)
(* of its packet, or in one that starts the packet: unused, or evicted.    *)
LEMMA FragmentSteps ==
  ASSUME Typed, NEW f \in net,
         \/ evicts /\ lan_client_process_frag(f)
         \/ ~evicts /\ nx_lan_client_process_frag(f)
  PROVE  /\ UNCHANGED sendVars
         /\ \/ Ignore /\ NoRoom(f) /\ (evicts => ~MayEvict)
            \/ \E i \in FragSlots : /\ frags[i].used /\ frags[i].src = f.src /\ frags[i].id = f.id
                                    /\ Keep(i, frags[i], f, "kept") /\ UNCHANGED <<local_id, born>>
            \/ \E i \in FragSlots : ~frags[i].used /\ Start(i, f, "kept")
            \/ NoRoom(f) /\ ToDelete \in FragSlots /\ Start(ToDelete, f, "evicted")
<1>1. UNCHANGED sendVars
  BY Zenon DEF lan_client_process_frag, nx_lan_client_process_frag
<1>2. CASE Ignore /\ NoRoom(f) /\ (evicts => ~MayEvict)
  BY <1>1, <1>2, Zenon
<1>3. CASE NoRoom(f) /\ Start(ToDelete, f, "evicted")
  BY <1>1, <1>3, ToDeleteIsFarthest, Zenon
<1>4. CASE /\ Holding(f) # {} /\ UNCHANGED <<local_id, born>>
           /\ Keep(First(Holding(f)), frags[First(Holding(f))], f, "kept")
  <2>1. First(Holding(f)) \in Holding(f)
    <3>1. Holding(f) \subseteq FragSlots
      BY Zenon DEF Holding
    <3> QED  BY <1>4, <3>1, FirstIn, Zenon
  <2>2. PICK i \in Holding(f) : Keep(i, frags[i], f, "kept")
    BY <1>4, <2>1, Zenon
  <2>3. i \in FragSlots /\ frags[i].used /\ frags[i].src = f.src /\ frags[i].id = f.id
    BY <2>2, Zenon DEF Holding, Holds
  <2> QED  BY <1>1, <1>4, <2>2, <2>3, Zenon
<1>5. CASE Unused # {} /\ Start(First(Unused), f, "kept")
  <2>1. First(Unused) \in Unused
    <3>1. Unused \subseteq FragSlots
      BY Zenon DEF Unused
    <3> QED  BY <1>5, <3>1, FirstIn, Zenon
  <2>2. PICK i \in Unused : Start(i, f, "kept")
    BY <1>5, <2>1, Zenon
  <2>3. i \in FragSlots /\ ~frags[i].used
    BY <2>2, Zenon DEF Unused
  <2> QED  BY <1>1, <2>2, <2>3, Zenon
<1> QED  BY <1>2, <1>3, <1>4, <1>5, Zenon
            DEF lan_client_process_frag, nx_lan_client_process_frag, Place

(* Keeping a part of a packet in a slot that is of that packet only.       *)
LEMMA KeepIntact ==
  ASSUME IntactInv, NEW i \in FragSlots, NEW slot \in SlotRecords, NEW f \in net, NEW did,
         did \in {"kept", "evicted"}, OfOnePacket(slot), slot.src = f.src, slot.id = f.id,
         Keep(i, slot, f, did), UNCHANGED sendVars
  PROVE  Numbered' /\ (\A j \in FragSlots : OfOnePacket(frags[j])') /\ Whole'
<1>1. Typed /\ Numbered /\ f \in Fragment
  BY Zenon DEF IntactInv, FragInv, Typed
<1>2. Numbered'
  BY <1>1, Zenon DEF Numbered, sendVars
<1>3. /\ frags' \in [FragSlots -> SlotRecords]
      /\ \A j \in FragSlots \ {i} : frags'[j] = frags[j]
      /\ frags'[i].src = slot.src /\ frags'[i].id = slot.id
  BY <1>1, KeepChangesOne, ZenonT(30)
<1>4. /\ frags'[i].part = slot.part \cup {f.part}
      /\ frags'[i].buffer = [slot.buffer EXCEPT ![f.part] = f.n]
      /\ frags'[i].total_len = IF f.part = f.total - 1 THEN f.n ELSE slot.total_len
      /\ frags'[i].total = f.total
      /\ result'.slot = i /\ result'.did \in {did, "delivered"}
      /\ result'.did = "delivered" => frags'[i].part = 0 .. f.total - 1
  <2>1. did # "delivered" /\ f \in Fragment /\ Typed
    BY <1>1, Zenon
  <2> QED  BY <2>1, KeepStores
<1>5. OfOnePacket(frags'[i])
  BY <1>1, <1>3, <1>4, StoreOfOne
<1>6. \A j \in FragSlots \ {i} : OfOnePacket(frags'[j])
  BY <1>3, ZenonT(30) DEF IntactInv
<1>7. \A j \in FragSlots : OfOnePacket(frags[j])'
  BY <1>5, <1>6 DEF OfOnePacket, Unspoilt, sendVars
<1>8. Whole'
  <2>1. f.total \in 2 .. MaxPart
    BY <1>1, Zenon DEF Fragment
  <2>2. FragSlots' = FragSlots
    BY Zenon DEF FragSlots
  <2> QED  BY <1>4, <2>1, <2>2, Zenon DEF Whole
<1> QED  BY <1>2, <1>7, <1>8, Zenon

(* Starting a packet clears the parts of its slot, so what the buffer and  *)
(* the length were does not matter.                                        *)
LEMMA StartIntact ==
  ASSUME IntactInv, NEW i \in FragSlots, NEW f \in net, NEW did, did \in {"kept", "evicted"},
         Start(i, f, did), UNCHANGED sendVars
  PROVE  Numbered' /\ (\A j \in FragSlots : OfOnePacket(frags[j])') /\ Whole'
<1>1. Typed /\ f \in Fragment
  BY Zenon DEF IntactInv, FragInv, Typed
<1>2. /\ Allocate(i, f) \in SlotRecords
      /\ Allocate(i, f).src = f.src /\ Allocate(i, f).id = f.id
  BY <1>1, AllocateNames, Zenon
<1>3. Allocate(i, f).part = {}
  BY <1>1, Zenon DEF Allocate, Typed, SlotRecords
<1>4. OfOnePacket(Allocate(i, f))
  BY <1>3, Zenon DEF OfOnePacket
<1>5. Keep(i, Allocate(i, f), f, did)
  BY Zenon DEF Start
<1> QED  BY <1>2, <1>4, <1>5, KeepIntact, Zenon

(* Nothing is sent, and no slot has a part.                                *)
LEMMA IntactInit == FragInit => IntactInv
<1> SUFFICES ASSUME FragInit PROVE IntactInv
  BY Zenon
<1>1. Numbered
  BY Zenon DEF FragInit, Numbered
<1>2. \A i \in FragSlots : frags[i].part = {}
  BY Zenon DEF FragInit, EmptySlot
<1>3. \A i \in FragSlots : OfOnePacket(frags[i])
  BY <1>2, Zenon DEF OfOnePacket
<1>4. Whole
  BY Zenon DEF FragInit, Whole
<1> QED  BY InitFrag, <1>1, <1>3, <1>4, Zenon DEF IntactInv

(* A packet is cut into fragments with a number no fragment has yet.       *)
LEMMA SendIntact ==
  ASSUME IntactInv, NEW s \in Senders, NEW total \in 2 .. MaxPart, lan_client_send(s, total)
  PROVE  Numbered' /\ (\A j \in FragSlots : OfOnePacket(frags[j])') /\ Whole'
<1> DEFINE Cut == {[src |-> s, id |-> frag_id[s] % IdMod, part |-> p, total |-> total,
                    n |-> sends[s] + 1] : p \in 0 .. total - 1}
<1>0. Typed /\ Numbered /\ \A i \in FragSlots : OfOnePacket(frags[i])
  BY Zenon DEF IntactInv, FragInv
<1>1. /\ net' = net \cup Cut /\ result'.did = "nothing"
      /\ UNCHANGED <<restarts, frags>>
      /\ frag_id' = [frag_id EXCEPT ![s] = @ + 1] /\ sends' = [sends EXCEPT ![s] = @ + 1]
  BY Zenon DEF lan_client_send
<1>2. \A f \in Cut : /\ f.src = s /\ f.id = frag_id[s] % IdMod /\ f.n = sends[s] + 1
                     /\ f.total = total
  OBVIOUS
<1> HIDE DEF Cut
<1>3. \A f \in net : f.src \in Senders /\ f.n \in Nat
  BY <1>0, Zenon DEF Typed, Fragment
<1>4. sends \in [Senders -> Nat] /\ frag_id \in [Senders -> Nat] /\ restarts \in [Senders -> Nat]
  BY <1>0, Zenon DEF Typed, Numbered
<1>5. \A r \in Senders : restarts'[r] = 0 => frag_id'[r] = sends'[r]
  BY <1>0, <1>1, <1>4, Zenon DEF Numbered
<1>6. \A r \in Senders : sends[r] <= sends'[r]
  BY <1>1, <1>4
<1>7. \A f \in net' : f.n \in 1 .. sends'[f.src]
  <2>1. ASSUME NEW f \in net PROVE f.n \in 1 .. sends'[f.src]
    <3>1. f.n \in 1 .. sends[f.src] /\ f.src \in Senders
      BY <1>0, <1>3, Zenon DEF Numbered
    <3>2. sends[f.src] <= sends'[f.src] /\ sends[f.src] \in Nat /\ sends'[f.src] \in Nat
      BY <1>1, <1>4, <1>6, <3>1
    <3> QED  BY <3>1, <3>2
  <2>2. ASSUME NEW f \in Cut PROVE f.n \in 1 .. sends'[f.src]
    BY <1>1, <1>2, <1>4
  <2> QED  BY <1>1, <2>1, <2>2, Zenon
<1>8. \A f \in net' : restarts'[f.src] = 0 => f.id = (f.n - 1) % IdMod
  <2>1. ASSUME NEW f \in Cut, restarts[s] = 0 PROVE f.id = (f.n - 1) % IdMod
    <3>1. frag_id[s] = sends[s] /\ sends[s] \in Nat
      BY <1>0, <1>4, <2>1, Zenon DEF Numbered
    <3>2. f.n = sends[s] + 1 /\ f.id = frag_id[s] % IdMod
      BY <1>2, Zenon
    <3>3. f.n - 1 = frag_id[s]
      BY ONLY <3>1, <3>2
    <3> QED  BY <3>2, <3>3, Zenon
  <2> QED  BY <1>0, <1>1, <1>2, <2>1, Zenon DEF Numbered
<1>9. \A f, g \in net' : f.src = g.src /\ f.n = g.n => f.total = g.total
  <2>1. ASSUME NEW f \in net, NEW g \in Cut PROVE f.src = g.src => f.n # g.n
    <3>1. f.n \in 1 .. sends[f.src]
      BY <1>0, Zenon DEF Numbered
    <3> QED  BY <1>2, <1>4, <3>1
  <2> QED  BY <1>0, <1>1, <1>2, <2>1 DEF Numbered
<1>10. \A j \in FragSlots : OfOnePacket(frags[j])'
  <2> SUFFICES ASSUME NEW j \in FragSlots, Unspoilt(frags[j].src)' PROVE OfOnePacket(frags[j])'
    BY Zenon DEF OfOnePacket
  <2>1. frags'[j] = frags[j] /\ frags[j].src \in Senders
    BY <1>0, <1>1, ZenonT(30) DEF Typed, SlotRecords
  <2>2. Unspoilt(frags[j].src)
    <3>1. restarts[frags[j].src] = 0 /\ sends'[frags[j].src] <= IdMod
      BY <1>1, <2>1, Zenon DEF Unspoilt
    <3>2. sends[frags[j].src] <= sends'[frags[j].src]
      BY <1>6, <2>1, Zenon
    <3>3. sends[frags[j].src] \in Nat /\ sends'[frags[j].src] \in Nat
      BY <1>1, <1>4, <2>1
    <3> QED  BY <3>1, <3>2, <3>3 DEF Unspoilt
  <2> QED  BY <1>0, <1>1, <2>1, <2>2, Zenon DEF OfOnePacket
<1>11. Numbered'
  BY <1>1, <1>4, <1>5, <1>7, <1>8, <1>9, Zenon DEF Numbered
<1> QED  BY <1>1, <1>10, <1>11, Zenon DEF Whole

(* Every step of senders and receiver keeps the invariant.                 *)
LEMMA IntactNext == IntactInv /\ [FragNext]_fragVars => IntactInv'
<1> SUFFICES ASSUME IntactInv, [FragNext]_fragVars PROVE IntactInv'
  BY Zenon
<1> SUFFICES Numbered' /\ (\A j \in FragSlots : OfOnePacket(frags[j])') /\ Whole'
  <2>1. FragInv'
    BY FragStep, Zenon DEF IntactInv
  <2>2. FragSlots' = FragSlots
    BY Zenon DEF FragSlots
  <2> QED  BY <2>1, <2>2, Zenon DEF IntactInv
<1>0. Typed /\ Numbered /\ (\A i \in FragSlots : OfOnePacket(frags[i])) /\ Whole
  BY Zenon DEF IntactInv, FragInv
<1>1. ASSUME NEW s \in Senders, NEW total \in 2 .. MaxPart, lan_client_send(s, total)
      PROVE  Numbered' /\ (\A j \in FragSlots : OfOnePacket(frags[j])') /\ Whole'
  BY <1>1, SendIntact, Zenon
<1>2. ASSUME NEW s \in Senders, lan_client_init(s)
      PROVE  Numbered' /\ (\A j \in FragSlots : OfOnePacket(frags[j])') /\ Whole'
  <2>1. /\ restarts' = [restarts EXCEPT ![s] = @ + 1] /\ frag_id' = [frag_id EXCEPT ![s] = 0]
        /\ result'.did = "nothing" /\ UNCHANGED <<sends, net, frags>>
    BY <1>2, Zenon DEF lan_client_init
  <2>2. restarts \in [Senders -> Nat] /\ frag_id \in [Senders -> Nat]
    BY <1>0, Zenon DEF Typed, Numbered
  <2>3. restarts' \in [Senders -> Nat] /\ restarts'[s] # 0
    BY <2>1, <2>2
  <2>4. \A r \in Senders : restarts'[r] = 0 =>
           r # s /\ restarts[r] = 0 /\ frag_id'[r] = frag_id[r]
    BY <2>1, <2>2, <2>3, Zenon
  <2>5. \A f \in net : f.src \in Senders
    BY <1>0, Zenon DEF Typed, Fragment
  <2>6. Numbered'
    BY <1>0, <2>1, <2>3, <2>4, <2>5, Zenon DEF Numbered
  <2>7. \A j \in FragSlots : frags[j].src \in Senders
    BY <1>0, ZenonT(30) DEF Typed, SlotRecords
  <2>8. \A j \in FragSlots : OfOnePacket(frags[j])'
    BY <1>0, <2>1, <2>4, <2>7 DEF OfOnePacket, Unspoilt
  <2> QED  BY <2>1, <2>6, <2>8, Zenon DEF Whole
<1>3. ASSUME NEW f \in net, \/ evicts /\ lan_client_process_frag(f)
                            \/ ~evicts /\ nx_lan_client_process_frag(f)
      PROVE  Numbered' /\ (\A j \in FragSlots : OfOnePacket(frags[j])') /\ Whole'
  <2>1. UNCHANGED sendVars
    BY <1>0, <1>3, FragmentSteps, ZenonT(30)
  <2>2. CASE Ignore
    <3>1. UNCHANGED frags /\ result'.did = "ignored"
      BY <2>2, Zenon DEF Ignore
    <3> QED  BY <1>0, <2>1, <3>1 DEF sendVars, Numbered, OfOnePacket, Unspoilt, Whole
  <2>3. ASSUME NEW i \in FragSlots, frags[i].src = f.src, frags[i].id = f.id,
               Keep(i, frags[i], f, "kept")
        PROVE  Numbered' /\ (\A j \in FragSlots : OfOnePacket(frags[j])') /\ Whole'
    <3>1. frags[i] \in SlotRecords
      BY <1>0, Zenon DEF Typed
    <3> QED  BY <1>0, <2>1, <2>3, <3>1, KeepIntact, Zenon
  <2>4. ASSUME NEW i \in FragSlots, Start(i, f, "kept") \/ Start(i, f, "evicted")
        PROVE  Numbered' /\ (\A j \in FragSlots : OfOnePacket(frags[j])') /\ Whole'
    BY <2>1, <2>4, StartIntact, ZenonT(30)
  <2> QED  BY <1>0, <1>3, <2>2, <2>3, <2>4, FragmentSteps, Zenon
<1>4. CASE UNCHANGED fragVars
  BY <1>0, <1>4 DEF fragVars, Numbered, OfOnePacket, Unspoilt, Whole
<1> QED  BY <1>1, <1>2, <1>3, <1>4, Zenon DEF FragNext

(* Every packet handed on is one packet of its sender, with all its parts  *)
(* and its length, for any number of slots and parts and any width of the  *)
(* ids, whatever is lost, duplicated or reordered and however often a slot *)
(* was reused, as long as the sender's ids have not come round.            *)
THEOREM PacketsAreIntact == FragSpec => []DeliveredIntact
<1>1. IntactInv => DeliveredIntact
  <2> SUFFICES ASSUME IntactInv, result.did = "delivered", Unspoilt(frags[result.slot].src),
                      NEW p \in 0 .. frags[result.slot].total - 1
               PROVE  frags[result.slot].buffer[p] = frags[result.slot].total_len
    BY Zenon DEF DeliveredIntact, Unspoilt
  <2> DEFINE slot == frags[result.slot]
  <2>1. result.slot \in FragSlots /\ slot.total \in 2 .. MaxPart /\ slot.part = 0 .. slot.total - 1
    BY Zenon DEF IntactInv, Whole
  <2>2. OfOnePacket(slot)
    BY <2>1, Zenon DEF IntactInv
  <2>3. slot.total - 1 \in slot.part /\ p \in slot.part
    BY <2>1
  <2> QED  BY <2>2, <2>3, Zenon DEF OfOnePacket
<1> QED  BY IntactInit, IntactNext, <1>1, PTL DEF FragSpec
-----------------------------------------------------------------------------
(* Packets are given up in the order they were started.                    *)
(*                                                                         *)
(* The eviction compares 16-bit copies with the full counter.  The         *)
(* invariant relates them: a slot's copy is the remainder of the local_id  *)
(* it was started with, which is below the counter and of no other used    *)
(* slot.                                                                   *)

Aged ==
    /\ born \in [FragSlots -> Nat]
    /\ \A i \in FragSlots : frags[i].local_id = born[i] % LocalIdMod
    /\ \A i \in FragSlots : born[i] < local_id \/ (local_id = 0 /\ born[i] = 0 /\ ~frags[i].used)
    /\ \A i, j \in FragSlots : frags[i].used /\ frags[j].used /\ i # j => born[i] # born[j]

OrderInv == FragInv /\ Aged

(* No packet has been started.                                             *)
LEMMA OrderInit == FragInit => OrderInv
<1> SUFFICES ASSUME FragInit PROVE OrderInv
  BY Zenon
<1>1. \A i \in FragSlots : frags[i].local_id = 0 /\ ~frags[i].used
  BY Zenon DEF FragInit, EmptySlot
<1>2. 0 % LocalIdMod = 0
  OBVIOUS
<1>3. born = [i \in FragSlots |-> 0] /\ local_id = 0
  BY Zenon DEF FragInit
<1>4. Aged
  BY <1>1, <1>2, <1>3, Zenon DEF Aged
<1> QED  BY InitFrag, <1>4, Zenon DEF OrderInv

(* Starting a packet makes its slot the youngest.                          *)
LEMMA StartOrder ==
  ASSUME OrderInv, NEW i \in FragSlots, NEW f \in net, NEW did, did # "delivered", Start(i, f, did)
  PROVE  Aged'
<1>1. Typed /\ Aged /\ f \in Fragment
  BY Zenon DEF OrderInv, FragInv, Typed
<1>2. Keep(i, Allocate(i, f), f, did) /\ local_id' = local_id + 1 /\ local_id \in Nat
      /\ born' = [born EXCEPT ![i] = local_id]
  BY <1>1, Zenon DEF Start, Typed
<1>3. Allocate(i, f) \in SlotRecords
  BY <1>1, AllocateNames, Zenon
<1>4. Allocate(i, f).local_id = local_id % LocalIdMod
  BY <1>1, Zenon DEF Allocate, Typed, SlotRecords
<1>5. frags'[i].local_id = local_id % LocalIdMod
  BY <1>1, <1>2, <1>3, <1>4, KeepStores, ZenonT(30)
<1>6. \A j \in FragSlots \ {i} : frags'[j] = frags[j]
  BY <1>1, <1>2, <1>3, KeepChangesOne, Zenon
<1>7. /\ born' \in [FragSlots -> Nat] /\ born'[i] = local_id
      /\ \A j \in FragSlots \ {i} : born'[j] = born[j]
  BY <1>1, <1>2, Zenon DEF Aged
<1>8. \A j \in FragSlots : frags'[j].local_id = born'[j] % LocalIdMod
  BY <1>1, <1>5, <1>6, <1>7, ZenonT(30) DEF Aged
<1>9. \A j \in FragSlots : born'[j] < local_id'
  <2>1. ASSUME NEW j \in FragSlots \ {i} PROVE born[j] <= local_id /\ born[j] \in Nat
    BY <1>1, <1>2 DEF Aged
  <2> QED  BY <1>2, <1>7, <2>1
<1>10. \A j \in FragSlots \ {i} : frags[j].used => born[j] # local_id
  BY <1>1, <1>2 DEF Aged
<1>11. \A j, k \in FragSlots : frags'[j].used /\ frags'[k].used /\ j # k => born'[j] # born'[k]
  BY <1>1, <1>6, <1>7, <1>10 DEF Aged
<1>12. FragSlots' = FragSlots
  BY Zenon DEF FragSlots
<1> QED  BY <1>7, <1>8, <1>9, <1>11, <1>12, Zenon DEF Aged

(* Every step of senders and receiver keeps the invariant.                 *)
LEMMA OrderNext == OrderInv /\ [FragNext]_fragVars => OrderInv'
<1> SUFFICES ASSUME OrderInv, [FragNext]_fragVars PROVE OrderInv'
  BY Zenon
<1>0. Typed /\ Aged /\ FragInv'
  BY FragStep, Zenon DEF OrderInv, FragInv
<1>1. CASE UNCHANGED <<frags, local_id, born>>
  BY <1>0, <1>1, Zenon DEF OrderInv, Aged
<1>2. ASSUME NEW f \in net, NEW i \in FragSlots, frags[i].used,
             Keep(i, frags[i], f, "kept"), UNCHANGED <<local_id, born>>
      PROVE  Aged'
  <2>1. f \in Fragment /\ frags[i] \in SlotRecords
    BY <1>0, Zenon DEF Typed
  <2>2. frags'[i].local_id = frags[i].local_id
    BY <1>0, <1>2, <2>1, KeepStores, Zenon
  <2>3. \A j \in FragSlots \ {i} : frags'[j] = frags[j]
    BY <1>0, <1>2, <2>1, KeepChangesOne, Zenon
  <2>4. \A j \in FragSlots :
           frags'[j].local_id = frags[j].local_id /\ (frags'[j].used => frags[j].used)
    BY <1>2, <2>2, <2>3, ZenonT(30)
  <2>5. local_id # 0
    BY <1>0, <1>2 DEF Aged
  <2>6. FragSlots' = FragSlots
    BY Zenon DEF FragSlots
  <2> QED  BY <1>0, <1>2, <2>4, <2>5, <2>6, Zenon DEF Aged
<1>3. ASSUME NEW f \in net, \/ evicts /\ lan_client_process_frag(f)
                            \/ ~evicts /\ nx_lan_client_process_frag(f)
      PROVE  OrderInv'
  <2>1. CASE Ignore
    BY <1>1, <2>1, Zenon DEF Ignore
  <2>2. ASSUME NEW i \in FragSlots, Start(i, f, "kept") \/ Start(i, f, "evicted")
        PROVE  Aged'
    BY <2>2, StartOrder, Zenon
  <2> QED  BY <1>0, <1>2, <1>3, <2>1, <2>2, FragmentSteps, Zenon DEF OrderInv
<1>4. ASSUME NEW s \in Senders, NEW total \in 2 .. MaxPart, lan_client_send(s, total)
      PROVE  OrderInv'
  BY <1>1, <1>4, Zenon DEF lan_client_send
<1>5. ASSUME NEW s \in Senders, lan_client_init(s) PROVE OrderInv'
  BY <1>1, <1>5, Zenon DEF lan_client_init
<1>6. CASE UNCHANGED fragVars
  BY <1>1, <1>6, ZenonT(30) DEF fragVars
<1> QED  BY <1>3, <1>4, <1>5, <1>6, Zenon DEF FragNext

(* While local_id fits its 16-bit copies, a slot is as far from it as it   *)
(* is old; later a slot is at least that far.                              *)
LEMMA DistanceIsAge ==
  ASSUME OrderInv, NEW i \in FragSlots, local_id # 0
  PROVE  /\ Dif(i) >= local_id - born[i]
         /\ local_id <= LocalIdMod => Dif(i) = local_id - born[i]
<1>1. /\ local_id \in Nat /\ born[i] \in Nat /\ born[i] < local_id
      /\ frags[i].local_id = born[i] % LocalIdMod
  BY Zenon DEF OrderInv, FragInv, Typed, Aged
<1>2. born[i] % LocalIdMod \in Nat /\ born[i] % LocalIdMod <= born[i]
  BY <1>1
<1>3. local_id <= LocalIdMod => born[i] % LocalIdMod = born[i]
  BY <1>1
<1> QED  BY <1>1, <1>2, <1>3 DEF Dif, Abs

(* b gives n numbers different ones of an interval as long as there are    *)
(* numbers, and yet leaves out y.                                          *)
LeavesOut(b, n, low, y) ==
    /\ b \in [0 .. n - 1 -> low .. low + n - 1] /\ y \in low .. low + n - 1
    /\ \A i \in 0 .. n - 1 : b[i] # y /\ \A j \in 0 .. n - 1 : i # j => b[i] # b[j]

(* If it does, fewer numbers leave out one too.                            *)
LEMMA LeavesOutFewer ==
  ASSUME NEW n \in Nat, NEW low \in Int, NEW b, NEW y, LeavesOut(b, n, low, y)
  PROVE  n # 0 /\ \E c, z : LeavesOut(c, n - 1, low, z)
<1> DEFINE m == n - 1
           a == [i \in 0 .. m |-> IF b[i] = low + m THEN y ELSE b[i]]
           c == [i \in 0 .. m - 1 |-> a[i]]
<1>1. m \in Nat /\ n = m + 1
  BY DEF LeavesOut
<1>2. \A i \in 0 .. m : /\ b[i] \in low .. low + m /\ b[i] # y
                        /\ \A j \in 0 .. m : i # j => b[i] # b[j]
  BY Zenon DEF LeavesOut
<1>3. y \in low .. low + m
  BY Zenon DEF LeavesOut
<1>4. \A i \in 0 .. m : a[i] \in low .. low + m - 1
  BY <1>1, <1>2, <1>3
<1>5. \A i, j \in 0 .. m : i # j => a[i] # a[j]
  BY <1>2, Zenon
<1> HIDE DEF a
<1>6. LeavesOut(c, m, low, a[m])
  BY <1>1, <1>4, <1>5 DEF LeavesOut
<1> QED  BY <1>1, <1>6

(* The slots hold different packets of an interval as long as there are    *)
(* slots, so they hold all of it.                                          *)
LEMMA SlotsFillInterval ==
  ASSUME NEW low \in Int, NEW b \in [FragSlots -> low .. low + FragCount - 1],
         \A i, j \in FragSlots : i # j => b[i] # b[j]
  PROVE  {b[i] : i \in FragSlots} = low .. low + FragCount - 1
<1> DEFINE Bad == {n \in Nat : \E c, y : LeavesOut(c, n, low, y)}
<1>1. Bad = {}
  <2> SUFFICES ASSUME Bad # {} PROVE FALSE
    BY Zenon
  <2>1. PICK n \in Bad : \A k \in Bad : n <= k
    BY LeastNat, Zenon
  <2>2. n - 1 \in Bad
    BY LeavesOutFewer
  <2> QED  BY <2>1, <2>2
<1>2. ASSUME NEW y \in low .. low + FragCount - 1, \A i \in FragSlots : b[i] # y
      PROVE  FALSE
  <2>1. LeavesOut(b, FragCount, low, y)
    BY <1>2, Zenon DEF LeavesOut, FragSlots
  <2> QED  BY <1>1, <2>1, Zenon
<1> QED  BY <1>2

(* RecentPacketsKept for any number of slots and any width of local_id: a  *)
(* packet is evicted only when it is the oldest, and a fragment turned     *)
(* away by the PC client only while its slots hold the packets started     *)
(* last.  The second half holds when local_id has outgrown its copies too, *)
(* where the first does not.                                               *)
THEOREM OldestGoesFirst == FragSpec => RecentPacketsKept
<1> DEFINE IsOldest == result'.did = "evicted" /\ local_id <= LocalIdMod =>
                        \A i \in FragSlots : born[result'.slot] <= born[i]
           Full == evicts /\ result'.did = "ignored" =>
                     {born'[i] : i \in FragSlots} = (local_id' - FragCount) .. (local_id' - 1)
<1>1. OrderInv /\ [FragNext]_fragVars => [IsOldest /\ Full]_fragVars
  <2> SUFFICES ASSUME OrderInv, [FragNext]_fragVars, ~UNCHANGED fragVars PROVE IsOldest /\ Full
    BY Zenon
  <2>0. Typed /\ Aged
    BY Zenon DEF OrderInv, FragInv
  <2>1. ASSUME NEW f \in net, \/ evicts /\ lan_client_process_frag(f)
                              \/ ~evicts /\ nx_lan_client_process_frag(f)
        PROVE  IsOldest /\ Full
    <3>1. f \in Fragment
      BY <2>0, Zenon DEF Typed
    <3>2. CASE Ignore /\ NoRoom(f) /\ (evicts => ~MayEvict)
      <4>1. result'.did = "ignored" /\ UNCHANGED <<frags, local_id, born>>
        BY <3>2, Zenon DEF Ignore
      <4>2. Full
        <5> SUFFICES ASSUME evicts
                     PROVE  {born[i] : i \in FragSlots} = (local_id - FragCount) .. (local_id - 1)
          BY <4>1, Zenon
        <5>1. NoRoom(f) /\ ~MayEvict
          BY <3>2, Zenon
        <5>2. \A i \in FragSlots : frags[i].used
          BY <5>1, Zenon DEF NoRoom, Unused
        <5>3. \A i \in FragSlots : Dif(i) <= FragCount
          <6> TAKE i \in FragSlots
          <6>1. frags[i].local_id \in Nat /\ local_id \in Nat
            BY <2>0 DEF Typed, SlotRecords
          <6>2. Dif(i) \in Nat
            BY <6>1 DEF Dif, Abs
          <6>3. ~(Dif(i) > FragCount)
            BY <5>1, Zenon DEF MayEvict
          <6> QED  BY <6>2, <6>3
        <5>4. \A i \in FragSlots : born[i] \in (local_id - FragCount) .. (local_id - 1)
          <6> TAKE i \in FragSlots
          <6>1. local_id \in Nat /\ born[i] \in Nat /\ born[i] < local_id
            BY <2>0, <5>2, Zenon DEF Typed, Aged
          <6>2. Dif(i) >= local_id - born[i] /\ Dif(i) <= FragCount
            BY <5>3, <6>1, DistanceIsAge
          <6>3. frags[i].local_id \in Nat
            BY <2>0 DEF Typed, SlotRecords
          <6>4. Dif(i) \in Nat
            BY <6>1, <6>3 DEF Dif, Abs
          <6> QED  BY <6>1, <6>2, <6>4
        <5>5. \A i, j \in FragSlots : i # j => born[i] # born[j]
          BY <2>0, <5>2, Zenon DEF Aged
        <5> DEFINE low == local_id - FragCount
        <5>6. low \in Int /\ low + FragCount - 1 = local_id - 1
          BY <2>0 DEF Typed
        <5> HIDE DEF low
        <5>7. born \in [FragSlots -> low .. low + FragCount - 1]
          BY <2>0, <5>4, <5>6, Zenon DEF Aged, low
        <5>8. {born[i] : i \in FragSlots} = low .. low + FragCount - 1
          BY <5>5, <5>6, <5>7, SlotsFillInterval, Zenon
        <5> QED  BY <5>6, <5>8, Zenon DEF low
      <4> QED  BY <4>1, <4>2, Zenon
    <3>3. ASSUME NEW i \in FragSlots, NEW slot \in SlotRecords, Keep(i, slot, f, "kept")
          PROVE  IsOldest /\ Full
      <4>1. result'.did \in {"kept", "delivered"}
        BY <2>0, <3>1, <3>3, KeepStores, Zenon
      <4> QED  BY <4>1, Zenon
    <3>4. CASE Start(ToDelete, f, "evicted")
      <4>1. /\ ToDelete \in FragSlots /\ Allocate(ToDelete, f) \in SlotRecords
            /\ Keep(ToDelete, Allocate(ToDelete, f), f, "evicted")
        BY <2>0, <3>1, <3>4, ToDeleteIsFarthest, AllocateNames, Zenon DEF Start
      <4>2. result'.slot = ToDelete /\ result'.did \in {"evicted", "delivered"}
        BY <2>0, <3>1, <4>1, KeepStores, Zenon
      <4>3. ASSUME local_id <= LocalIdMod, NEW i \in FragSlots PROVE born[ToDelete] <= born[i]
        <5>1. CASE local_id = 0
          BY <2>0, <4>1, <5>1 DEF Aged
        <5>2. CASE local_id # 0
          <6>1. /\ Dif(ToDelete) = local_id - born[ToDelete] /\ Dif(i) = local_id - born[i]
                /\ Dif(ToDelete) >= Dif(i)
            BY <2>0, <4>1, <4>3, <5>2, DistanceIsAge, ToDeleteIsFarthest, ZenonT(30)
          <6>2. local_id \in Nat /\ born[i] \in Nat /\ born[ToDelete] \in Nat
            BY <2>0, <4>1, Zenon DEF Typed, Aged
          <6> QED  BY <6>1, <6>2
        <5> QED  BY <5>1, <5>2, ZenonT(30)
      <4> QED  BY <4>2, <4>3, Zenon
    <3>5. \A i \in FragSlots : frags[i] \in SlotRecords /\ Allocate(i, f) \in SlotRecords
      BY <2>0, <3>1, AllocateNames, Zenon DEF Typed
    <3>6. ASSUME NEW i \in FragSlots, Start(i, f, "kept") PROVE IsOldest /\ Full
      BY <3>3, <3>5, <3>6, Zenon DEF Start
    <3> QED  BY <2>0, <2>1, <3>2, <3>3, <3>4, <3>5, <3>6, FragmentSteps, ZenonT(30)
  <2>2. ASSUME NEW s \in Senders,
               (\E total \in 2 .. MaxPart : lan_client_send(s, total)) \/ lan_client_init(s)
        PROVE  IsOldest /\ Full
    <3>1. result'.did = "nothing"
      BY <2>2 DEF lan_client_send, lan_client_init
    <3> QED  BY <3>1, ZenonT(30)
  <2> QED  BY <2>1, <2>2, Zenon DEF FragNext
<1> QED  BY <1>1, OrderInit, OrderNext, PTL DEF FragSpec, RecentPacketsKept
=============================================================================
