--------------------------- MODULE FragReassembly ---------------------------
(***************************************************************************)
(* Fragments between relay clients: the PC client cuts an IPv4 packet into *)
(* numbered fragments (lan_client_send), the network loses, duplicates and *)
(* reorders them, and the receiving client puts them together in one of    *)
(* LC_FRAG_COUNT slots (lan_client_process_frag).  The PC client evicts an *)
(* old slot when none is free; the Switch client does not.                 *)
(*                                                                         *)
(* A fragment carries the number of the packet it was cut from in place of *)
(* its bytes.  Widths matter: an id and a slot's local_id have 16 bits,    *)
(* the counters they are copied from are ints.                             *)
(*                                                                         *)
(* A definition named Mut_X_Y is X with a slip of the kind Y; it is used   *)
(* only to see that a property notices the slip.                           *)
(***************************************************************************)
EXTENDS Integers, FiniteSets

CONSTANTS
    Senders,     \* virtual addresses of the senders
    FragCount,   \* LC_FRAG_COUNT
    MaxPart,     \* the most parts a packet is cut into, at most 8
    IdMod,       \* 2^16, for header.id
    LocalIdMod,  \* 2^16, for frag->local_id
    MaxPackets,  \* bound: packets of a sender
    MaxRestarts, \* bound: restarts of a sender
    MaxLocalId   \* bound: packets the receiver starts

ASSUME FragReassemblyAssumption ==
    /\ Senders # {} /\ FragCount \in Nat \ {0} /\ MaxPart \in 2 .. 8
    /\ IdMod \in Nat \ {0} /\ LocalIdMod \in Nat \ {0}

VARIABLES
    evicts,     \* the receiver is the PC client
    frag_id,    \* lan_play->frag_id of each sender
    sends,      \* packets each sender has sent, over all its restarts
    restarts,   \* restarts of each sender
    net,        \* fragments sent: any may arrive any number of times
    frags,      \* the receiver's slots
    local_id,   \* lan_play->local_id of the receiver
    born,       \* history: local_id, in full, each slot was allocated with
    result      \* what the last fragment did

fragVars == <<evicts, frag_id, sends, restarts, net, frags, local_id, born, result>>
sendVars == <<evicts, frag_id, sends, restarts, net>>

FragSlots == 0 .. FragCount - 1
Parts == 0 .. MaxPart - 1

Fragment == [src : Senders, id : 0 .. IdMod - 1, part : Parts, total : 2 .. MaxPart, n : Nat]

EmptySlot ==
    [used |-> FALSE, src |-> CHOOSE s \in Senders : TRUE, id |-> 0, local_id |-> 0, part |-> {},
     buffer |-> [p \in Parts |-> 0], total_len |-> 0, total |-> 0]

FragTypeOK ==
    /\ evicts \in BOOLEAN
    /\ frag_id \in [Senders -> Nat] /\ sends \in [Senders -> Nat] /\ restarts \in [Senders -> Nat]
    /\ net \subseteq Fragment
    /\ local_id \in Nat /\ born \in [FragSlots -> Nat]
    /\ \A i \in FragSlots : /\ frags[i].used \in BOOLEAN /\ frags[i].src \in Senders
                            /\ frags[i].id \in 0 .. IdMod - 1
                            /\ frags[i].local_id \in 0 .. LocalIdMod - 1
                            /\ frags[i].part \subseteq Parts
                            /\ frags[i].buffer \in [Parts -> Nat]
    /\ result.did \in {"nothing", "kept", "evicted", "ignored", "delivered"}
-----------------------------------------------------------------------------
(* lan_client_send of a packet that needs total fragments.                 *)
lan_client_send(s, total) ==
    /\ sends[s] < MaxPackets
    /\ frag_id' = [frag_id EXCEPT ![s] = @ + 1]
    /\ sends' = [sends EXCEPT ![s] = @ + 1]
    /\ net' = net \cup {[src |-> s, id |-> frag_id[s] % IdMod, part |-> p, total |-> total,
                         n |-> sends[s] + 1] : p \in 0 .. total - 1}
    /\ result' = [did |-> "nothing", slot |-> 0]
    /\ UNCHANGED <<evicts, restarts, frags, local_id, born>>

(* lan_client_init of a sender that is started again.                      *)
lan_client_init(s) ==
    /\ restarts[s] < MaxRestarts
    /\ restarts' = [restarts EXCEPT ![s] = @ + 1]
    /\ frag_id' = [frag_id EXCEPT ![s] = 0]
    /\ result' = [did |-> "nothing", slot |-> 0]
    /\ UNCHANGED <<evicts, sends, net, frags, local_id, born>>
-----------------------------------------------------------------------------
Mut_Holds_NotDuplicate(i, f) ==
    frags[i].used /\ frags[i].id = f.id /\ frags[i].src = f.src /\ f.part \notin frags[i].part

Holds(i, f) == frags[i].used /\ frags[i].id = f.id /\ frags[i].src = f.src

First(S) == CHOOSE i \in S : \A j \in S : i <= j

(* The slot a new packet starts in: part is reset, buffer and total_len    *)
(* keep what they were.                                                    *)
Mut_Allocate_KeepsParts(i, f) ==
    [frags[i] EXCEPT !.used = TRUE, !.src = f.src, !.id = f.id,
                     !.local_id = local_id % LocalIdMod]

Allocate(i, f) ==
    [frags[i] EXCEPT !.used = TRUE, !.src = f.src, !.id = f.id,
                     !.local_id = local_id % LocalIdMod, !.part = {}]

(* Store part f in the slot and deliver the packet when it is whole.       *)
AddPart(slot, f) ==
    [slot EXCEPT !.part = @ \cup {f.part}, !.buffer[f.part] = f.n,
                 !.total_len = IF f.part = f.total - 1 THEN f.n ELSE @, !.total = f.total]

Keep(i, slot, f, did) ==
    LET new == AddPart(slot, f)
        whole == new.part = 0 .. f.total - 1
    IN  /\ frags' = [frags EXCEPT ![i] = [new EXCEPT !.used = ~whole]]
        /\ result' = [did |-> IF whole THEN "delivered" ELSE did, slot |-> i]

Abs(x) == IF x < 0 THEN -x ELSE x
Dif(i) == Abs(frags[i].local_id - local_id)

(* The slot evicted: the first of those farthest from local_id.            *)
ToDelete == First({i \in FragSlots : \A j \in FragSlots : Dif(i) >= Dif(j)})

Mut_MayEvict_Later == \E i \in FragSlots : Dif(i) > FragCount + 1

MayEvict == \E i \in FragSlots : Dif(i) > FragCount

Holding(f) == {i \in FragSlots : Holds(i, f)}
Unused == {i \in FragSlots : ~frags[i].used}

Start(i, f, did) ==
    /\ local_id < MaxLocalId
    /\ Keep(i, Allocate(i, f), f, did)
    /\ local_id' = local_id + 1
    /\ born' = [born EXCEPT ![i] = local_id]

(* A fragment whose packet has a slot, or for whose packet one is unused.  *)
Place(f) ==
    \/ /\ Holding(f) # {}
       /\ Keep(First(Holding(f)), frags[First(Holding(f))], f, "kept")
       /\ UNCHANGED <<local_id, born>>
    \/ /\ Holding(f) = {} /\ Unused # {}
       /\ Start(First(Unused), f, "kept")

Ignore == result' = [did |-> "ignored", slot |-> 0] /\ UNCHANGED <<frags, local_id, born>>

NoRoom(f) == Holding(f) = {} /\ Unused = {}

(* A fragment arrives at the PC client.                                    *)
lan_client_process_frag(f) ==
    /\ \/ Place(f)
       \/ NoRoom(f) /\ MayEvict /\ Start(ToDelete, f, "evicted")
       \/ NoRoom(f) /\ ~MayEvict /\ Ignore
    /\ UNCHANGED sendVars

(* A fragment arrives at the Switch client.                                *)
nx_lan_client_process_frag(f) ==
    /\ Place(f) \/ (NoRoom(f) /\ Ignore)
    /\ UNCHANGED sendVars

FragInit ==
    /\ evicts \in BOOLEAN
    /\ frag_id = [s \in Senders |-> 0] /\ sends = [s \in Senders |-> 0]
    /\ restarts = [s \in Senders |-> 0] /\ net = {}
    /\ frags = [i \in FragSlots |-> EmptySlot]
    /\ local_id = 0 /\ born = [i \in FragSlots |-> 0]
    /\ result = [did |-> "nothing", slot |-> 0]

FragNext ==
    \/ \E s \in Senders : \/ \E total \in 2 .. MaxPart : lan_client_send(s, total)
                          \/ lan_client_init(s)
    \/ \E f \in net : \/ evicts /\ lan_client_process_frag(f)
                      \/ ~evicts /\ nx_lan_client_process_frag(f)

FragSpec == FragInit /\ [][FragNext]_fragVars
-----------------------------------------------------------------------------
(* Every packet handed to lan_client_process is one packet of its sender:  *)
(* all its parts and its length are of the same packet, though slots are   *)
(* reused without being cleared, packets interleave and fragments are      *)
(* duplicated, lost and reordered.  A sender that restarted or whose ids   *)
(* wrapped around is left out: there the code does splice packets.         *)
DeliveredIntact ==
    LET slot == frags[result.slot]
    IN  /\ result.did = "delivered"
        /\ restarts[slot.src] = 0 /\ sends[slot.src] <= IdMod
        => \A p \in 0 .. slot.total - 1 : slot.buffer[p] = slot.total_len

(* A packet is never put together in two slots at once.                    *)
OneSlotPerPacket ==
    \A i, j \in FragSlots : frags[i].used /\ frags[j].used /\ i # j =>
       <<frags[i].src, frags[i].id>> # <<frags[j].src, frags[j].id>>

(* Packets are given up in the order they were started: what the PC client *)
(* evicts is its oldest, as long as local_id fits the 16 bits of a slot's  *)
(* copy, and it turns a fragment away only when its slots hold exactly the *)
(* LC_FRAG_COUNT packets started last.                                     *)
RecentPacketsKept ==
    [][/\ result'.did = "evicted" /\ local_id <= LocalIdMod =>
             \A i \in FragSlots : born[result'.slot] <= born[i]
       /\ evicts /\ result'.did = "ignored" =>
             {born'[i] : i \in FragSlots} = (local_id' - FragCount) .. (local_id' - 1)]_fragVars
=============================================================================
