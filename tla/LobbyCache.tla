----------------------------- MODULE LobbyCache -----------------------------
(***************************************************************************)
(* The lobby cache of the LDN bridge (sysmodule/source/ldn_bridge.cpp) and *)
(* the two threads that use it.  The relay thread stores every ScanResp it *)
(* injects into ldn_mitm; the UDP capture thread injects the cached ones   *)
(* again, so that a game whose scan missed a response sees it in its next  *)
(* scan.  A scan of the game is LANDiscovery::scan of ldn_mitm: it clears  *)
(* its results, sends a Scan packet that ldn_mitm mirrors to the bridge,   *)
(* waits, and reads what arrived.                                          *)
(*                                                                         *)
(* Time is counted in ticks of a tenth of a second.  A poll of 10 ms is    *)
(* rounded up to one tick.  A thread whose poll is over runs before the    *)
(* next tick.  The clock of the console is finer than a tick: what is      *)
(* stored after the capture thread has read `now' is newer than `now', and *)
(* `newer' records the slots for which this is so.  The file that disables *)
(* the cache is absent.                                                    *)
(*                                                                         *)
(* A definition named Mut_X_Y is X with a slip of the kind Y; it is used   *)
(* only to see that a property notices the slip.                           *)
(***************************************************************************)
EXTENDS Integers, FiniteSets

CONSTANTS
    CacheSize,   \* LOBBY_CACHE_SIZE
    Lobbies,     \* NetworkIds of the lobbies of other consoles
    None,        \* no lobby
    Interval,    \* LOBBY_REINJECT_INTERVAL_NS, in ticks
    Expiry,      \* LOBBY_EXPIRY_NS, in ticks
    Window,      \* the second that LANDiscovery::scan waits
    ShortPoll, LongPoll, BusyPoll, IdleLimit,  \* of the capture thread
    MaxJunk      \* bound on the packets the bridge receives and discards

ASSUME LobbyCacheAssumption ==
    /\ {CacheSize, Interval, Window, ShortPoll, LongPoll, BusyPoll} \subseteq Nat \ {0}
    /\ {Expiry, IdleLimit, MaxJunk} \subseteq Nat /\ None \notin Lobbies

(* What the intervals of the code must satisfy, for ldn_mitm's second and  *)
(* for so many discarded packets.                                          *)
ASSUME LobbyCacheTiming ==
    /\ BusyPoll <= ShortPoll /\ ShortPoll <= LongPoll /\ Interval <= IdleLimit + 1
    /\ Interval + ShortPoll + MaxJunk * BusyPoll <= Window

LobbySlots == 0 .. CacheSize - 1
MaxAge == Expiry + Interval + LongPoll + MaxJunk * BusyPoll

VARIABLES
    lobby,    \* [LobbySlots -> the lobby of a valid slot, None otherwise]
    age,      \* [LobbySlots -> ticks since the slot's timestamp]
    newer,    \* slots whose timestamp is after the `now' of the capture thread
    since,    \* ticks since g_last_lobby_reinject, -1: it is zero
    pc,       \* the capture thread: poll, or inject (waiting for the mutex)
    left,     \* what is left of its poll
    idle,     \* ticks since last_activity_tick, at most IdleLimit + 1
    next,     \* the poll_timeout after the injection
    junk,     \* packets discarded so far
    scan,     \* what is left of the game's scan, -1: no scan
    owed      \* lobbies cached when the scan began, not yet shown to it

cacheVars == <<lobby, age, newer>>
scanVars  == <<scan, owed>>
lobbyVars == <<cacheVars, since, pc, left, idle, next, junk, scanVars>>

Least(S) == CHOOSE m \in S : \A n \in S : m <= n
Polls == {ShortPoll, LongPoll, BusyPoll}
Cached == {lobby[i] : i \in LobbySlots} \ {None}

LobbyTypeOK ==
    /\ lobby \in [LobbySlots -> Lobbies \cup {None}] /\ age \in [LobbySlots -> Nat]
    /\ newer \subseteq LobbySlots /\ pc \in {"poll", "inject"}
    /\ since \in -1 .. MaxAge /\ idle \in 0 .. IdleLimit + 1
    /\ (\E p \in Polls : left \in 0 .. p) /\ next \in Polls /\ junk \in 0 .. MaxJunk
    /\ scan \in -1 .. Window /\ owed \subseteq Lobbies

(* ldn_bridge_init: lobby_cache_init, and the start of the capture thread. *)
LobbyInit ==
    /\ lobby = [i \in LobbySlots |-> None] /\ age = [i \in LobbySlots |-> 0]
    /\ newer = {} /\ since = -1 /\ pc = "poll"
    /\ left = ShortPoll /\ idle = 0 /\ next = ShortPoll /\ junk = 0
    /\ scan = -1 /\ owed = {}
-----------------------------------------------------------------------------
(* lobby_cache_store_if_scanresp: the slot of the same lobby, else the     *)
(* first free one, else the one with the oldest timestamp.                 *)
Oldest(i) == \A j \in LobbySlots : age[j] < age[i] \/ (age[j] = age[i] /\ i <= j)

Mut_StoreSlot_FirstFree(l) ==
    LET free == {i \in LobbySlots : lobby[i] = None}
        same == {i \in LobbySlots : lobby[i] = l}
    IN  IF free # {} THEN Least(free)
        ELSE IF same # {} THEN Least(same)
        ELSE CHOOSE i \in LobbySlots : Oldest(i)

StoreSlot(l) ==
    LET same == {i \in LobbySlots : lobby[i] = l}
        free == {i \in LobbySlots : lobby[i] = None}
    IN  IF same # {} THEN Least(same)
        ELSE IF free # {} THEN Least(free)
        ELSE CHOOSE i \in LobbySlots : Oldest(i)

Store(l) ==
    LET i == StoreSlot(l)
    IN  /\ lobby' = [lobby EXCEPT ![i] = l]
        /\ age' = [age EXCEPT ![i] = 0]
        /\ newer' = IF pc = "inject" THEN newer \cup {i} ELSE newer

(* The relay thread, ldn_bridge_inject: a ScanResp is stored and sent to   *)
(* ldn_mitm.  A lobby whose slot was taken is no longer owed.              *)
ldn_bridge_inject(l) ==
    /\ Store(l)
    /\ owed' = owed \cap ({lobby'[i] : i \in LobbySlots} \ {l})
    /\ UNCHANGED <<since, pc, left, idle, next, junk, scan>>

(* lobby_cache_reinject_if_due, up to the mutex.                           *)
Mut_Due_EveryThreeSeconds == since = -1 \/ since >= 6 * Interval

Due == since = -1 \/ since >= Interval

ReinjectIfDue(timeout) ==
    IF Due THEN pc' = "inject" /\ since' = 0 /\ next' = timeout /\ UNCHANGED left
    ELSE left' = timeout /\ UNCHANGED <<pc, since, next>>

(* armTicksToNs(now - timestamp) > LOBBY_EXPIRY_NS: the difference is      *)
(* unsigned, so a timestamp after `now' counts as expired.                 *)
Expired(i) == age[i] > Expiry \/ i \in newer

(* The rest of it, with the mutex: expired slots are freed, the others are *)
(* sent to ldn_mitm.                                                       *)
Reinject ==
    /\ pc = "inject"
    /\ lobby' = [i \in LobbySlots |-> IF Expired(i) THEN None ELSE lobby[i]]
    /\ age' = [i \in LobbySlots |-> IF lobby'[i] = None THEN 0 ELSE age[i]]
    /\ newer' = {} /\ owed' = {}
    /\ pc' = "poll" /\ left' = next /\ next' = ShortPoll
    /\ UNCHANGED <<since, idle, junk, scan>>

(* ldn_bridge_udp_thread_fn: the poll is over.                             *)
PollTimeout ==
    /\ pc = "poll" /\ left = 0
    /\ ReinjectIfDue(IF idle > IdleLimit THEN LongPoll ELSE ShortPoll)
    /\ UNCHANGED <<cacheVars, idle, junk, scanVars>>

(* A packet of ldn_mitm is captured and sent to the relay.                 *)
Capture ==
    /\ pc = "poll" /\ idle' = 0
    /\ ReinjectIfDue(BusyPoll)
    /\ UNCHANGED <<cacheVars, junk>>

(* One such packet in a tick is as good as several.                        *)
CaptureOther == Capture /\ idle > 0 /\ UNCHANGED scanVars

(* recvfrom fails, or the packet is short or has another magic.            *)
CaptureJunk ==
    /\ pc = "poll" /\ junk < MaxJunk /\ junk' = junk + 1
    /\ idle' = 0 /\ left' = BusyPoll
    /\ UNCHANGED <<cacheVars, since, pc, next, scanVars>>

(* The game scans: results cleared, the Scan packet mirrored to the bridge. *)
ScanBegins ==
    /\ scan = -1 /\ scan' = Window /\ owed' = Cached
    /\ Capture

ScanEnds ==
    /\ scan = 0 /\ scan' = -1 /\ owed' = {}
    /\ UNCHANGED <<cacheVars, since, pc, left, idle, next, junk>>

(* A tick of the clock; the capture thread is waiting in poll.             *)
LobbyTick ==
    /\ pc = "poll" /\ left > 0 /\ scan # 0
    /\ left' = left - 1
    /\ idle' = Least({idle + 1, IdleLimit + 1})
    /\ since' = IF since = -1 THEN -1 ELSE Least({since + 1, MaxAge})
    /\ age' = [i \in LobbySlots |-> IF lobby[i] = None THEN 0 ELSE age[i] + 1]
    /\ scan' = IF scan = -1 THEN -1 ELSE scan - 1
    /\ UNCHANGED <<lobby, newer, pc, next, junk, owed>>

LobbyNext ==
    \/ \E l \in Lobbies : ldn_bridge_inject(l)
    \/ Reinject \/ PollTimeout \/ CaptureOther \/ CaptureJunk
    \/ ScanBegins \/ ScanEnds \/ LobbyTick

LobbySpec == LobbyInit /\ [][LobbyNext]_lobbyVars
-----------------------------------------------------------------------------
(* A lobby has one slot: a ScanResp of a known lobby replaces the old one  *)
(* also when an earlier slot is free, so ldn_mitm is never sent two        *)
(* versions of the same network (lobby_cache_store_if_scanresp).           *)
OneSlotPerLobby ==
    \A i, j \in LobbySlots : lobby[i] = lobby[j] /\ lobby[i] # None => i = j

(* "500ms - must fit within ldn_mitm 1s scan window": every lobby that is  *)
(* cached when the game starts to scan, and that is not dropped or evicted *)
(* during the scan, is shown to ldn_mitm before the scan ends, whatever    *)
(* the phase of the capture thread's poll and of the injection interval.   *)
ScanSeesLobbies == scan = 0 => owed = {}

(* A lobby nobody has heard of for LOBBY_EXPIRY_NS leaves the cache within *)
(* one interval and the poll that the capture thread is in by then, though *)
(* packets it discards begin a new poll each time.                         *)
ExpiredLeaves == \A i \in LobbySlots : age[i] <= MaxAge

(* docs/legacy-hardening-phase6.md: cached lobbies are "re-injected every  *)
(* 3 seconds" (thirty ticks).                                              *)
EveryThreeSeconds == [][pc' = "inject" /\ pc # "inject" => since = -1 \/ since >= 30]_lobbyVars

(* docs/legacy-hardening-phase6.md: "Recent ScanResp packets are cached    *)
(* for up to 30 seconds": a slot is freed only when its lobby is older.    *)
CachedUntilExpiry ==
    [][\A i \in LobbySlots : lobby[i] # None /\ lobby'[i] = None => age[i] > Expiry]_lobbyVars
=============================================================================
