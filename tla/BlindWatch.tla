----------------------------- MODULE BlindWatch -----------------------------
(***************************************************************************)
(* How the bot learns that it cannot see, and says so: the candle cache    *)
(* (data/data_cache.py) reads a frame when its copy is old, a failing read *)
(* leaves a record (data/market_data.py), and the next tick hands the      *)
(* record to the latch (utils/blindness_latch.py), which pages once per    *)
(* outage and says when sight is back.                                     *)
(*                                                                         *)
(* Time is counted in polls of 15 seconds; a tick takes one or more.       *)
(***************************************************************************)
EXTENDS Integers

CONSTANTS
    TicksNeeded,     \* BLIND_TICKS_BEFORE_ALERT
    PollsNeeded,     \* BLIND_SECONDS_BEFORE_ALERT, in polls
    MaxTick,         \* the slowest tick, in polls
    FrameAge,        \* CACHE_STALENESS_SECONDS of the 5m frame, in polls
    LastPoll,        \* polls observed, at most
    Blinders          \* what may go wrong: "dead", "old1m", "old5m"

ASSUME LatchAssumption == TicksNeeded \in Nat \ {0} /\ PollsNeeded \in Nat
ASSUME TickAssumption == MaxTick \in Nat \ {0} /\ FrameAge \in Nat /\ LastPoll \in Nat
ASSUME BlindersAssumption == Blinders \subseteq {"dead", "old1m", "old5m"}

NoRead == -1
Clear == "clear"
Frames == {"1m", "5m"}

\* The trigger frame, which every tick reads anew.
Readable(s) == s \notin {"dead", "old1m"}

VARIABLES
    poll,         \* the time
    sight,        \* the feed's store: Clear, "dead" (no fresh heartbeat), "old1m", "old5m" (bars)
    dark,         \* when the store was last Clear (history)
    window,       \* "trading" or "flatten"
    exposed,      \* a position is open
    fetched,      \* frame -> when the cache last had it
    record,       \* market_data._last_blind: the cause, or Clear
    blindTicks, blindSince, snapshot, alerted,    \* the latch
    said,         \* the latch's last verdict: "none", "ALERT", "RECOVERED"
    cleared       \* the trigger frame could be read since the last page (history)

latchVars == <<blindTicks, blindSince, snapshot, alerted, said>>
bwVars    == <<poll, sight, dark, window, exposed, fetched, record, latchVars, cleared>>

BlindTypeOK ==
    /\ poll \in 0..LastPoll /\ sight \in Blinders \cup {Clear} /\ dark \in 0..LastPoll
    /\ window \in {"trading", "flatten"} /\ exposed \in BOOLEAN
    /\ fetched \in [Frames -> 0..LastPoll \cup {NoRead}] /\ record \in Blinders \cup {Clear}
    /\ blindTicks \in Nat /\ blindSince \in 0..LastPoll \cup {NoRead}
    /\ snapshot \in Blinders \cup {Clear} /\ alerted \in BOOLEAN
    /\ said \in {"none", "ALERT", "RECOVERED"} /\ cleared \in BOOLEAN
    /\ (blindSince = NoRead) = (blindTicks = 0) /\ (blindTicks = 0) = (snapshot = Clear)

BlindInit ==
    /\ poll = 0 /\ sight = Clear /\ dark = 0 /\ window = "trading" /\ exposed \in BOOLEAN
    /\ fetched = [f \in Frames |-> NoRead] /\ record = Clear
    /\ blindTicks = 0 /\ blindSince = NoRead /\ snapshot = Clear /\ alerted = FALSE
    /\ said = "none" /\ cleared = TRUE

(***************************************************************************)
(* Around the tick.                                                        *)
(***************************************************************************)
\* The feed process and its store; bars of the one frame that go old do so from a clear store.
SightChanges ==
    /\ sight' \in (Blinders \cup {Clear}) \ {sight}
    /\ sight = Clear \/ sight' = Clear \/ "old5m" \notin {sight, sight'}
    /\ dark' = IF sight = Clear THEN poll ELSE dark
    /\ cleared' = (cleared \/ Readable(sight'))
    /\ UNCHANGED <<poll, window, exposed, fetched, record, latchVars>>

WindowOpens ==
    /\ window = "trading" /\ window' = "flatten"
    /\ UNCHANGED <<poll, sight, dark, exposed, fetched, record, latchVars, cleared>>

BookCloses ==
    /\ exposed /\ exposed' = FALSE
    /\ UNCHANGED <<poll, sight, dark, window, fetched, record, latchVars, cleared>>

(***************************************************************************)
(* BlindnessLatch.update, with the record the last tick left.              *)
(***************************************************************************)
Reset == blindTicks' = 0 /\ blindSince' = NoRead /\ snapshot' = Clear /\ alerted' = FALSE

Sees ==
    /\ record = Clear
    /\ said' = IF alerted THEN "RECOVERED" ELSE "none"
    /\ Reset

IsBlind ==
    /\ record # Clear
    /\ blindSince' = IF blindSince = NoRead THEN poll ELSE blindSince
    /\ snapshot' = IF blindSince = NoRead THEN record ELSE snapshot
    /\ blindTicks' = blindTicks + 1
    /\ IF ~alerted /\ blindTicks' >= TicksNeeded /\ poll - blindSince' >= PollsNeeded
         THEN alerted' = TRUE /\ said' = "ALERT"
         ELSE said' = "none" /\ UNCHANGED alerted

(***************************************************************************)
(* run_analysis: the cache reads what is too old, and a blind read leaves  *)
(* its record; bars that are merely old are served, and count as fetched.  *)
(***************************************************************************)
Age(f) == IF f = "1m" THEN 0 ELSE FrameAge

Due(f) == fetched[f] = NoRead \/ poll - fetched[f] > Age(f)

Refused(f) == sight = "dead"

Old(f) == (f = "1m" /\ sight = "old1m") \/ (f = "5m" /\ sight = "old5m")

\* Mutant: bars that are old are served without a record.
ReadsQuietly ==
    /\ fetched' = [f \in Frames |-> IF Due(f) /\ ~Refused(f) THEN poll ELSE fetched[f]]
    /\ record' = IF \E f \in Frames : Due(f) /\ Refused(f) THEN sight ELSE Clear

Reads ==
    /\ fetched' = [f \in Frames |-> IF Due(f) /\ ~Refused(f) THEN poll ELSE fetched[f]]
    /\ record' = IF \E f \in Frames : Due(f) /\ (Refused(f) \/ Old(f)) THEN sight ELSE Clear

\* The flatten window's ticks read only for a book that is still managed.
Looks == IF window = "trading" \/ exposed THEN Reads ELSE record' = Clear /\ UNCHANGED fetched

Tick ==
    /\ \E d \in 1..MaxTick : poll + d <= LastPoll /\ poll' = poll + d
    /\ Sees \/ IsBlind
    /\ Looks
    /\ cleared' = IF said' = "ALERT" THEN Readable(sight) ELSE cleared
    /\ UNCHANGED <<sight, dark, window, exposed>>

BlindNext == SightChanges \/ WindowOpens \/ BookCloses \/ Tick

BlindSpec == BlindInit /\ [][BlindNext]_bwVars

(***************************************************************************)
(* Properties.                                                             *)
(***************************************************************************)
\* From the darkness to the page: the tick that reads, the tick that is handed the record, and the
\* ticks and the seconds the latch waits for, each of which ends with a tick.
Longest(a, b) == IF a > b THEN a ELSE b
Patience == 2 * MaxTick + Longest((TicksNeeded - 1) * MaxTick, PollsNeeded + MaxTick - 1) + MaxTick

\* While the bot trades, an outage that every tick's read of the trigger frame meets is paged in
\* time, whatever its causes do, however slow the ticks (utils/blindness_latch.py, the header).
TriggerOutageIsPaged ==
    window = "trading" /\ ~Readable(sight) /\ poll - dark > Patience => alerted

\* While the bot trades, sight is never reported restored unless the trigger frame could be read
\* at some time since the page.
NoFalseAllClear ==
    [][said' = "RECOVERED" /\ said # "RECOVERED" /\ window = "trading" => cleared]_bwVars
=============================================================================
