----------------------------- MODULE Warehouse -----------------------------
(***************************************************************************)
(* The box's archive: the series rows the feed appends and a table whose   *)
(* rows change, shipped to S3 by warehouse/s3_push.py (every five minutes, *)
(* and once more by the nightly close, whose verdict decides whether the   *)
(* box may halt), and the purge of warehouse/retention_purge.py, which     *)
(* deletes old rows up to the mark the ledger says S3 has confirmed.       *)
(*                                                                         *)
(* A row is its time; the feed's rows come in order.  An object of the     *)
(* series is the set of rows it holds, because its key is a hash of them;  *)
(* the key of a mutable row's object has the time of the run in it too.    *)
(***************************************************************************)
EXTENDS Integers, FiniteSets, FiniteSetsExt

CONSTANTS
    MaxRow,       \* rows the feed writes, at most
    MaxVersion,   \* changes of the mutable row, at most
    Batch,        \* SERIES_BATCH_ROWS: rows a run ships of a table, at most
    Keep,         \* the retention window, in rows
    MaxKills,     \* kills of a process and halts of the box, at most
    MaxPushes,    \* runs of the pusher and of the close, at most
    Outages       \* what may fail: "put", "get", "list", "busy" (the lock is not had in time)

ASSUME RowAssumption == MaxRow \in Nat /\ MaxVersion \in Nat /\ Keep \in Nat
ASSUME BatchAssumption == Batch \in Nat \ {0}
ASSUME WarehouseBounds == MaxKills \in Nat /\ MaxPushes \in Nat

Pushers == {"timer", "close"}
Streams == {"series", "mutable"}
Rows == 1..MaxRow
Absent == -1
None == "none"

VARIABLES
    clock,        \* rows written so far, the time of the newest
    store,        \* rows in the local series table
    version,      \* state of the mutable row
    objects,      \* stream -> objects S3 holds
    diskMark,     \* candle_ledger.json: the high-water mark, or Absent
    diskSha,      \* derived_ledger.json: the state of the mutable row last confirmed
    diskCount,    \* prefix_counters.json: objects confirmed, per stream
    lock,         \* who holds s3_push.lock
    at,           \* pusher -> where its run is
    mark, sha, count,   \* pusher -> the ledgers as it loaded and advanced them
    sent,         \* pusher -> what it has confirmed and not yet entered in the ledger
    failed,       \* pusher -> a PUT of this run was not confirmed
    drained,      \* pusher -> it had the lock
    verdict,      \* the close's: "none", "ok", "short"
    unlisted,     \* the close's last LIST raised (history)
    cutoff,       \* the purge's, while it deletes; else Absent
    marked,       \* the purge found a mark
    purged,       \* rows purged under a mark (history)
    feed, powered,      \* the feed runs; the box is on
    kills, pushes

boxVars    == <<clock, store, version, feed, powered>>
diskVars   == <<diskMark, diskSha, diskCount>>
runVars    == <<at, mark, sha, count, sent, failed, drained>>
purgeVars  == <<cutoff, marked, purged>>
closeVars  == <<verdict, unlisted>>
whVars     == <<boxVars, objects, diskVars, lock, runVars, closeVars, purgeVars, kills, pushes>>

Shipped == UNION objects["series"]
ShippedStates == {o[1] : o \in objects["mutable"]} \cup {-1}

(***************************************************************************)
(* Types and the initial state: a fresh box.                               *)
(***************************************************************************)
Stops == {"idle", "series", "entered", "counters", "ledgers", "mutable", "entering",
          "flush", "flushing", "verify", "closing", "trimming"}

BoxTypes ==
    /\ clock \in 0..MaxRow /\ store \subseteq Rows /\ version \in 0..MaxVersion
    /\ feed \in BOOLEAN /\ powered \in BOOLEAN /\ kills \in 0..MaxKills /\ pushes \in 0..MaxPushes

ArchiveTypes ==
    /\ objects["series"] \subseteq SUBSET Rows /\ objects["mutable"] \subseteq (0..MaxVersion) \X (1..MaxPushes)
    /\ diskMark \in Rows \cup {Absent} /\ diskSha \in -1..MaxVersion
    /\ diskCount \in [Streams -> Nat]

RunTypes ==
    /\ lock \in Pushers \cup {None} /\ at \in [Pushers -> Stops]
    /\ mark \in [Pushers -> Rows \cup {Absent}] /\ sha \in [Pushers -> -1..MaxVersion]
    /\ count \in [Pushers -> [Streams -> Nat]] /\ sent \in [Pushers -> -1..(MaxRow + MaxVersion)]
    /\ failed \in [Pushers -> BOOLEAN] /\ drained \in [Pushers -> BOOLEAN]

NightTypes ==
    /\ verdict \in {"none", "ok", "short"} /\ unlisted \in BOOLEAN
    /\ cutoff \in Int /\ marked \in BOOLEAN /\ purged \subseteq Rows

WarehouseTypeOK == BoxTypes /\ ArchiveTypes /\ RunTypes /\ NightTypes

WarehouseInit ==
    /\ clock = 0 /\ store = {} /\ version = 0 /\ feed = TRUE /\ powered = TRUE
    /\ objects = [s \in Streams |-> {}]
    /\ diskMark = Absent /\ diskSha = -1 /\ diskCount = [s \in Streams |-> 0]
    /\ lock = None /\ at = [p \in Pushers |-> "idle"]
    /\ mark = [p \in Pushers |-> Absent] /\ sha = [p \in Pushers |-> -1]
    /\ count = [p \in Pushers |-> [s \in Streams |-> 0]] /\ sent = [p \in Pushers |-> -1]
    /\ failed = [p \in Pushers |-> FALSE] /\ drained = [p \in Pushers |-> FALSE]
    /\ verdict = "none" /\ unlisted = FALSE
    /\ cutoff = Absent /\ marked = FALSE /\ purged = {}
    /\ kills = 0 /\ pushes = 0

(***************************************************************************)
(* The writers.                                                            *)
(***************************************************************************)
FeedWrites ==
    /\ powered /\ feed /\ clock < MaxRow
    /\ clock' = clock + 1 /\ store' = store \cup {clock + 1}
    /\ UNCHANGED <<version, feed, powered, objects, diskVars, lock, runVars, closeVars, purgeVars,
                   kills, pushes>>

RowChanges ==
    /\ powered /\ version < MaxVersion /\ version' = version + 1
    /\ UNCHANGED <<clock, store, feed, powered, objects, diskVars, lock, runVars, closeVars,
                   purgeVars, kills, pushes>>

(***************************************************************************)
(* A run of the pusher: load the ledgers, ship each stream, flush.         *)
(***************************************************************************)
\* Mutant: a ledger that is not there is read as one that has shipped nothing since zero.
LoadZero(p) ==
    /\ mark' = [mark EXCEPT ![p] = IF diskMark = Absent THEN 0 ELSE diskMark]
    /\ sha' = [sha EXCEPT ![p] = diskSha]
    /\ count' = [count EXCEPT ![p] = diskCount]
    /\ sent' = [sent EXCEPT ![p] = -1]
    /\ failed' = [failed EXCEPT ![p] = FALSE]

Load(p) ==
    /\ mark' = [mark EXCEPT ![p] = diskMark]
    /\ sha' = [sha EXCEPT ![p] = diskSha]
    /\ count' = [count EXCEPT ![p] = diskCount]
    /\ sent' = [sent EXCEPT ![p] = -1]
    /\ failed' = [failed EXCEPT ![p] = FALSE]

\* Mutant: a timer run that does not have the lock ships all the same.
StartUnlocked(p) ==
    /\ powered /\ at[p] = "idle" /\ pushes < MaxPushes
    /\ lock' = p /\ drained' = [drained EXCEPT ![p] = TRUE]
    /\ at' = [at EXCEPT ![p] = "series"]
    /\ Load(p)
    /\ verdict' = IF p = "close" THEN "none" ELSE verdict
    /\ pushes' = pushes + 1
    /\ UNCHANGED <<boxVars, objects, diskVars, unlisted, purgeVars, kills>>

\* The ledgers a process has in memory are gone with it.
Exits(p) ==
    /\ mark' = [mark EXCEPT ![p] = Absent]
    /\ sha' = [sha EXCEPT ![p] = -1]
    /\ count' = [count EXCEPT ![p] = [s \in Streams |-> 0]]
    /\ sent' = [sent EXCEPT ![p] = -1]
    /\ drained' = [drained EXCEPT ![p] = FALSE]

Start(p) ==
    /\ powered /\ at[p] = "idle" /\ lock = None /\ pushes < MaxPushes
    /\ lock' = p /\ drained' = [drained EXCEPT ![p] = TRUE]
    /\ at' = [at EXCEPT ![p] = "series"]
    /\ Load(p)
    /\ verdict' = IF p = "close" THEN "none" ELSE verdict
    /\ pushes' = pushes + 1
    /\ UNCHANGED <<boxVars, objects, diskVars, unlisted, purgeVars, kills>>

\* --verify waits for the lock and goes on without it: no stage runs, but the final flush does.
StartWithoutLock ==
    /\ powered /\ at["close"] = "idle" /\ lock = "timer" /\ "busy" \in Outages
    /\ pushes < MaxPushes
    /\ drained' = [drained EXCEPT !["close"] = FALSE]
    /\ at' = [at EXCEPT !["close"] = "flush"]
    /\ Load("close")
    /\ verdict' = "none" /\ pushes' = pushes + 1
    /\ UNCHANGED <<boxVars, objects, diskVars, lock, unlisted, purgeVars, kills>>

\* The rows after the mark, oldest first, at most Batch of them.
NextBatch(p) ==
    {r \in store : /\ r > mark[p]
                   /\ Cardinality({q \in store : mark[p] < q /\ q <= r}) <= Batch}

Skips(p, here, there) ==
    /\ at[p] = here
    /\ at' = [at EXCEPT ![p] = there]
    /\ UNCHANGED <<boxVars, objects, diskVars, lock, mark, sha, count, sent, failed, drained,
                   closeVars, purgeVars, kills, pushes>>

NothingNew(p) == powered /\ NextBatch(p) = {} /\ Skips(p, "series", "mutable")

\* put_and_verify and, inside it, _confirm: the counter moves, and every FLUSH_EVERY
\* confirmations all ledgers are saved, before this object is in one.
Confirmed(p, s, object, flushes) ==
    /\ objects' = [objects EXCEPT ![s] = @ \cup {object}]
    /\ count' = [count EXCEPT ![p][s] = @ + 1]
    /\ IF flushes
         THEN /\ diskCount' = count'[p] /\ diskMark' = mark[p] /\ diskSha' = sha[p]
         ELSE UNCHANGED diskVars
    /\ UNCHANGED failed

Unconfirmed(p, s, object) ==
    /\ \/ "put" \in Outages /\ UNCHANGED objects
       \/ "get" \in Outages /\ objects' = [objects EXCEPT ![s] = @ \cup {object}]
    /\ failed' = [failed EXCEPT ![p] = TRUE]
    /\ UNCHANGED <<count, diskVars>>

Ship(p) ==
    /\ powered /\ at[p] = "series" /\ NextBatch(p) # {}
    /\ \/ \E flushes \in BOOLEAN : Confirmed(p, "series", NextBatch(p), flushes)
          /\ sent' = [sent EXCEPT ![p] = Max(NextBatch(p))]
          /\ at' = [at EXCEPT ![p] = "entered"]
       \/ Unconfirmed(p, "series", NextBatch(p))
          /\ at' = [at EXCEPT ![p] = "counters"]
          /\ UNCHANGED sent
    /\ UNCHANGED <<boxVars, lock, mark, sha, drained, closeVars, purgeVars, kills, pushes>>

\* Mutant: the mark is the newest row of the table, not the newest row shipped.
EnterNewest(p) ==
    /\ powered /\ at[p] = "entered"
    /\ mark' = [mark EXCEPT ![p] = clock] /\ sent' = [sent EXCEPT ![p] = -1]
    /\ at' = [at EXCEPT ![p] = "counters"]
    /\ UNCHANGED <<boxVars, objects, diskVars, lock, sha, count, failed, drained, closeVars,
                   purgeVars, kills, pushes>>

EnterMark(p) ==
    /\ powered /\ at[p] = "entered"
    /\ mark' = [mark EXCEPT ![p] = sent[p]] /\ sent' = [sent EXCEPT ![p] = -1]
    /\ at' = [at EXCEPT ![p] = "counters"]
    /\ UNCHANGED <<boxVars, objects, diskVars, lock, sha, count, failed, drained, closeVars,
                   purgeVars, kills, pushes>>

\* flush_all saves the files one by one, the counters first.
SavesCounters(p, here, there) ==
    /\ powered /\ at[p] = here
    /\ diskCount' = count[p]
    /\ at' = [at EXCEPT ![p] = there]
    /\ UNCHANGED <<boxVars, objects, diskMark, diskSha, lock, mark, sha, count, sent, failed,
                   drained, closeVars, purgeVars, kills, pushes>>

SavesLedgers(p, here, there) ==
    /\ powered /\ at[p] = here
    /\ diskMark' = mark[p] /\ diskSha' = sha[p]
    /\ at' = [at EXCEPT ![p] = there]
    /\ UNCHANGED <<boxVars, objects, diskCount, lock, mark, sha, count, sent, failed, drained,
                   closeVars, purgeVars, kills, pushes>>

StageFlush(p) == SavesCounters(p, "counters", "ledgers") \/ SavesLedgers(p, "ledgers", "mutable")

\* The rows that change are compared with the hash the ledger has of them.
Unchanged(p) == powered /\ sha[p] = version /\ Skips(p, "mutable", "flush")

ShipChanged(p) ==
    /\ powered /\ at[p] = "mutable" /\ sha[p] # version
    /\ \/ \E flushes \in BOOLEAN : Confirmed(p, "mutable", <<version, pushes>>, flushes)
          /\ sent' = [sent EXCEPT ![p] = version]
          /\ at' = [at EXCEPT ![p] = "entering"]
       \/ Unconfirmed(p, "mutable", <<version, pushes>>)
          /\ at' = [at EXCEPT ![p] = "flush"]
          /\ UNCHANGED sent
    /\ UNCHANGED <<boxVars, lock, mark, sha, drained, closeVars, purgeVars, kills, pushes>>

EnterSha(p) ==
    /\ powered /\ at[p] = "entering"
    /\ sha' = [sha EXCEPT ![p] = sent[p]] /\ sent' = [sent EXCEPT ![p] = -1]
    /\ at' = [at EXCEPT ![p] = "flush"]
    /\ UNCHANGED <<boxVars, objects, diskVars, lock, mark, count, failed, drained, closeVars,
                   purgeVars, kills, pushes>>

FinalFlush(p) == SavesCounters(p, "flush", "flushing")

\* The last save; the timer's process is over, and its lock and its ledgers go with it.
EndsRun(p) ==
    /\ powered /\ at[p] = "flushing"
    /\ diskMark' = mark[p] /\ diskSha' = sha[p]
    /\ IF p = "timer"
         THEN Exits(p) /\ lock' = None
              /\ at' = [at EXCEPT ![p] = "idle"] /\ failed' = [failed EXCEPT ![p] = FALSE]
         ELSE at' = [at EXCEPT ![p] = "verify"]
              /\ UNCHANGED <<lock, mark, sha, count, sent, failed, drained>>
    /\ UNCHANGED <<boxVars, objects, diskCount, closeVars, purgeVars, kills, pushes>>

(***************************************************************************)
(* The close: verify, heal, and halt or stay up.                           *)
(***************************************************************************)
\* Without the lock the counters are read again, for the holder's progress.
Expected == IF drained["close"] THEN count["close"] ELSE diskCount

\* Mutant: a counter is believed over S3, as before r180.
HealsNever(short) == FALSE

\* r180: on a run without a failed PUT a short counter is reset to what S3 holds, if it holds any.
Heals(short) == ~failed["close"] /\ \E s \in short : objects[s] # {}

Verify ==
    /\ powered /\ at["close"] = "verify"
    /\ LET short  == {s \in Streams : Cardinality(objects[s]) < Expected[s]}
           healed == IF Heals(short) THEN {s \in short : objects[s] # {}} ELSE {}
       IN /\ diskCount' = IF healed = {} THEN diskCount
                          ELSE [s \in Streams |-> IF s \in healed THEN Cardinality(objects[s])
                                                                  ELSE Expected[s]]
          /\ verdict' = IF short \subseteq healed /\ ~failed["close"] THEN "ok" ELSE "short"
    /\ at' = [at EXCEPT !["close"] = "closing"]
    /\ lock' = IF lock = "close" THEN None ELSE lock
    /\ Exits("close") /\ unlisted' = FALSE
    /\ UNCHANGED <<boxVars, objects, diskMark, diskSha, failed, purgeVars, kills, pushes>>

\* A prefix that could not be listed is short; a small gap of another one, which could not be
\* listed again to heal it, reads as drift and lets the close go on (r147).
Drifts == \E s \in Streams : Expected[s] - Cardinality(objects[s]) \in 1..2

ListRaises ==
    /\ powered /\ at["close"] = "verify" /\ "list" \in Outages
    /\ verdict' \in {"short"} \cup {v \in {"ok"} : Drifts /\ ~failed["close"]}
    /\ Exits("close") /\ unlisted' = TRUE
    /\ at' = [at EXCEPT !["close"] = "closing"]
    /\ lock' = IF lock = "close" THEN None ELSE lock
    /\ UNCHANGED <<boxVars, objects, diskVars, failed, purgeVars, kills, pushes>>

\* SHORT: the box stays up with its feed; the midnight halt will take it down.
StaysUp ==
    /\ powered /\ at["close"] = "closing" /\ verdict # "ok"
    /\ at' = [at EXCEPT !["close"] = "idle"]
    /\ UNCHANGED <<boxVars, objects, diskVars, lock, mark, sha, count, sent, failed, drained,
                   closeVars, purgeVars, kills, pushes>>

\* OK: the feed is stopped, if it can be, and the trim is next.
ReleasesStores ==
    /\ powered /\ at["close"] = "closing" /\ verdict = "ok"
    /\ feed' \in {FALSE, feed}
    /\ at' = [at EXCEPT !["close"] = "trimming"]
    /\ UNCHANGED <<clock, store, version, powered, objects, diskVars, lock, mark, sha, count, sent,
                   failed, drained, closeVars, purgeVars, kills, pushes>>

(***************************************************************************)
(* The purge, one at a time by its own lock: in the nightly timer and in   *)
(* the close once verified.                                                *)
(***************************************************************************)
AgeCutoff == clock - Keep

\* _safe_cutoff, on a box that can push.
SafeCutoff == IF diskMark # Absent /\ diskMark < AgeCutoff THEN diskMark ELSE AgeCutoff

PurgeStarts ==
    /\ powered /\ cutoff = Absent /\ AgeCutoff > 0
    /\ cutoff' = SafeCutoff /\ marked' = (diskMark # Absent)
    /\ UNCHANGED <<boxVars, objects, diskVars, lock, runVars, closeVars, purged, kills, pushes>>

\* A committed chunk of the DELETE.
PurgeDeletes ==
    /\ powered /\ cutoff # Absent
    /\ \E r \in store :
         /\ r < cutoff
         /\ store' = store \ {r}
         /\ purged' = IF marked THEN purged \cup {r} ELSE purged
    /\ UNCHANGED <<clock, version, feed, powered, objects, diskVars, lock, runVars, closeVars,
                   cutoff, marked, kills, pushes>>

\* Drained, out of budget, or failed: what was committed stays deleted.
PurgeEnds ==
    /\ powered /\ cutoff # Absent
    /\ cutoff' = Absent /\ marked' = FALSE
    /\ UNCHANGED <<boxVars, objects, diskVars, lock, runVars, closeVars, purged, kills, pushes>>

(***************************************************************************)
(* Kills, halts and wakes.                                                 *)
(***************************************************************************)
\* TimeoutStartSec, or the close's verifier timing out: its lock goes with the process.
Kill(p) ==
    /\ powered /\ at[p] \notin {"idle", "closing", "trimming"} /\ kills < MaxKills
    /\ kills' = kills + 1
    /\ at' = [at EXCEPT ![p] = IF p = "close" THEN "closing" ELSE "idle"]
    /\ verdict' = IF p = "close" THEN "short" ELSE verdict
    /\ failed' = [failed EXCEPT ![p] = (p = "close")]
    /\ lock' = IF lock = p THEN None ELSE lock
    /\ Exits(p)
    /\ UNCHANGED <<boxVars, objects, diskVars, unlisted, purgeVars, pushes>>

PowersOff ==
    /\ powered' = FALSE /\ feed' = FALSE
    /\ at' = [p \in Pushers |-> "idle"] /\ lock' = None
    /\ cutoff' = Absent
    /\ mark' = [p \in Pushers |-> Absent] /\ sha' = [p \in Pushers |-> -1]
    /\ count' = [p \in Pushers |-> [s \in Streams |-> 0]] /\ sent' = [p \in Pushers |-> -1]
    /\ drained' = [p \in Pushers |-> FALSE] /\ marked' = FALSE
    /\ UNCHANGED <<clock, store, version, objects, diskVars, failed, closeVars, purged, pushes>>

\* The close has trimmed what it could (or another purge held the lock) and shuts the box down.
Halt ==
    /\ powered /\ at["close"] = "trimming"
    /\ PowersOff /\ UNCHANGED kills

\* The backstop at midnight, with no drain.
MidnightHalt ==
    /\ powered /\ kills < MaxKills /\ kills' = kills + 1
    /\ PowersOff

Wake ==
    /\ ~powered /\ powered' = TRUE /\ feed' = TRUE
    /\ UNCHANGED <<clock, store, version, objects, diskVars, lock, runVars, closeVars, purgeVars,
                   kills, pushes>>

(***************************************************************************)
(* The specification.                                                      *)
(***************************************************************************)
Push(p) ==
    \/ Start(p) \/ NothingNew(p) \/ Ship(p) \/ EnterMark(p) \/ StageFlush(p)
    \/ Unchanged(p) \/ ShipChanged(p) \/ EnterSha(p) \/ FinalFlush(p) \/ EndsRun(p)

Close == StartWithoutLock \/ Verify \/ ListRaises \/ StaysUp \/ ReleasesStores \/ Halt

Purge == PurgeStarts \/ PurgeDeletes \/ PurgeEnds

WarehouseNext ==
    \/ FeedWrites \/ RowChanges
    \/ \E p \in Pushers : Push(p) \/ Kill(p)
    \/ Close \/ Purge \/ MidnightHalt \/ Wake

WarehouseSpec == WarehouseInit /\ [][WarehouseNext]_whVars

(***************************************************************************)
(* Properties.                                                             *)
(***************************************************************************)
\* What a mark says was shipped.
Covers(m) == \A r \in store : r <= m => r \in Shipped

\* Whatever is killed, re-sent, overwritten by a verify without the lock or halted half way: a row
\* the purge deleted while a mark existed is in S3 (retention_purge.py:239, the clamp), because no
\* ledger, on disk or in a process, runs ahead of S3 (the docstring of save_ledger: it must not
\* claim more than actually landed).
ShippedBeforePurged ==
    /\ purged \subseteq Shipped
    /\ Covers(diskMark) /\ diskSha \in ShippedStates
    /\ \A p \in Pushers : Covers(mark[p]) /\ sha[p] \in ShippedStates

\* A box stays up for a reason: a PUT of the close's own run was not confirmed, it was killed, or
\* S3 could not be listed; never for a counter that counted an object twice (r180).
HeldForAReason == verdict = "short" => failed["close"] \/ unlisted

\* Progress on disk is lost only to a verify that gave up waiting for the lock, whose final flush
\* writes the ledgers as they were when it started over the holder's (s3_push.py:1329).
OnlyStaleVerifyRewinds ==
    [][diskMark' < diskMark => at["close"] = "flushing" /\ ~drained["close"]]_whVars
=============================================================================
