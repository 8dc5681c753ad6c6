-------------------------- MODULE WarehouseProofs --------------------------
(***************************************************************************)
(* What the archive guarantees for every number of rows, changes, runs,    *)
(* kills and outages, every batch and every retention window: its types;   *)
(* no ledger ahead of S3, so that nothing is purged that was not shipped;  *)
(* no box held up by a counter; no ledger rewound but by a verify that has *)
(* no lock.                                                                *)
(***************************************************************************)
EXTENDS Warehouse, FiniteSetTheorems, WellFoundedInduction, TLAPS

USE RowAssumption, BatchAssumption, WarehouseBounds

(***************************************************************************)
(* The batch.                                                              *)
(***************************************************************************)
\* A finite set of rows has a newest one: of the sets of what is newer than one of them, a least.
LEMMA NewestExists ==
  ASSUME NEW S \in SUBSET Rows, S # {}
  PROVE  Max(S) \in S /\ \A r \in S : Max(S) >= r
<1> DEFINE Newer(r) == {q \in S : q > r}
           T == {Newer(r) : r \in S}
<1>1. IsFiniteSet(Rows)
  BY FS_Interval DEF Rows
<1>2. T \subseteq FiniteSubsetsOf(Rows)
  BY <1>1, FS_Subset DEF FiniteSubsetsOf
<1>3. IsWellFoundedOn(StrictSubsetOrdering(Rows), FiniteSubsetsOf(Rows))
  BY FS_StrictSubsetOrderingWellFounded
<1>4. PICK U \in T : \A V \in T : <<V, U>> \notin StrictSubsetOrdering(Rows)
  <2>1. PICK r \in S : TRUE
    OBVIOUS
  <2>2. Newer(r) \in T
    BY <2>1
  <2>3. T # {}
    BY <2>2
  <2> HIDE DEF T
  <2> QED  BY <1>2, <1>3, <2>3, WFMin
<1>5. PICK r \in S : U = Newer(r)
  BY <1>4
<1>6. Newer(r) = {}
  <2> SUFFICES ASSUME NEW q \in Newer(r) PROVE FALSE
    OBVIOUS
  <2>1. q \in S /\ q > r /\ q \in Int /\ r \in Int /\ \A x \in S : x \in Int
    BY DEF Rows
  <2>2. Newer(q) \subseteq Newer(r) /\ q \notin Newer(q)
    <3>1. ASSUME NEW x \in S, x > q PROVE x > r
      BY <2>1, <3>1
    <3>2. ~(q > q)
      BY <2>1
    <3> QED  BY <3>1, <3>2
  <2>3. <<Newer(q), Newer(r)>> \in StrictSubsetOrdering(Rows)
    BY <2>1, <2>2 DEF StrictSubsetOrdering
  <2>4. Newer(q) \in T
    BY <2>1
  <2> QED  BY <1>4, <1>5, <2>3, <2>4
<1>7. \A q \in S : r >= q
  BY <1>6 DEF Rows
<1> QED  BY <1>7 DEF Max

\* A batch is of rows after the mark, and leaves out none of the table before its newest.
LEMMA BatchLaw ==
  ASSUME NEW p \in Pushers, store \in SUBSET Rows, mark[p] \in Int, NextBatch(p) # {}
  PROVE  /\ NextBatch(p) \in SUBSET Rows
         /\ Max(NextBatch(p)) \in store /\ Max(NextBatch(p)) > mark[p]
         /\ \A r \in store : r <= Max(NextBatch(p)) => r <= mark[p] \/ r \in NextBatch(p)
<1>1. NextBatch(p) \in SUBSET Rows
  BY DEF NextBatch
<1>2. Max(NextBatch(p)) \in NextBatch(p)
  BY <1>1, NewestExists
<1>3. Max(NextBatch(p)) \in store /\ Max(NextBatch(p)) > mark[p]
  BY <1>2 DEF NextBatch
<1>4. ASSUME NEW r \in store, r <= Max(NextBatch(p)), ~(r <= mark[p])
      PROVE  r \in NextBatch(p)
  <2>0. Max(NextBatch(p)) \in Int /\ \A q \in Rows : q \in Int
    <3>1. \A q \in Rows : q \in Int
      BY DEF Rows
    <3> QED  BY <1>3, <3>1
  <2> DEFINE m == Max(NextBatch(p))
             A == {q \in store : mark[p] < q /\ q <= r}
             B == {q \in store : mark[p] < q /\ q <= m}
  <2>1. IsFiniteSet(store)
    <3>1. IsFiniteSet(Rows)
      BY FS_Interval DEF Rows
    <3> QED  BY <3>1, FS_Subset
  <2>2. r \in Int /\ m \in Int /\ \A q \in store : q \in Int
    BY <2>0
  <2>3. A \subseteq B /\ B \subseteq store
    <3>1. r <= m
      BY <1>4
    <3>2. \A q \in store : q <= r => q <= m
      <4> HIDE DEF m
      <4> QED  BY <2>2, <3>1
    <3> HIDE DEF m
    <3> QED  BY <3>2
  <2>4. IsFiniteSet(B) /\ Cardinality(B) <= Batch
    <3>1. Cardinality(B) <= Batch
      <4>1. m \in {s \in store : /\ s > mark[p]
                                /\ Cardinality({q \in store : mark[p] < q /\ q <= s}) <= Batch}
        BY <1>2 DEF NextBatch
      <4> HIDE DEF m
      <4> QED  BY <4>1
    <3>2. B \in SUBSET store
      OBVIOUS
    <3> HIDE DEF B
    <3> QED  BY <3>1, <3>2, <2>1, FS_Subset
  <2>5. Cardinality(A) <= Cardinality(B) /\ Cardinality(A) \in Nat /\ Cardinality(B) \in Nat
    <3> HIDE DEF A, B
    <3>1. A \in SUBSET B
      BY <2>3
    <3> QED  BY <2>4, <3>1, FS_Subset, FS_CardinalityType
  <2>6. Cardinality(A) <= Batch
    <3> HIDE DEF A, B
    <3> QED  BY <2>4, <2>5, BatchAssumption
  <2> QED  BY <1>4, <2>2, <2>6 DEF NextBatch
<1> QED  BY <1>1, <1>3, <1>4
(***************************************************************************)
(* The inductive invariant.                                                *)
(***************************************************************************)
\* What a run carries between two of its steps.
Carried ==
    \A p \in Pushers :
        /\ at[p] = "entered" => sent[p] \in Rows
        /\ at[p] = "entering" => sent[p] \in 0..MaxVersion
        /\ at[p] # "idle" => pushes > 0

WarehouseTypes ==
    /\ WarehouseTypeOK
    /\ objects = [s \in Streams |-> objects[s]]
    /\ Carried

\* A mark that does not run ahead of the feed or of S3.
Trusted(m) == m <= clock /\ Covers(m)

\* Every place a mark is kept, and every place the mutable row's state is.
Landed ==
    /\ \A r \in store : r <= clock
    /\ Trusted(diskMark) /\ diskSha \in ShippedStates
    /\ \A p \in Pushers :
          /\ Trusted(mark[p]) /\ sha[p] \in ShippedStates
          /\ at[p] = "entered" => Trusted(sent[p])
          /\ at[p] = "entering" => sent[p] \in ShippedStates
    /\ marked => Trusted(cutoff)
    /\ purged \subseteq Shipped

\* Nothing was counted that S3 does not hold something of.
Counted ==
    /\ HeldForAReason
    /\ \A s \in Streams :
          /\ diskCount[s] > 0 => objects[s] # {}
          /\ \A p \in Pushers : count[p][s] > 0 => objects[s] # {}

\* Who has the lock runs, and its mark is no older than the disk's; a close without it has only
\* the final flush and the verify ahead, with a mark that is no newer.
CloseRuns == at["close"] \notin {"idle", "closing", "trimming"}

LockRules ==
    /\ lock = "timer" <=> at["timer"] # "idle"
    /\ lock = "close" <=> drained["close"] /\ CloseRuns
    /\ \A p \in Pushers : lock = p => mark[p] >= diskMark
    /\ \A p \in Pushers : at[p] = "entered" => sent[p] >= mark[p]
    /\ CloseRuns /\ ~drained["close"] => at["close"] \in {"flush", "flushing", "verify"}
    /\ at["close"] \in {"flush", "flushing"} /\ ~drained["close"] => mark["close"] <= diskMark

WarehouseInv == WarehouseTypes /\ Landed /\ Counted /\ LockRules

(***************************************************************************)
(* The types.                                                              *)
(***************************************************************************)
LEMMA TypesInit == WarehouseInit => WarehouseTypes
<1> SUFFICES ASSUME WarehouseInit PROVE WarehouseTypes
  OBVIOUS
<1>1. objects = [s \in Streams |-> objects[s]] /\ objects["series"] = {} /\ objects["mutable"] = {}
  BY DEF WarehouseInit, Streams
<1>2. BoxTypes
  BY DEF WarehouseInit, BoxTypes
<1>3. ArchiveTypes
  <2>1. diskMark \in Rows \cup {Absent} /\ diskSha \in -1..MaxVersion /\ diskCount \in [Streams -> Nat]
    BY DEF WarehouseInit
  <2> QED  BY <1>1, <2>1 DEF ArchiveTypes
<1>4. RunTypes
  BY DEF WarehouseInit, RunTypes, Stops
<1>5. NightTypes
  <2>1. cutoff \in Int
    BY DEF WarehouseInit, Absent
  <2>2. unlisted \in BOOLEAN /\ marked \in BOOLEAN /\ verdict = "none" /\ purged \subseteq Rows
    BY Zenon DEF WarehouseInit
  <2> QED  BY <2>1, <2>2 DEF NightTypes
<1>6. Carried
  BY DEF WarehouseInit, Carried
<1> QED  BY <1>1, <1>2, <1>3, <1>4, <1>5, <1>6 DEF WarehouseTypes, WarehouseTypeOK

\* An object more, of its own stream's kind, leaves the archive typed.
LEMMA ObjectTypes ==
  ASSUME WarehouseTypes, NEW s \in Streams, NEW object,
         s = "series" => object \in SUBSET Rows,
         s = "mutable" => object \in (0..MaxVersion) \X (1..MaxPushes),
         objects' = [objects EXCEPT ![s] = @ \cup {object}]
  PROVE  /\ objects' = [t \in Streams |-> objects'[t]]
         /\ objects'["series"] \subseteq SUBSET Rows
         /\ objects'["mutable"] \subseteq (0..MaxVersion) \X (1..MaxPushes)
<1>1. objects' = [t \in Streams |-> IF t = s THEN objects[t] \cup {object} ELSE objects[t]]
  BY DEF WarehouseTypes
<1>2. /\ objects'["series"] = IF s = "series" THEN objects["series"] \cup {object} ELSE objects["series"]
      /\ objects'["mutable"] = IF s = "mutable" THEN objects["mutable"] \cup {object}
                                                ELSE objects["mutable"]
  BY <1>1 DEF Streams
<1>3. objects["series"] \subseteq SUBSET Rows /\ objects["mutable"] \subseteq (0..MaxVersion) \X (1..MaxPushes)
  BY DEF WarehouseTypes, WarehouseTypeOK, ArchiveTypes
<1>4. objects' = [t \in Streams |-> objects'[t]]
  BY <1>1
<1>5. objects'["series"] \subseteq SUBSET Rows
  BY <1>2, <1>3
<1>6. objects'["mutable"] \subseteq (0..MaxVersion) \X (1..MaxPushes)
  BY <1>2, <1>3
<1> QED  BY <1>4, <1>5, <1>6

LEMMA ConfirmedTypes ==
  ASSUME WarehouseTypes, NEW p \in Pushers, NEW s \in Streams, NEW object, NEW flushes \in BOOLEAN,
         s = "series" => object \in SUBSET Rows,
         s = "mutable" => object \in (0..MaxVersion) \X (1..MaxPushes),
         Confirmed(p, s, object, flushes) \/ Unconfirmed(p, s, object)
  PROVE  /\ ArchiveTypes' /\ objects' = [t \in Streams |-> objects'[t]]
         /\ count' \in [Pushers -> [Streams -> Nat]] /\ failed' \in [Pushers -> BOOLEAN]
<1>1. /\ objects' = [t \in Streams |-> objects'[t]]
      /\ objects'["series"] \subseteq SUBSET Rows
      /\ objects'["mutable"] \subseteq (0..MaxVersion) \X (1..MaxPushes)
  <2>1. UNCHANGED objects \/ objects' = [objects EXCEPT ![s] = @ \cup {object}]
    BY DEF Confirmed, Unconfirmed
  <2>2. CASE UNCHANGED objects
    BY <2>2 DEF WarehouseTypes, WarehouseTypeOK, ArchiveTypes
  <2> QED  BY <2>1, <2>2, ObjectTypes
<1>2. count' \in [Pushers -> [Streams -> Nat]] /\ failed' \in [Pushers -> BOOLEAN]
  <2>1. count \in [Pushers -> [Streams -> Nat]] /\ failed \in [Pushers -> BOOLEAN]
    BY DEF WarehouseTypes, WarehouseTypeOK, RunTypes
  <2>2. CASE Confirmed(p, s, object, flushes)
    <3>1. count' = [count EXCEPT ![p][s] = @ + 1] /\ UNCHANGED failed
      BY <2>2 DEF Confirmed
    <3> QED  BY <2>1, <3>1
  <2>3. CASE Unconfirmed(p, s, object)
    <3>1. failed' = [failed EXCEPT ![p] = TRUE] /\ UNCHANGED count
      BY <2>3 DEF Unconfirmed
    <3> QED  BY <2>1, <3>1
  <2> QED  BY <2>2, <2>3
<1>3. /\ diskMark' \in Rows \cup {Absent} /\ diskSha' \in -1..MaxVersion
      /\ diskCount' \in [Streams -> Nat]
  <2>1. diskMark \in Rows \cup {Absent} /\ diskSha \in -1..MaxVersion /\ diskCount \in [Streams -> Nat]
    BY DEF WarehouseTypes, WarehouseTypeOK, ArchiveTypes
  <2>2. mark[p] \in Rows \cup {Absent} /\ sha[p] \in -1..MaxVersion
    BY DEF WarehouseTypes, WarehouseTypeOK, RunTypes
  <2>3. \/ UNCHANGED diskVars
        \/ diskCount' = count'[p] /\ diskMark' = mark[p] /\ diskSha' = sha[p]
    BY DEF Confirmed, Unconfirmed
  <2> QED  BY <1>2, <2>1, <2>2, <2>3 DEF diskVars
<1> QED  BY <1>1, <1>2, <1>3 DEF ArchiveTypes

LEMMA ExitsTypes ==
  ASSUME WarehouseTypes, NEW p \in Pushers, Exits(p)
  PROVE  /\ mark' \in [Pushers -> Rows \cup {Absent}] /\ sha' \in [Pushers -> -1..MaxVersion]
         /\ count' \in [Pushers -> [Streams -> Nat]] /\ sent' \in [Pushers -> -1..(MaxRow + MaxVersion)]
         /\ drained' \in [Pushers -> BOOLEAN]
<1>1. /\ mark \in [Pushers -> Rows \cup {Absent}] /\ sha \in [Pushers -> -1..MaxVersion]
      /\ count \in [Pushers -> [Streams -> Nat]] /\ sent \in [Pushers -> -1..(MaxRow + MaxVersion)]
      /\ drained \in [Pushers -> BOOLEAN]
  BY DEF WarehouseTypes, WarehouseTypeOK, RunTypes
<1>2. mark' \in [Pushers -> Rows \cup {Absent}] /\ sha' \in [Pushers -> -1..MaxVersion]
  BY <1>1 DEF Exits
<1>3. count' \in [Pushers -> [Streams -> Nat]]
  BY <1>1 DEF Exits
<1>4. sent' \in [Pushers -> -1..(MaxRow + MaxVersion)]
  BY <1>1 DEF Exits
<1>5. drained' \in [Pushers -> BOOLEAN]
  BY <1>1 DEF Exits
<1> QED  BY <1>2, <1>3, <1>4, <1>5

LEMMA LoadTypes ==
  ASSUME WarehouseTypes, NEW p \in Pushers, Load(p)
  PROVE  /\ mark' \in [Pushers -> Rows \cup {Absent}] /\ sha' \in [Pushers -> -1..MaxVersion]
         /\ count' \in [Pushers -> [Streams -> Nat]] /\ sent' \in [Pushers -> -1..(MaxRow + MaxVersion)]
         /\ failed' \in [Pushers -> BOOLEAN]
<1>1. /\ mark \in [Pushers -> Rows \cup {Absent}] /\ sha \in [Pushers -> -1..MaxVersion]
      /\ count \in [Pushers -> [Streams -> Nat]] /\ sent \in [Pushers -> -1..(MaxRow + MaxVersion)]
      /\ failed \in [Pushers -> BOOLEAN]
      /\ diskMark \in Rows \cup {Absent} /\ diskSha \in -1..MaxVersion /\ diskCount \in [Streams -> Nat]
  BY DEF WarehouseTypes, WarehouseTypeOK, RunTypes, ArchiveTypes
<1>2. mark' \in [Pushers -> Rows \cup {Absent}] /\ sha' \in [Pushers -> -1..MaxVersion]
  BY <1>1 DEF Load
<1>3. count' \in [Pushers -> [Streams -> Nat]]
  BY <1>1 DEF Load
<1>4. sent' \in [Pushers -> -1..(MaxRow + MaxVersion)]
  BY <1>1 DEF Load
<1>5. failed' \in [Pushers -> BOOLEAN]
  BY <1>1 DEF Load
<1> QED  BY <1>2, <1>3, <1>4, <1>5

\* A step of a run that ships nothing keeps the types.
LEMMA RunStepTypes ==
  ASSUME WarehouseTypes, NEW p \in Pushers,
         \/ Start(p) \/ NothingNew(p) \/ EnterMark(p) \/ StageFlush(p) \/ Unchanged(p)
         \/ EnterSha(p) \/ FinalFlush(p) \/ EndsRun(p) \/ Kill(p)
  PROVE  WarehouseTypes'
<1> USE DEF Start, NothingNew, EnterMark, StageFlush, Unchanged, EnterSha, FinalFlush, EndsRun, Kill,
            Skips, SavesCounters, SavesLedgers, Load, Exits
<1>1. BoxTypes'
  BY DEF WarehouseTypes, WarehouseTypeOK, BoxTypes, boxVars
<1>2. ArchiveTypes' /\ UNCHANGED objects
  <2>1. /\ diskMark \in Rows \cup {Absent} /\ diskSha \in -1..MaxVersion /\ diskCount \in [Streams -> Nat]
        /\ mark[p] \in Rows \cup {Absent} /\ sha[p] \in -1..MaxVersion /\ count[p] \in [Streams -> Nat]
    BY DEF WarehouseTypes, WarehouseTypeOK, ArchiveTypes, RunTypes
  <2>2. /\ UNCHANGED objects
        /\ diskMark' \in {diskMark, mark[p]} /\ diskSha' \in {diskSha, sha[p]}
        /\ diskCount' \in {diskCount, count[p]}
    BY DEF diskVars
  <2> QED  BY <2>1, <2>2 DEF WarehouseTypes, WarehouseTypeOK, ArchiveTypes
<1>3. RunTypes'
  <2>1. CASE Start(p)
    BY <2>1 DEF WarehouseTypes, WarehouseTypeOK, RunTypes, ArchiveTypes, Stops
  <2>6. CASE StageFlush(p) \/ FinalFlush(p) \/ NothingNew(p) \/ Unchanged(p)
    <3>1. /\ UNCHANGED <<lock, mark, sha, count, sent, failed, drained>>
          /\ \E stop \in Stops : at' = [at EXCEPT ![p] = stop]
      BY <2>6 DEF Stops
    <3> QED  BY <3>1 DEF WarehouseTypes, WarehouseTypeOK, RunTypes
  <2>2. CASE EnterMark(p)
    BY <2>2 DEF WarehouseTypes, WarehouseTypeOK, RunTypes, Stops, Carried
  <2>3. CASE EnterSha(p)
    BY <2>3 DEF WarehouseTypes, WarehouseTypeOK, RunTypes, Stops, Carried
  <2>4. CASE EndsRun(p)
    <3>1. CASE p = "timer"
      <4>1. /\ Exits(p) /\ lock' = None
            /\ at' = [at EXCEPT ![p] = "idle"] /\ failed' = [failed EXCEPT ![p] = FALSE]
        BY <2>4, <3>1
      <4> HIDE DEF Exits
      <4> QED  BY <4>1, ExitsTypes DEF WarehouseTypes, WarehouseTypeOK, RunTypes, Stops
    <3>2. CASE p # "timer"
      <4>1. at' = [at EXCEPT ![p] = "verify"] /\ UNCHANGED <<lock, mark, sha, count, sent, failed, drained>>
        BY <2>4, <3>2
      <4> QED  BY <4>1 DEF WarehouseTypes, WarehouseTypeOK, RunTypes, Stops
    <3> QED  BY <3>1, <3>2
  <2>5. CASE Kill(p)
    BY <2>5 DEF WarehouseTypes, WarehouseTypeOK, RunTypes, Stops
  <2> QED  BY <2>1, <2>2, <2>3, <2>4, <2>5, <2>6
<1>4. NightTypes'
  BY DEF WarehouseTypes, WarehouseTypeOK, NightTypes, purgeVars, closeVars
<1>5. Carried'
  BY DEF WarehouseTypes, WarehouseTypeOK, RunTypes, BoxTypes, Carried
<1>6. objects' = [s \in Streams |-> objects'[s]]
  BY <1>2 DEF WarehouseTypes
<1> QED  BY <1>1, <1>2, <1>3, <1>4, <1>5, <1>6 DEF WarehouseTypes, WarehouseTypeOK

LEMMA ShipTypes ==
  ASSUME WarehouseTypes, NEW p \in Pushers, Ship(p) \/ ShipChanged(p)
  PROVE  WarehouseTypes'
<1>1. BoxTypes' /\ NightTypes'
  BY DEF Ship, ShipChanged, WarehouseTypes, WarehouseTypeOK, BoxTypes, NightTypes, boxVars, purgeVars,
         closeVars
<1>2. CASE Ship(p)
  <2>1. NextBatch(p) \in SUBSET Rows /\ Max(NextBatch(p)) \in Rows
    <3>1. mark[p] \in Rows \cup {Absent} /\ store \in SUBSET Rows /\ NextBatch(p) # {}
      BY <1>2 DEF Ship, WarehouseTypes, WarehouseTypeOK, RunTypes, BoxTypes
    <3>2. mark[p] \in Int
      BY <3>1 DEF Rows, Absent
    <3> QED  BY <3>1, <3>2, BatchLaw
  <2>2. Max(NextBatch(p)) \in -1..(MaxRow + MaxVersion)
    BY <2>1 DEF Rows
  <2>3. PICK flushes \in BOOLEAN :
             Confirmed(p, "series", NextBatch(p), flushes) \/ Unconfirmed(p, "series", NextBatch(p))
    BY <1>2 DEF Ship
  <2>4. /\ ArchiveTypes' /\ objects' = [t \in Streams |-> objects'[t]]
        /\ count' \in [Pushers -> [Streams -> Nat]] /\ failed' \in [Pushers -> BOOLEAN]
    BY <2>1, <2>3, ConfirmedTypes DEF Streams
  <2>5. /\ \/ sent' = [sent EXCEPT ![p] = Max(NextBatch(p))] /\ at' = [at EXCEPT ![p] = "entered"]
           \/ UNCHANGED sent /\ at' = [at EXCEPT ![p] = "counters"]
        /\ UNCHANGED <<lock, mark, sha, drained, pushes>> /\ at[p] = "series"
    BY <1>2 DEF Ship
  <2>6. RunTypes'
    BY <2>2, <2>4, <2>5 DEF WarehouseTypes, WarehouseTypeOK, RunTypes, Stops
  <2>7. Carried'
    BY <2>1, <2>5 DEF WarehouseTypes, WarehouseTypeOK, RunTypes, Carried
  <2> QED  BY <1>1, <2>4, <2>6, <2>7 DEF WarehouseTypes, WarehouseTypeOK
<1>3. CASE ShipChanged(p)
  <2>1. version \in 0..MaxVersion /\ pushes \in 1..MaxPushes /\ version \in -1..(MaxRow + MaxVersion)
    <3>1. version \in 0..MaxVersion /\ pushes \in 0..MaxPushes /\ pushes > 0
      BY <1>3 DEF ShipChanged, WarehouseTypes, WarehouseTypeOK, BoxTypes, Carried
    <3> QED  BY <3>1
  <2>3. PICK flushes \in BOOLEAN : \/ Confirmed(p, "mutable", <<version, pushes>>, flushes)
                                   \/ Unconfirmed(p, "mutable", <<version, pushes>>)
    BY <1>3 DEF ShipChanged
  <2>4. /\ ArchiveTypes' /\ objects' = [t \in Streams |-> objects'[t]]
        /\ count' \in [Pushers -> [Streams -> Nat]] /\ failed' \in [Pushers -> BOOLEAN]
    <3>1. <<version, pushes>> \in (0..MaxVersion) \X (1..MaxPushes)
      BY <2>1
    <3> QED  BY <2>3, <3>1, ConfirmedTypes DEF Streams
  <2>5. /\ \/ sent' = [sent EXCEPT ![p] = version] /\ at' = [at EXCEPT ![p] = "entering"]
           \/ UNCHANGED sent /\ at' = [at EXCEPT ![p] = "flush"]
        /\ UNCHANGED <<lock, mark, sha, drained, pushes>> /\ at[p] = "mutable"
    BY <1>3 DEF ShipChanged
  <2>6. RunTypes'
    BY <2>1, <2>4, <2>5 DEF WarehouseTypes, WarehouseTypeOK, RunTypes, Stops
  <2>7. Carried'
    BY <2>1, <2>5 DEF WarehouseTypes, WarehouseTypeOK, RunTypes, Carried
  <2> QED  BY <1>1, <2>4, <2>6, <2>7 DEF WarehouseTypes, WarehouseTypeOK
<1> QED  BY <1>2, <1>3

\* S3 holds finitely many objects.
LEMMA ArchiveIsFinite ==
  ASSUME ArchiveTypes
  PROVE  \A s \in Streams : IsFiniteSet(objects[s]) /\ Cardinality(objects[s]) \in Nat
<1>1. IsFiniteSet(SUBSET Rows)
  <2>1. IsFiniteSet(Rows)
    BY FS_Interval DEF Rows
  <2> QED  BY <2>1, FS_SUBSET
<1>2. IsFiniteSet((0..MaxVersion) \X (1..MaxPushes))
  <2>1. IsFiniteSet(0..MaxVersion) /\ IsFiniteSet(1..MaxPushes)
    BY FS_Interval
  <2> QED  BY <2>1, FS_Product
<1>3. IsFiniteSet(objects["series"]) /\ IsFiniteSet(objects["mutable"])
  BY <1>1, <1>2, FS_Subset DEF ArchiveTypes
<1> QED  BY <1>3, FS_CardinalityType DEF Streams

LEMMA CloseTypes ==
  ASSUME WarehouseTypes,
         StartWithoutLock \/ Verify \/ ListRaises \/ StaysUp \/ ReleasesStores
  PROVE  WarehouseTypes'
<1>1. BoxTypes'
  <2>1. UNCHANGED <<clock, store, version, powered, kills>>
    BY DEF StartWithoutLock, Verify, ListRaises, StaysUp, ReleasesStores, Skips, boxVars
  <2>2. feed' \in BOOLEAN
    <3>1. feed' \in {FALSE, feed} /\ feed \in BOOLEAN
      BY DEF StartWithoutLock, Verify, ListRaises, StaysUp, ReleasesStores, boxVars,
             WarehouseTypes, WarehouseTypeOK, BoxTypes
    <3> QED  BY <3>1
  <2>3. pushes' \in 0..MaxPushes
    <3>1. pushes \in 0..MaxPushes
      BY DEF WarehouseTypes, WarehouseTypeOK, BoxTypes
    <3>2. UNCHANGED pushes \/ (pushes < MaxPushes /\ pushes' = pushes + 1)
      BY DEF StartWithoutLock, Verify, ListRaises, StaysUp, ReleasesStores
    <3> QED  BY <3>1, <3>2
  <2> QED  BY <2>1, <2>2, <2>3 DEF WarehouseTypes, WarehouseTypeOK, BoxTypes
<1>2. UNCHANGED objects
  BY DEF StartWithoutLock, Verify, ListRaises, StaysUp, ReleasesStores, Skips
<1>3. ArchiveTypes'
  <2>1. CASE Verify
    <3>1. Expected \in [Streams -> Nat]
      BY DEF Expected, WarehouseTypes, WarehouseTypeOK, ArchiveTypes, RunTypes, Pushers
    <3>2. \A s \in Streams : Cardinality(objects[s]) \in Nat
      BY ArchiveIsFinite DEF WarehouseTypes, WarehouseTypeOK
    <3>3. diskCount' \in [Streams -> Nat] /\ UNCHANGED <<diskMark, diskSha>>
      BY <2>1, <3>1, <3>2 DEF Verify, WarehouseTypes, WarehouseTypeOK, ArchiveTypes
    <3> QED  BY <1>2, <3>3 DEF WarehouseTypes, WarehouseTypeOK, ArchiveTypes
  <2>2. CASE UNCHANGED diskVars
    BY <1>2, <2>2 DEF WarehouseTypes, WarehouseTypeOK, ArchiveTypes, diskVars
  <2> QED  BY <2>1, <2>2 DEF StartWithoutLock, ListRaises, StaysUp, ReleasesStores
<1>4. RunTypes'
  <2>1. CASE StartWithoutLock
    <3>1. Load("close") /\ drained' = [drained EXCEPT !["close"] = FALSE]
          /\ at' = [at EXCEPT !["close"] = "flush"] /\ UNCHANGED lock
      BY <2>1 DEF StartWithoutLock
    <3> QED  BY <3>1, LoadTypes DEF WarehouseTypes, WarehouseTypeOK, RunTypes, Stops, Pushers
  <2>2. CASE Verify \/ ListRaises
    <3>1. Exits("close") /\ UNCHANGED failed /\ at' = [at EXCEPT !["close"] = "closing"]
          /\ lock' \in {lock, None}
      BY <2>2 DEF Verify, ListRaises
    <3> QED  BY <3>1, ExitsTypes DEF WarehouseTypes, WarehouseTypeOK, RunTypes, Stops, Pushers
  <2>3. CASE StaysUp \/ ReleasesStores
    <3>1. /\ UNCHANGED <<lock, mark, sha, count, sent, failed, drained>>
          /\ \E stop \in Stops : at' = [at EXCEPT !["close"] = stop]
      BY <2>3 DEF StaysUp, ReleasesStores, Stops
    <3> QED  BY <3>1 DEF WarehouseTypes, WarehouseTypeOK, RunTypes
  <2> QED  BY <2>1, <2>2, <2>3
<1>5. NightTypes'
  BY DEF StartWithoutLock, Verify, ListRaises, StaysUp, ReleasesStores, WarehouseTypes,
         WarehouseTypeOK, NightTypes, purgeVars, closeVars
<1>6. Carried'
  <2>1. \E stop \in Stops \ {"entered", "entering"} : at' = [at EXCEPT !["close"] = stop]
    BY DEF StartWithoutLock, Verify, ListRaises, StaysUp, ReleasesStores, Stops
  <2>2. sent'["timer"] = sent["timer"]
    <3>1. sent \in [Pushers -> -1..(MaxRow + MaxVersion)]
      BY DEF WarehouseTypes, WarehouseTypeOK, RunTypes
    <3>2. UNCHANGED sent \/ sent' = [sent EXCEPT !["close"] = -1]
      BY DEF StartWithoutLock, Verify, ListRaises, StaysUp, ReleasesStores, Load, Exits
    <3> QED  BY <3>1, <3>2 DEF Pushers
  <2>4. pushes > 0 => pushes' > 0
    <3>1. pushes \in 0..MaxPushes
      BY DEF WarehouseTypes, WarehouseTypeOK, BoxTypes
    <3>2. UNCHANGED pushes \/ pushes' = pushes + 1
      BY DEF StartWithoutLock, Verify, ListRaises, StaysUp, ReleasesStores
    <3> QED  BY <3>1, <3>2
  <2>3. at["close"] = "idle" => pushes' > 0
    BY DEF StartWithoutLock, Verify, ListRaises, StaysUp, ReleasesStores, WarehouseTypes,
           WarehouseTypeOK, BoxTypes
  <2> QED  BY <2>1, <2>2, <2>3, <2>4 DEF WarehouseTypes, WarehouseTypeOK, RunTypes, Carried, Pushers
<1>7. objects' = [s \in Streams |-> objects'[s]]
  BY <1>2 DEF WarehouseTypes
<1> QED  BY <1>1, <1>3, <1>4, <1>5, <1>6, <1>7 DEF WarehouseTypes, WarehouseTypeOK

\* The feed, the purge, the nights: no run moves, or all of them end.
LEMMA BoxStepTypes ==
  ASSUME WarehouseTypes,
         FeedWrites \/ RowChanges \/ Purge \/ Halt \/ MidnightHalt \/ Wake
  PROVE  WarehouseTypes'
<1>1. BoxTypes'
  <2>1. BoxTypes
    BY DEF WarehouseTypes, WarehouseTypeOK
  <2>2. CASE FeedWrites
    <3>1. clock' \in 0..MaxRow /\ store' \subseteq Rows
      BY <2>1, <2>2 DEF FeedWrites, BoxTypes, Rows
    <3> QED  BY <2>1, <2>2, <3>1 DEF FeedWrites, BoxTypes
  <2>3. CASE RowChanges
    BY <2>1, <2>3 DEF RowChanges, BoxTypes
  <2>4. CASE Purge
    BY <2>1, <2>4 DEF Purge, PurgeStarts, PurgeDeletes, PurgeEnds, BoxTypes, boxVars
  <2>5. CASE Halt \/ MidnightHalt
    <3>1. /\ powered' = FALSE /\ feed' = FALSE /\ UNCHANGED <<clock, store, version, pushes>>
          /\ (UNCHANGED kills \/ (kills < MaxKills /\ kills' = kills + 1))
      BY <2>5 DEF Halt, MidnightHalt, PowersOff
    <3>2. kills' \in 0..MaxKills
      BY <2>1, <3>1 DEF BoxTypes
    <3> QED  BY <2>1, <3>1, <3>2 DEF BoxTypes
  <2>6. CASE Wake
    BY <2>1, <2>6 DEF Wake, BoxTypes
  <2> QED  BY <2>2, <2>3, <2>4, <2>5, <2>6
<1>2. ArchiveTypes' /\ UNCHANGED objects
  BY DEF FeedWrites, RowChanges, Purge, PurgeStarts, PurgeDeletes, PurgeEnds, Halt, MidnightHalt, Wake,
         PowersOff, WarehouseTypes, WarehouseTypeOK, ArchiveTypes, diskVars
<1>3. RunTypes'
  <2>1. RunTypes
    BY DEF WarehouseTypes, WarehouseTypeOK
  <2>2. CASE Halt \/ MidnightHalt
    <3>1. PowersOff
      BY <2>2 DEF Halt, MidnightHalt
    <3>2. lock' \in Pushers \cup {None} /\ at' \in [Pushers -> Stops]
      BY <3>1 DEF PowersOff, Stops
    <3>3. mark' \in [Pushers -> Rows \cup {Absent}] /\ sha' \in [Pushers -> -1..MaxVersion]
      BY <3>1 DEF PowersOff
    <3>4. count' \in [Pushers -> [Streams -> Nat]] /\ sent' \in [Pushers -> -1..(MaxRow + MaxVersion)]
      BY <3>1 DEF PowersOff
    <3>5. drained' \in [Pushers -> BOOLEAN] /\ failed' = failed
      BY <3>1 DEF PowersOff
    <3> QED  BY <2>1, <3>2, <3>3, <3>4, <3>5 DEF RunTypes
  <2>3. CASE ~(Halt \/ MidnightHalt)
    <3>1. UNCHANGED <<lock, runVars>>
      BY <2>3 DEF FeedWrites, RowChanges, Purge, PurgeStarts, PurgeDeletes, PurgeEnds, Wake
    <3> QED  BY <2>1, <3>1 DEF RunTypes, runVars
  <2> QED  BY <2>2, <2>3
<1>4. NightTypes'
  <2>1. NightTypes
    BY DEF WarehouseTypes, WarehouseTypeOK
  <2>2. UNCHANGED <<verdict, unlisted>>
    BY DEF FeedWrites, RowChanges, Purge, PurgeStarts, PurgeDeletes, PurgeEnds, Halt, MidnightHalt, Wake,
           PowersOff, closeVars
  <2>3. marked' \in BOOLEAN
    BY <2>1 DEF FeedWrites, RowChanges, Purge, PurgeStarts, PurgeDeletes, PurgeEnds, Halt, MidnightHalt,
           Wake, PowersOff, purgeVars, NightTypes
  <2>4. purged' \subseteq Rows
    BY <2>1 DEF FeedWrites, RowChanges, Purge, PurgeStarts, PurgeDeletes, PurgeEnds, Halt, MidnightHalt,
           Wake, PowersOff, purgeVars, NightTypes, WarehouseTypes, WarehouseTypeOK, BoxTypes
  <2>5. cutoff' \in Int
    <3>1. SafeCutoff \in Int
      <4>1. AgeCutoff \in Int
        BY DEF AgeCutoff, WarehouseTypes, WarehouseTypeOK, BoxTypes
      <4>2. diskMark \in Int
        BY DEF WarehouseTypes, WarehouseTypeOK, ArchiveTypes, Rows, Absent
      <4> QED  BY <4>1, <4>2 DEF SafeCutoff
    <3>2. cutoff' \in {cutoff, SafeCutoff, Absent}
      BY DEF FeedWrites, RowChanges, Purge, PurgeStarts, PurgeDeletes, PurgeEnds, Halt, MidnightHalt,
             Wake, PowersOff, purgeVars
    <3> QED  BY <2>1, <3>1, <3>2 DEF NightTypes, Absent
  <2> QED  BY <2>1, <2>2, <2>3, <2>4, <2>5 DEF NightTypes
<1>5. Carried'
  BY DEF FeedWrites, RowChanges, Purge, PurgeStarts, PurgeDeletes, PurgeEnds, Halt, MidnightHalt, Wake,
         PowersOff, WarehouseTypes, WarehouseTypeOK, RunTypes, Carried, runVars
<1>6. objects' = [s \in Streams |-> objects'[s]]
  BY <1>2 DEF WarehouseTypes
<1> QED  BY <1>1, <1>2, <1>3, <1>4, <1>5, <1>6 DEF WarehouseTypes, WarehouseTypeOK

LEMMA TypesStep ==
  ASSUME WarehouseTypes, [WarehouseNext]_whVars
  PROVE  WarehouseTypes'
<1>1. CASE UNCHANGED whVars
  BY <1>1 DEF whVars, boxVars, diskVars, runVars, closeVars, purgeVars, WarehouseTypes, WarehouseTypeOK,
              BoxTypes, ArchiveTypes, RunTypes, NightTypes, Carried
<1>2. CASE \E p \in Pushers : Push(p) \/ Kill(p)
  BY <1>2, RunStepTypes, ShipTypes DEF Push
<1>3. CASE FeedWrites \/ RowChanges \/ Close \/ Purge \/ MidnightHalt \/ Wake
  BY <1>3, CloseTypes, BoxStepTypes DEF Close
<1> QED  BY <1>1, <1>2, <1>3 DEF WarehouseNext

(***************************************************************************)
(* No ledger ahead of S3: what S3 holds only grows, and each place a mark  *)
(* is kept takes it from another, or from a batch that has landed.         *)
(***************************************************************************)
LEMMA ObjectsGrow ==
  ASSUME WarehouseTypes, [WarehouseNext]_whVars
  PROVE  \A s \in Streams : objects[s] \subseteq objects'[s]
<1>1. CASE UNCHANGED objects
  BY <1>1
<1>2. ASSUME NEW p \in Pushers, Ship(p) \/ ShipChanged(p)
      PROVE  \A s \in Streams : objects[s] \subseteq objects'[s]
  <2>1. \/ UNCHANGED objects
        \/ \E s \in Streams, o \in {NextBatch(p), <<version, pushes>>} :
               objects' = [objects EXCEPT ![s] = @ \cup {o}]
    BY <1>2 DEF Ship, ShipChanged, Confirmed, Unconfirmed, Streams
  <2>2. ASSUME NEW s \in Streams, NEW o, objects' = [objects EXCEPT ![s] = @ \cup {o}]
        PROVE  \A t \in Streams : objects[t] \subseteq objects'[t]
    <3>1. objects' = [t \in Streams |-> IF t = s THEN objects[t] \cup {o} ELSE objects[t]]
      BY <2>2 DEF WarehouseTypes
    <3> QED  BY <3>1
  <2> QED  BY <1>1, <2>1, <2>2
<1>3. ASSUME NEW p \in Pushers, Push(p) \/ Kill(p), ~Ship(p), ~ShipChanged(p)
      PROVE  UNCHANGED objects
  BY <1>3 DEF Push, Start, NothingNew, EnterMark, StageFlush, Unchanged, EnterSha, FinalFlush, EndsRun,
              Kill, Skips, SavesCounters, SavesLedgers
<1>4. FeedWrites \/ RowChanges \/ Close \/ Purge \/ MidnightHalt \/ Wake => UNCHANGED objects
  BY DEF FeedWrites, RowChanges, Close, StartWithoutLock, Verify, ListRaises, StaysUp, ReleasesStores,
         Purge, PurgeStarts, PurgeDeletes, PurgeEnds, Halt, MidnightHalt, Wake, PowersOff
<1>5. UNCHANGED whVars => UNCHANGED objects
  BY DEF whVars
<1> QED  BY <1>1, <1>2, <1>3, <1>4, <1>5 DEF WarehouseNext, Push

LEMMA TrustGrows ==
  ASSUME WarehouseTypes, Landed, [WarehouseNext]_whVars
  PROVE  /\ Shipped \subseteq Shipped' /\ ShippedStates \subseteq ShippedStates'
         /\ \A r \in store' : r <= clock'
         /\ \A m \in Int : m <= clock /\ (\A r \in store : r <= m => r \in Shipped') => Trusted(m)'
<1>1. objects["series"] \subseteq objects'["series"] /\ objects["mutable"] \subseteq objects'["mutable"]
  BY ObjectsGrow DEF Streams
<1>2. Shipped \subseteq Shipped' /\ ShippedStates \subseteq ShippedStates'
  BY <1>1 DEF Shipped, ShippedStates
<1>3. clock \in Int /\ \A r \in store : r \in Int /\ r <= clock
  BY DEF WarehouseTypes, WarehouseTypeOK, BoxTypes, Landed, Rows
<1>4. /\ clock' = clock \/ clock' = clock + 1
      /\ \A r \in store' : r \in store \/ (r = clock + 1 /\ clock' = clock + 1)
  <2>1. CASE FeedWrites
    BY <2>1, <1>3 DEF FeedWrites
  <2>2. CASE PurgeDeletes
    BY <2>2 DEF PurgeDeletes
  <2>3. ASSUME NEW p \in Pushers, Push(p) \/ Kill(p)
        PROVE  UNCHANGED <<clock, store>>
    BY <2>3 DEF Push, Start, NothingNew, Ship, EnterMark, StageFlush, Unchanged, ShipChanged, EnterSha,
                FinalFlush, EndsRun, Kill, Skips, SavesCounters, SavesLedgers, boxVars
  <2>4. Close \/ PurgeStarts \/ PurgeEnds \/ MidnightHalt \/ Wake \/ RowChanges \/ UNCHANGED whVars
            => UNCHANGED <<clock, store>>
    BY DEF Close, StartWithoutLock, Verify, ListRaises, StaysUp, ReleasesStores, PurgeStarts, PurgeEnds,
           Halt, MidnightHalt, Wake, PowersOff, RowChanges, boxVars, whVars
  <2> QED  BY <2>1, <2>2, <2>3, <2>4 DEF WarehouseNext, Purge
<1>5. ASSUME NEW m \in Int, m <= clock, \A r \in store : r <= m => r \in Shipped'
      PROVE  Trusted(m)'
  <2>1. m <= clock'
    BY <1>3, <1>4, <1>5
  <2>2. ASSUME NEW r \in store', r <= m PROVE r \in Shipped'
    BY <1>3, <1>4, <1>5, <2>2
  <2> QED  BY <2>1, <2>2 DEF Trusted, Covers
<1> QED  BY <1>2, <1>3, <1>4, <1>5

\* Where a step takes what it writes in a ledger, in memory or on disk.
LedgersFrom ==
    /\ \/ diskMark' = diskMark /\ diskSha' = diskSha
       \/ \E q \in Pushers : diskMark' = mark[q] /\ diskSha' = sha[q]
    /\ \A p \in Pushers :
          /\ \/ mark'[p] \in {mark[p], diskMark, Absent}
             \/ at[p] = "entered" /\ mark'[p] = sent[p]
          /\ \/ sha'[p] \in {sha[p], diskSha, -1}
             \/ at[p] = "entering" /\ sha'[p] = sent[p]

\* Where a run takes what it has confirmed.
SentFrom ==
    \A p \in Pushers :
        /\ at'[p] = "entered" =>
              \/ at[p] = "entered" /\ sent'[p] = sent[p]
              \/ /\ NextBatch(p) # {} /\ sent'[p] = Max(NextBatch(p))
                 /\ NextBatch(p) \in objects'["series"]
        /\ at'[p] = "entering" =>
              \/ at[p] = "entering" /\ sent'[p] = sent[p]
              \/ sent'[p] = version /\ <<version, pushes>> \in objects'["mutable"]

LEMMA LedgersProvenance ==
  ASSUME WarehouseTypes, [WarehouseNext]_whVars
  PROVE  LedgersFrom
<1>1. mark \in [Pushers -> Rows \cup {Absent}] /\ sha \in [Pushers -> -1..MaxVersion]
  BY DEF WarehouseTypes, WarehouseTypeOK, RunTypes
<1>2. CASE UNCHANGED <<diskMark, diskSha, mark, sha>>
  BY <1>2 DEF LedgersFrom
<1>3. ASSUME NEW p \in Pushers, Push(p) \/ Kill(p)
      PROVE  LedgersFrom
  <2>1. CASE Start(p)
    BY <1>1, <2>1 DEF Start, Load, diskVars, LedgersFrom
  <2>2. CASE Ship(p) \/ ShipChanged(p)
    BY <2>2 DEF Ship, ShipChanged, Confirmed, Unconfirmed, diskVars, LedgersFrom
  <2>3. CASE EnterMark(p)
    BY <1>1, <2>3 DEF EnterMark, diskVars, LedgersFrom
  <2>4. CASE EnterSha(p)
    BY <1>1, <2>4 DEF EnterSha, diskVars, LedgersFrom
  <2>5. CASE StageFlush(p) \/ FinalFlush(p)
    BY <2>5 DEF StageFlush, FinalFlush, SavesCounters, SavesLedgers, LedgersFrom
  <2>6. CASE EndsRun(p)
    <3>1. mark' \in {mark, [mark EXCEPT ![p] = Absent]} /\ sha' \in {sha, [sha EXCEPT ![p] = -1]}
      BY <2>6 DEF EndsRun, Exits
    <3>2. diskMark' = mark[p] /\ diskSha' = sha[p]
      BY <2>6 DEF EndsRun
    <3> QED  BY <1>1, <3>1, <3>2 DEF LedgersFrom
  <2>7. CASE Kill(p)
    BY <1>1, <2>7 DEF Kill, Exits, diskVars, LedgersFrom
  <2>8. CASE NothingNew(p) \/ Unchanged(p)
    BY <1>2, <2>8 DEF NothingNew, Unchanged, Skips, diskVars
  <2> QED  BY <1>3, <2>1, <2>2, <2>3, <2>4, <2>5, <2>6, <2>7, <2>8 DEF Push
<1>4. CASE StartWithoutLock
  BY <1>1, <1>4 DEF StartWithoutLock, Load, diskVars, LedgersFrom, Pushers
<1>5. CASE Verify \/ ListRaises
  BY <1>1, <1>5 DEF Verify, ListRaises, Exits, diskVars, LedgersFrom, Pushers
<1>6. CASE Halt \/ MidnightHalt
  BY <1>6 DEF Halt, MidnightHalt, PowersOff, diskVars, LedgersFrom
<1>7. FeedWrites \/ RowChanges \/ StaysUp \/ ReleasesStores \/ Purge \/ Wake \/ UNCHANGED whVars
          => UNCHANGED <<diskMark, diskSha, mark, sha>>
  BY DEF FeedWrites, RowChanges, StaysUp, ReleasesStores, Purge, PurgeStarts, PurgeDeletes, PurgeEnds,
         Wake, whVars, diskVars, runVars
<1> QED  BY <1>2, <1>3, <1>4, <1>5, <1>6, <1>7 DEF WarehouseNext, Close

LEMMA SentProvenance ==
  ASSUME WarehouseTypes, [WarehouseNext]_whVars
  PROVE  SentFrom
<1>1. at \in [Pushers -> Stops] /\ sent \in [Pushers -> -1..(MaxRow + MaxVersion)]
  BY DEF WarehouseTypes, WarehouseTypeOK, RunTypes
<1>2. CASE UNCHANGED <<at, sent>>
  BY <1>2 DEF SentFrom
<1>3. ASSUME NEW p \in Pushers, NEW stop \in Stops \ {"entered", "entering"},
             at' = [at EXCEPT ![p] = stop],
             \/ UNCHANGED sent
             \/ sent' = [sent EXCEPT ![p] = -1]
      PROVE  SentFrom
  BY <1>1, <1>3 DEF SentFrom
<1>4. ASSUME NEW p \in Pushers, Push(p) \/ Kill(p)
      PROVE  SentFrom
  <2>1. CASE Ship(p)
    <3>1. CASE at'[p] = "entered"
      <4>1. /\ NextBatch(p) # {} /\ sent' = [sent EXCEPT ![p] = Max(NextBatch(p))]
            /\ at' = [at EXCEPT ![p] = "entered"]
            /\ objects' = [objects EXCEPT !["series"] = @ \cup {NextBatch(p)}]
        BY <1>1, <2>1, <3>1 DEF Ship, Confirmed
      <4>2. NextBatch(p) \in objects'["series"]
        <5>1. objects' = [t \in Streams |-> IF t = "series" THEN objects[t] \cup {NextBatch(p)} ELSE objects[t]]
          BY <4>1 DEF WarehouseTypes
        <5> QED  BY <5>1 DEF Streams
      <4> QED  BY <1>1, <4>1, <4>2 DEF SentFrom
    <3>2. CASE at'[p] # "entered"
      <4>1. at' = [at EXCEPT ![p] = "counters"] /\ UNCHANGED sent
        BY <1>1, <2>1, <3>2 DEF Ship
      <4> QED  BY <1>3, <4>1 DEF Stops
    <3> QED  BY <3>1, <3>2
  <2>2. CASE ShipChanged(p)
    <3>1. CASE at'[p] = "entering"
      <4>1. /\ sent' = [sent EXCEPT ![p] = version]
            /\ at' = [at EXCEPT ![p] = "entering"]
            /\ objects' = [objects EXCEPT !["mutable"] = @ \cup {<<version, pushes>>}]
        BY <1>1, <2>2, <3>1 DEF ShipChanged, Confirmed
      <4>2. <<version, pushes>> \in objects'["mutable"]
        <5>1. objects' = [t \in Streams |-> IF t = "mutable" THEN objects[t] \cup {<<version, pushes>>}
                                                             ELSE objects[t]]
          BY <4>1 DEF WarehouseTypes
        <5> QED  BY <5>1 DEF Streams
      <4> QED  BY <1>1, <4>1, <4>2 DEF SentFrom
    <3>2. CASE at'[p] # "entering"
      <4>1. at' = [at EXCEPT ![p] = "flush"] /\ UNCHANGED sent
        BY <1>1, <2>2, <3>2 DEF ShipChanged
      <4> QED  BY <1>3, <4>1 DEF Stops
    <3> QED  BY <3>1, <3>2
  <2>3. CASE Start(p)
    BY <1>3, <2>3 DEF Start, Load, Stops
  <2>4. CASE EnterMark(p)
    BY <1>3, <2>4 DEF EnterMark, Stops
  <2>5. CASE EnterSha(p)
    BY <1>3, <2>5 DEF EnterSha, Stops
  <2>6. CASE StageFlush(p) \/ FinalFlush(p) \/ NothingNew(p) \/ Unchanged(p)
    <3>1. \E stop \in {"ledgers", "mutable", "flushing", "flush"} :
              at' = [at EXCEPT ![p] = stop] /\ UNCHANGED sent
      BY <2>6 DEF StageFlush, FinalFlush, NothingNew, Unchanged, Skips, SavesCounters, SavesLedgers
    <3> QED  BY <1>3, <3>1 DEF Stops
  <2>7. CASE EndsRun(p)
    <3>1. \E stop \in {"idle", "verify"} :
              at' = [at EXCEPT ![p] = stop] /\ sent' \in {sent, [sent EXCEPT ![p] = -1]}
      BY <2>7 DEF EndsRun, Exits
    <3> QED  BY <1>3, <3>1 DEF Stops
  <2>8. CASE Kill(p)
    <3>1. \E stop \in {"idle", "closing"} :
              at' = [at EXCEPT ![p] = stop] /\ sent' = [sent EXCEPT ![p] = -1]
      BY <2>8 DEF Kill, Exits
    <3> QED  BY <1>3, <3>1 DEF Stops
  <2> QED  BY <1>4, <2>1, <2>2, <2>3, <2>4, <2>5, <2>6, <2>7, <2>8 DEF Push
<1>5. CASE StartWithoutLock \/ Verify \/ ListRaises \/ StaysUp \/ ReleasesStores
  <2>1. \E stop \in {"flush", "closing", "idle", "trimming"} :
            at' = [at EXCEPT !["close"] = stop] /\ sent' \in {sent, [sent EXCEPT !["close"] = -1]}
    BY <1>5 DEF StartWithoutLock, Load, Verify, ListRaises, Exits, StaysUp, ReleasesStores
  <2> QED  BY <1>3, <2>1 DEF Stops, Pushers
<1>6. CASE Halt \/ MidnightHalt
  BY <1>6 DEF Halt, MidnightHalt, PowersOff, SentFrom
<1>7. FeedWrites \/ RowChanges \/ Purge \/ Wake \/ UNCHANGED whVars => UNCHANGED <<at, sent>>
  BY DEF FeedWrites, RowChanges, Purge, PurgeStarts, PurgeDeletes, PurgeEnds, Wake, whVars, runVars
<1> QED  BY <1>2, <1>4, <1>5, <1>6, <1>7 DEF WarehouseNext, Close

LEMMA LandedInit == WarehouseInit => Landed
<1> SUFFICES ASSUME WarehouseInit PROVE Landed
  OBVIOUS
<1>1. store = {} /\ diskMark = -1 /\ diskSha = -1 /\ purged = {} /\ marked = FALSE /\ clock = 0
  BY DEF WarehouseInit, Absent
<1>2. \A p \in Pushers : mark[p] = -1 /\ sha[p] = -1 /\ at[p] = "idle"
  BY DEF WarehouseInit, Absent
<1>3. -1 \in ShippedStates
  BY DEF ShippedStates
<1>4. Trusted(-1)
  BY <1>1 DEF Trusted, Covers
<1> QED  BY <1>1, <1>2, <1>3, <1>4 DEF Landed

LEMMA LandedStep ==
  ASSUME WarehouseTypes, Landed, [WarehouseNext]_whVars
  PROVE  Landed'
<1>1. /\ Shipped \subseteq Shipped' /\ ShippedStates \subseteq ShippedStates'
      /\ \A r \in store' : r <= clock'
      /\ \A m \in Int : m <= clock /\ (\A r \in store : r <= m => r \in Shipped') => Trusted(m)'
  BY TrustGrows
<1>8. \A m \in Int : Trusted(m) => Trusted(m)'
  BY <1>1 DEF Trusted, Covers
<1>2. LedgersFrom /\ SentFrom
  BY LedgersProvenance, SentProvenance
<1>3. /\ diskMark \in Int /\ cutoff \in Int
      /\ \A p \in Pushers : mark[p] \in Int /\ sent[p] \in Int
  BY DEF WarehouseTypes, WarehouseTypeOK, ArchiveTypes, RunTypes, NightTypes, Rows, Absent
<1>4. Trusted(Absent) /\ -1 \in ShippedStates
  BY DEF Trusted, Covers, ShippedStates, Absent, WarehouseTypes, WarehouseTypeOK, BoxTypes, Rows
<1>5. Trusted(diskMark)' /\ diskSha' \in ShippedStates'
  <2>1. CASE diskMark' = diskMark /\ diskSha' = diskSha
    <3>1. \A m \in Int : m = diskMark => Trusted(m)'
      BY <1>8 DEF Landed
    <3> QED  BY <1>1, <1>3, <2>1, <3>1 DEF Landed, Trusted, Covers
  <2>2. ASSUME NEW q \in Pushers, diskMark' = mark[q], diskSha' = sha[q]
        PROVE  Trusted(diskMark)' /\ diskSha' \in ShippedStates'
    <3>1. \A m \in Int : m = mark[q] => Trusted(m)'
      BY <1>8 DEF Landed
    <3> QED  BY <1>1, <1>3, <2>2, <3>1 DEF Landed, Trusted, Covers
  <2> QED  BY <1>2, <2>1, <2>2 DEF LedgersFrom
<1>6. ASSUME NEW p \in Pushers
      PROVE  Trusted(mark[p])' /\ sha'[p] \in ShippedStates'
  <2>1. mark'[p] \in Int /\ Trusted(mark'[p])
    BY <1>2, <1>3, <1>4 DEF LedgersFrom, Landed, Absent
  <2>2. \A m \in Int : m = mark'[p] => Trusted(m)'
    BY <1>8, <2>1
  <2>3. Trusted(mark[p])'
    BY <2>1, <2>2 DEF Trusted, Covers
  <2>4. sha'[p] \in ShippedStates
    BY <1>2, <1>4 DEF LedgersFrom, Landed
  <2> QED  BY <1>1, <2>3, <2>4
<1>7. ASSUME NEW p \in Pushers, at'[p] = "entered"
      PROVE  Trusted(sent[p])'
  <2>1. CASE at[p] = "entered" /\ sent'[p] = sent[p]
    <3>1. \A m \in Int : m = sent[p] => Trusted(m)'
      BY <1>8, <2>1 DEF Landed
    <3> QED  BY <1>3, <2>1, <3>1 DEF Trusted, Covers
  <2>2. CASE /\ NextBatch(p) # {} /\ sent'[p] = Max(NextBatch(p))
             /\ NextBatch(p) \in objects'["series"]
    <3>1. store \in SUBSET Rows
      BY DEF WarehouseTypes, WarehouseTypeOK, BoxTypes
    <3>2. /\ Max(NextBatch(p)) \in store
          /\ \A r \in store : r <= Max(NextBatch(p)) => r <= mark[p] \/ r \in NextBatch(p)
      BY <1>3, <2>2, <3>1, BatchLaw
    <3>3. NextBatch(p) \subseteq Shipped'
      BY <2>2 DEF Shipped
    <3>4. \A r \in store : r <= mark[p] => r \in Shipped'
      BY <1>1 DEF Landed, Trusted, Covers
    <3>5. Max(NextBatch(p)) \in Int /\ Max(NextBatch(p)) <= clock
      BY <3>1, <3>2 DEF Landed, WarehouseTypes, WarehouseTypeOK, BoxTypes, Rows
    <3>6. \A m \in Int : m = Max(NextBatch(p)) => Trusted(m)'
      BY <1>1, <3>2, <3>3, <3>4, <3>5
    <3> QED  BY <2>2, <3>5, <3>6 DEF Trusted, Covers
  <2> QED  BY <1>2, <1>7, <2>1, <2>2 DEF SentFrom
<1>9. ASSUME NEW p \in Pushers, at'[p] = "entering"
      PROVE  sent'[p] \in ShippedStates'
  <2>1. CASE at[p] = "entering" /\ sent'[p] = sent[p]
    BY <1>1, <2>1 DEF Landed
  <2>2. CASE sent'[p] = version /\ <<version, pushes>> \in objects'["mutable"]
    BY <2>2 DEF ShippedStates
  <2> QED  BY <1>2, <1>9, <2>1, <2>2 DEF SentFrom
<1>10. marked' => Trusted(cutoff)'
  <2>1. CASE UNCHANGED <<marked, cutoff>>
    <3>1. marked => \A m \in Int : m = cutoff => Trusted(m)'
      BY <1>8 DEF Landed
    <3> QED  BY <1>3, <2>1, <3>1 DEF Trusted, Covers
  <2>2. CASE PurgeStarts
    <3>1. SafeCutoff \in Int /\ (diskMark # Absent => SafeCutoff <= diskMark)
      BY <1>3 DEF SafeCutoff, AgeCutoff, WarehouseTypes, WarehouseTypeOK, BoxTypes
    <3>2. diskMark # Absent => Trusted(SafeCutoff)
      BY <1>3, <3>1 DEF Landed, Trusted, Covers, WarehouseTypes, WarehouseTypeOK, BoxTypes, Rows
    <3>3. diskMark # Absent => \A m \in Int : m = SafeCutoff => Trusted(m)'
      BY <1>8, <3>1, <3>2
    <3> QED  BY <2>2, <3>1, <3>3 DEF PurgeStarts, Trusted, Covers
  <2>3. CASE PurgeEnds \/ Halt \/ MidnightHalt
    BY <2>3 DEF PurgeEnds, Halt, MidnightHalt, PowersOff
  <2>4. ASSUME NEW p \in Pushers, Push(p) \/ Kill(p)
        PROVE  UNCHANGED <<marked, cutoff>>
    BY <2>4 DEF Push, Start, NothingNew, Ship, EnterMark, StageFlush, Unchanged, ShipChanged, EnterSha,
                FinalFlush, EndsRun, Kill, Skips, SavesCounters, SavesLedgers, purgeVars
  <2>5. FeedWrites \/ RowChanges \/ StartWithoutLock \/ Verify \/ ListRaises \/ StaysUp
          \/ ReleasesStores \/ PurgeDeletes \/ Wake \/ UNCHANGED whVars => UNCHANGED <<marked, cutoff>>
    BY DEF FeedWrites, RowChanges, StartWithoutLock, Verify, ListRaises, StaysUp, ReleasesStores,
           PurgeDeletes, Wake, whVars, purgeVars
  <2>6. CASE \E p \in Pushers : Push(p) \/ Kill(p)
    BY <2>1, <2>4, <2>6
  <2>7. CASE FeedWrites \/ RowChanges \/ Close \/ Purge \/ MidnightHalt \/ Wake \/ UNCHANGED whVars
    BY <2>1, <2>2, <2>3, <2>5, <2>7 DEF Close, Purge
  <2> QED  BY <2>6, <2>7 DEF WarehouseNext
<1>11. purged' \subseteq Shipped'
  <2>1. CASE PurgeDeletes
    <3>1. PICK r \in store : r < cutoff /\ purged' = IF marked THEN purged \cup {r} ELSE purged
      BY <2>1 DEF PurgeDeletes
    <3>2. marked => r \in Shipped
      BY <1>3, <3>1 DEF Landed, Trusted, Covers, WarehouseTypes, WarehouseTypeOK, BoxTypes, Rows
    <3> QED  BY <1>1, <3>1, <3>2 DEF Landed
  <2>2. CASE UNCHANGED purged
    BY <1>1, <2>2 DEF Landed
  <2>3. ASSUME NEW p \in Pushers, Push(p) \/ Kill(p)
        PROVE  UNCHANGED purged
    BY <2>3 DEF Push, Start, NothingNew, Ship, EnterMark, StageFlush, Unchanged, ShipChanged, EnterSha,
                FinalFlush, EndsRun, Kill, Skips, SavesCounters, SavesLedgers, purgeVars
  <2>4. FeedWrites \/ RowChanges \/ Close \/ PurgeStarts \/ PurgeEnds \/ MidnightHalt \/ Wake
          \/ UNCHANGED whVars => UNCHANGED purged
    BY DEF FeedWrites, RowChanges, Close, StartWithoutLock, Verify, ListRaises, StaysUp, ReleasesStores,
           PurgeStarts, PurgeEnds, Halt, MidnightHalt, PowersOff, Wake, whVars, purgeVars
  <2>5. CASE \E p \in Pushers : Push(p) \/ Kill(p)
    BY <2>2, <2>3, <2>5
  <2>6. CASE FeedWrites \/ RowChanges \/ Close \/ Purge \/ MidnightHalt \/ Wake \/ UNCHANGED whVars
    BY <2>1, <2>2, <2>4, <2>6 DEF Purge
  <2> QED  BY <2>5, <2>6 DEF WarehouseNext
<1> QED  BY <1>1, <1>5, <1>6, <1>7, <1>9, <1>10, <1>11 DEF Landed

(***************************************************************************)
(* The counters.                                                           *)
(***************************************************************************)
LEMMA CountedInit == WarehouseInit => Counted
  BY DEF WarehouseInit, Counted, HeldForAReason

\* Where a step takes the counters it writes: from another place they are kept, from the objects
\* S3 lists, or one more for an object that has just landed.
LEMMA CountsProvenance ==
  ASSUME WarehouseTypes, [WarehouseNext]_whVars, NEW s \in Streams
  PROVE  /\ \A p \in Pushers : \/ count'[p][s] \in {count[p][s], diskCount[s], 0}
                               \/ objects'[s] # {}
         /\ \/ diskCount'[s] = diskCount[s]
            \/ \E p \in Pushers : diskCount'[s] = count[p][s]
            \/ objects'[s] # {}
<1>1. /\ count \in [Pushers -> [Streams -> Nat]] /\ diskCount \in [Streams -> Nat]
  BY DEF WarehouseTypes, WarehouseTypeOK, RunTypes, ArchiveTypes
<1>2. CASE UNCHANGED <<count, diskCount>>
  BY <1>2
<1>3. ASSUME NEW p \in Pushers, Push(p) \/ Kill(p), ~Ship(p), ~ShipChanged(p)
      PROVE  /\ \/ UNCHANGED count
                \/ count' = [count EXCEPT ![p] = diskCount]
                \/ count' = [count EXCEPT ![p] = [t \in Streams |-> 0]]
             /\ diskCount' \in {diskCount, count[p]}
  BY <1>3 DEF Push, Start, NothingNew, EnterMark, StageFlush, Unchanged, EnterSha, FinalFlush, EndsRun,
              Kill, Skips, SavesCounters, SavesLedgers, Load, Exits, diskVars
<1>4. ASSUME NEW p \in Pushers, NEW t \in Streams, NEW o, NEW flushes \in BOOLEAN,
             Confirmed(p, t, o, flushes) \/ Unconfirmed(p, t, o)
      PROVE  /\ \A q \in Pushers : count'[q][s] = count[q][s] \/ objects'[s] # {}
             /\ \/ diskCount'[s] = diskCount[s]
                \/ diskCount'[s] = count[p][s]
                \/ objects'[s] # {}
  <2>1. CASE Confirmed(p, t, o, flushes)
    <3>1. objects' = [u \in Streams |-> IF u = t THEN objects[u] \cup {o} ELSE objects[u]]
      BY <2>1 DEF Confirmed, WarehouseTypes
    <3>2. count' = [count EXCEPT ![p][t] = @ + 1] /\ diskCount' \in {diskCount, count'[p]}
      BY <2>1 DEF Confirmed, diskVars
    <3>3. CASE s = t
      BY <3>1, <3>3
    <3>4. CASE s # t
      BY <1>1, <3>2, <3>4
    <3> QED  BY <3>3, <3>4
  <2>2. CASE Unconfirmed(p, t, o)
    BY <2>2 DEF Unconfirmed, diskVars
  <2> QED  BY <1>4, <2>1, <2>2
<1>5. ASSUME NEW p \in Pushers, Ship(p) \/ ShipChanged(p)
      PROVE  \E t \in Streams, o \in {NextBatch(p), <<version, pushes>>}, flushes \in BOOLEAN :
                 Confirmed(p, t, o, flushes) \/ Unconfirmed(p, t, o)
  BY <1>5 DEF Ship, ShipChanged, Streams
<1>6. CASE StartWithoutLock
  BY <1>1, <1>6 DEF StartWithoutLock, Load, diskVars, Pushers
<1>7. CASE ListRaises
  BY <1>1, <1>7 DEF ListRaises, Exits, diskVars, Pushers
<1>8. CASE Verify
  <2>1. count' = [count EXCEPT !["close"] = [t \in Streams |-> 0]] /\ UNCHANGED objects
    BY <1>8 DEF Verify, Exits
  <2>2. Expected \in {count["close"], diskCount}
    BY DEF Expected
  <2>3. diskCount'[s] \in {diskCount[s], Expected[s]} \/ objects[s] # {}
    BY <1>8 DEF Verify
  <2> QED  BY <1>1, <2>1, <2>2, <2>3 DEF Pushers
<1>9. CASE Halt \/ MidnightHalt
  BY <1>9 DEF Halt, MidnightHalt, PowersOff, diskVars
<1>10. FeedWrites \/ RowChanges \/ StaysUp \/ ReleasesStores \/ Purge \/ Wake \/ UNCHANGED whVars
           => UNCHANGED <<count, diskCount>>
  BY DEF FeedWrites, RowChanges, StaysUp, ReleasesStores, Purge, PurgeStarts, PurgeDeletes, PurgeEnds,
         Wake, whVars, diskVars, runVars
<1>11. ASSUME NEW p \in Pushers, Push(p) \/ Kill(p)
       PROVE  /\ \A q \in Pushers : \/ count'[q][s] \in {count[q][s], diskCount[s], 0}
                                    \/ objects'[s] # {}
              /\ \/ diskCount'[s] = diskCount[s]
                 \/ \E q \in Pushers : diskCount'[s] = count[q][s]
                 \/ objects'[s] # {}
  <2>1. CASE Ship(p) \/ ShipChanged(p)
    BY <1>4, <1>5, <2>1
  <2>2. CASE ~Ship(p) /\ ~ShipChanged(p)
    BY <1>1, <1>3, <1>11, <2>2
  <2> QED  BY <2>1, <2>2
<1> QED  BY <1>2, <1>6, <1>7, <1>8, <1>9, <1>10, <1>11 DEF WarehouseNext, Close

LEMMA CountedStep ==
  ASSUME WarehouseTypes, Counted, [WarehouseNext]_whVars
  PROVE  Counted'
<1>1. ASSUME NEW s \in Streams
      PROVE  /\ diskCount'[s] > 0 => objects'[s] # {}
             /\ \A p \in Pushers : count'[p][s] > 0 => objects'[s] # {}
  <2>1. objects[s] # {} => objects'[s] # {}
    BY ObjectsGrow
  <2> QED  BY <2>1, CountsProvenance DEF Counted
<1>2. HeldForAReason'
  <2>1. CASE Verify
    <3>1. \A s \in Streams : Cardinality(objects[s]) \in Nat /\ Expected[s] \in Nat
      BY ArchiveIsFinite DEF WarehouseTypes, WarehouseTypeOK, Expected, ArchiveTypes, RunTypes, Pushers
    <3>2. ASSUME NEW s \in Streams, Cardinality(objects[s]) < Expected[s]
          PROVE  objects[s] # {}
      <4>1. Expected[s] > 0
        BY <3>1, <3>2
      <4>2. Expected \in {count["close"], diskCount}
        BY DEF Expected
      <4> QED  BY <4>1, <4>2 DEF Counted, Pushers
    <3> DEFINE short == {s \in Streams : Cardinality(objects[s]) < Expected[s]}
               healed == IF Heals(short) THEN {s \in short : objects[s] # {}} ELSE {}
    <3>3. ~failed["close"] => short \subseteq healed
      <4>1. \A s \in short : objects[s] # {}
        BY <3>2
      <4> HIDE DEF short
      <4> QED  BY <4>1 DEF Heals
    <3>4. verdict' = (IF short \subseteq healed /\ ~failed["close"] THEN "ok" ELSE "short") /\ UNCHANGED failed
      BY <2>1 DEF Verify
    <3> HIDE DEF short, healed
    <3> QED  BY <3>3, <3>4 DEF HeldForAReason
  <2>2. CASE ListRaises
    BY <2>2 DEF ListRaises, HeldForAReason
  <2>3. CASE Kill("close")
    BY <2>3 DEF Kill, HeldForAReason, WarehouseTypes, WarehouseTypeOK, RunTypes, Pushers
  <2>4. CASE Start("close") \/ StartWithoutLock
    BY <2>4 DEF Start, StartWithoutLock, HeldForAReason
  <2>5. ASSUME NEW p \in Pushers, Push(p) \/ Kill(p), ~Start("close"), ~Kill("close")
        PROVE  /\ UNCHANGED <<verdict, unlisted>>
               /\ failed["close"] => failed'["close"]
    <3>1. failed \in [Pushers -> BOOLEAN]
      BY DEF WarehouseTypes, WarehouseTypeOK, RunTypes
    <3>2. UNCHANGED <<verdict, unlisted>>
      BY <2>5 DEF Push, Start, NothingNew, Ship, EnterMark, StageFlush, Unchanged, ShipChanged, EnterSha,
                  FinalFlush, EndsRun, Kill, Skips, SavesCounters, SavesLedgers, closeVars, Pushers
    <3>3. \/ UNCHANGED failed
          \/ failed' = [failed EXCEPT ![p] = TRUE]
          \/ p # "close" /\ \E b \in BOOLEAN : failed' = [failed EXCEPT ![p] = b]
      BY <2>5 DEF Push, Start, Load, NothingNew, Ship, Confirmed, Unconfirmed, EnterMark, StageFlush,
                  Unchanged, ShipChanged, EnterSha, FinalFlush, EndsRun, Kill, Skips, SavesCounters,
                  SavesLedgers, Pushers
    <3> QED  BY <3>1, <3>2, <3>3 DEF Pushers
  <2>6. FeedWrites \/ RowChanges \/ StaysUp \/ ReleasesStores \/ Halt \/ Purge \/ MidnightHalt \/ Wake
          \/ UNCHANGED whVars => UNCHANGED <<verdict, unlisted, failed>>
    BY DEF FeedWrites, RowChanges, StaysUp, ReleasesStores, Halt, Purge, PurgeStarts, PurgeDeletes,
           PurgeEnds, MidnightHalt, PowersOff, Wake, whVars, runVars, closeVars
  <2>7. CASE UNCHANGED <<verdict, unlisted>> /\ (failed["close"] => failed'["close"])
    BY <2>7 DEF Counted, HeldForAReason
  <2>8. CASE \E p \in Pushers : Push(p) \/ Kill(p)
    BY <2>3, <2>4, <2>5, <2>7, <2>8
  <2>9. CASE FeedWrites \/ RowChanges \/ Close \/ Purge \/ MidnightHalt \/ Wake \/ UNCHANGED whVars
    BY <2>1, <2>2, <2>4, <2>6, <2>7, <2>9 DEF Close
  <2> QED  BY <2>8, <2>9 DEF WarehouseNext
<1> QED  BY <1>1, <1>2 DEF Counted

(***************************************************************************)
(* The lock.                                                               *)
(***************************************************************************)
LEMMA LockInit == WarehouseInit => LockRules
  BY DEF WarehouseInit, LockRules, CloseRuns, Pushers, None, Absent

\* What the proof needs of the types.
LockTypes ==
    /\ lock \in Pushers \cup {None}
    /\ at \in [Pushers -> Stops] /\ mark \in [Pushers -> Int] /\ sent \in [Pushers -> Int]
    /\ drained \in [Pushers -> BOOLEAN] /\ diskMark \in Int

LEMMA TypesOfLock == WarehouseTypes => LockTypes
<1> SUFFICES ASSUME WarehouseTypes PROVE LockTypes
  OBVIOUS
<1>1. Rows \cup {Absent} \subseteq Int /\ -1..(MaxRow + MaxVersion) \subseteq Int
  BY DEF Rows, Absent
<1>2. /\ lock \in Pushers \cup {None} /\ at \in [Pushers -> Stops] /\ drained \in [Pushers -> BOOLEAN]
      /\ mark \in [Pushers -> Rows \cup {Absent}] /\ sent \in [Pushers -> -1..(MaxRow + MaxVersion)]
      /\ diskMark \in Rows \cup {Absent}
  BY DEF WarehouseTypes, WarehouseTypeOK, RunTypes, ArchiveTypes
<1> QED  BY <1>1, <1>2 DEF LockTypes

\* Who steps has the lock, or is a close without it in its final flush.
LEMMA StepperHolds ==
  ASSUME LockTypes, LockRules, NEW p \in Pushers, Push(p), ~Start(p)
  PROVE  /\ \/ lock = p
            \/ /\ p = "close" /\ ~drained["close"] /\ at["close"] \in {"flush", "flushing"}
               /\ mark["close"] <= diskMark
         /\ at[p] \notin {"idle", "closing", "trimming", "verify"}
<1>1. at[p] \notin {"idle", "closing", "trimming", "verify"}
  BY DEF Push, NothingNew, Ship, EnterMark, StageFlush, Unchanged, ShipChanged, EnterSha, FinalFlush,
         EndsRun, Skips, SavesCounters, SavesLedgers
<1> QED  BY <1>1 DEF LockTypes, LockRules, CloseRuns, Pushers

\* A step of the run of p in which the run goes on.
LEMMA GoesOn ==
  ASSUME LockTypes, LockRules, NEW p \in Pushers, Push(p), ~Start(p),
         NEW stop \in Stops \ {"idle", "closing", "trimming"},
         at' = [at EXCEPT ![p] = stop],
         at[p] \in {"flush", "flushing"} => stop \in {"flushing", "verify"},
         UNCHANGED <<lock, drained>>,
         diskMark' \in {diskMark, mark[p]},
         \/ UNCHANGED mark
         \/ at[p] = "entered" /\ mark' = [mark EXCEPT ![p] = sent[p]] /\ diskMark' = diskMark,
         \/ stop # "entered"
         \/ sent'[p] >= mark[p] /\ UNCHANGED mark,
         \A q \in Pushers : q # p => sent'[q] = sent[q]
  PROVE  LockRules'
<1>1. /\ \/ lock = p
         \/ /\ p = "close" /\ ~drained["close"] /\ at["close"] \in {"flush", "flushing"}
            /\ mark["close"] <= diskMark
      /\ at[p] \notin {"idle", "closing", "trimming", "verify"}
  BY StepperHolds
<1>2. /\ lock' = "timer" <=> at'["timer"] # "idle"
      /\ lock' = "close" <=> drained'["close"] /\ CloseRuns'
  BY <1>1 DEF LockTypes, LockRules, CloseRuns, Pushers
<1>3. \A q \in Pushers : lock' = q => mark'[q] >= diskMark'
  <2>1. CASE lock = p
    BY <2>1 DEF LockTypes, LockRules, Pushers
  <2>2. CASE lock # p
    <3>1. p = "close" /\ UNCHANGED mark /\ mark["close"] <= diskMark
      BY <1>1, <2>2
    <3> QED  BY <3>1 DEF LockTypes, LockRules, Pushers
  <2> QED  BY <2>1, <2>2
<1>4. \A q \in Pushers : at'[q] = "entered" => sent'[q] >= mark'[q]
  BY DEF LockTypes, LockRules, Pushers
<1>5. CloseRuns' /\ ~drained'["close"] => at'["close"] \in {"flush", "flushing", "verify"}
  BY <1>1 DEF LockTypes, LockRules, CloseRuns, Pushers
<1>6. at'["close"] \in {"flush", "flushing"} /\ ~drained'["close"] => mark'["close"] <= diskMark'
  <2>1. CASE p = "close"
    BY <1>1, <2>1 DEF LockTypes, LockRules, CloseRuns, Pushers
  <2>2. CASE p = "timer"
    BY <1>1, <2>2 DEF LockTypes, LockRules, CloseRuns, Pushers
  <2> QED  BY <2>1, <2>2 DEF Pushers
<1> QED  BY <1>2, <1>3, <1>4, <1>5, <1>6 DEF LockRules

LEMMA LockPush ==
  ASSUME WarehouseTypes, LockRules, NEW p \in Pushers, Push(p)
  PROVE  LockRules'
<1>1. LockTypes
  BY TypesOfLock
<1>2. CASE Start(p)
  <2>1. /\ lock = None /\ at[p] = "idle" /\ lock' = p
        /\ drained' = [drained EXCEPT ![p] = TRUE] /\ at' = [at EXCEPT ![p] = "series"]
        /\ mark' = [mark EXCEPT ![p] = diskMark] /\ sent' = [sent EXCEPT ![p] = -1] /\ diskMark' = diskMark
    BY <1>2 DEF Start, Load, diskVars
  <2>2. CASE p = "timer"
    BY <1>1, <2>1, <2>2 DEF LockTypes, LockRules, CloseRuns, Pushers, None
  <2>3. CASE p = "close"
    BY <1>1, <2>1, <2>3 DEF LockTypes, LockRules, CloseRuns, Pushers, None
  <2> QED  BY <2>2, <2>3 DEF Pushers
<1>3. CASE ~Start(p)
  <2>1. CASE NothingNew(p) \/ StageFlush(p) \/ Unchanged(p) \/ FinalFlush(p)
    <3>1. /\ UNCHANGED <<lock, drained, mark, sent>> /\ diskMark' \in {diskMark, mark[p]}
          /\ \E stop \in {"mutable", "ledgers", "flush", "flushing"} :
                /\ at' = [at EXCEPT ![p] = stop]
                /\ at[p] \in {"flush", "flushing"} => stop = "flushing"
      BY <2>1 DEF NothingNew, StageFlush, Unchanged, FinalFlush, Skips, SavesCounters, SavesLedgers,
                  diskVars
    <3> QED  BY <1>1, <1>3, <3>1, GoesOn DEF Stops
  <2>2. CASE Ship(p)
    <3>1. /\ UNCHANGED <<lock, drained, mark>> /\ diskMark' \in {diskMark, mark[p]} /\ at[p] = "series"
          /\ \/ /\ at' = [at EXCEPT ![p] = "entered"] /\ sent' = [sent EXCEPT ![p] = Max(NextBatch(p))]
             \/ at' = [at EXCEPT ![p] = "counters"] /\ UNCHANGED sent
          /\ NextBatch(p) # {}
      BY <2>2 DEF Ship, Confirmed, Unconfirmed, diskVars
    <3>2. Max(NextBatch(p)) >= mark[p]
      <4>1. store \in SUBSET Rows /\ mark[p] \in Int
        BY <1>1 DEF LockTypes, WarehouseTypes, WarehouseTypeOK, BoxTypes
      <4>2. Max(NextBatch(p)) \in Rows /\ Max(NextBatch(p)) > mark[p]
        BY <3>1, <4>1, BatchLaw
      <4> QED  BY <4>1, <4>2 DEF Rows
    <3>3. CASE at' = [at EXCEPT ![p] = "entered"] /\ sent' = [sent EXCEPT ![p] = Max(NextBatch(p))]
      <4>1. sent'[p] >= mark[p] /\ \A q \in Pushers : q # p => sent'[q] = sent[q]
        BY <1>1, <3>2, <3>3 DEF LockTypes
      <4> QED  BY <1>1, <1>3, <3>1, <3>3, <4>1, GoesOn DEF Stops
    <3>4. CASE at' = [at EXCEPT ![p] = "counters"] /\ UNCHANGED sent
      BY <1>1, <1>3, <3>1, <3>4, GoesOn DEF Stops
    <3> QED  BY <3>1, <3>3, <3>4
  <2>3. CASE ShipChanged(p)
    <3>1. /\ UNCHANGED <<lock, drained, mark>> /\ diskMark' \in {diskMark, mark[p]} /\ at[p] = "mutable"
          /\ \E stop \in {"entering", "flush"} : at' = [at EXCEPT ![p] = stop]
          /\ sent' \in {sent, [sent EXCEPT ![p] = version]}
      BY <2>3 DEF ShipChanged, Confirmed, Unconfirmed, diskVars
    <3>2. \A q \in Pushers : q # p => sent'[q] = sent[q]
      BY <1>1, <3>1 DEF LockTypes
    <3> QED  BY <1>1, <1>3, <3>1, <3>2, GoesOn DEF Stops
  <2>4. CASE EnterMark(p)
    <3>1. /\ UNCHANGED <<lock, drained, diskMark>> /\ at[p] = "entered"
          /\ at' = [at EXCEPT ![p] = "counters"]
          /\ mark' = [mark EXCEPT ![p] = sent[p]] /\ sent' = [sent EXCEPT ![p] = -1]
      BY <2>4 DEF EnterMark, diskVars
    <3>2. \A q \in Pushers : q # p => sent'[q] = sent[q]
      BY <1>1, <3>1 DEF LockTypes
    <3> QED  BY <1>1, <1>3, <3>1, <3>2, GoesOn DEF Stops
  <2>5. CASE EnterSha(p)
    <3>1. /\ UNCHANGED <<lock, drained, mark, diskMark>> /\ at[p] = "entering"
          /\ at' = [at EXCEPT ![p] = "flush"] /\ sent' = [sent EXCEPT ![p] = -1]
      BY <2>5 DEF EnterSha, diskVars
    <3>2. \A q \in Pushers : q # p => sent'[q] = sent[q]
      BY <1>1, <3>1 DEF LockTypes
    <3> QED  BY <1>1, <1>3, <3>1, <3>2, GoesOn DEF Stops
  <2>6. CASE EndsRun(p)
    <3>1. CASE p = "close"
      <4>1. /\ UNCHANGED <<lock, drained, mark, sent>> /\ at[p] = "flushing" /\ diskMark' = mark[p]
            /\ at' = [at EXCEPT ![p] = "verify"]
        BY <2>6, <3>1 DEF EndsRun
      <4> QED  BY <1>1, <1>3, <4>1, GoesOn DEF Stops
    <3>2. CASE p = "timer"
      <4>1. /\ lock' = None /\ diskMark' = mark["timer"] /\ at["timer"] = "flushing"
            /\ at' = [at EXCEPT !["timer"] = "idle"] /\ mark' = [mark EXCEPT !["timer"] = Absent]
            /\ sent' = [sent EXCEPT !["timer"] = -1] /\ drained' = [drained EXCEPT !["timer"] = FALSE]
        BY <2>6, <3>2 DEF EndsRun, Exits
      <4> QED  BY <1>1, <4>1 DEF LockTypes, LockRules, CloseRuns, Pushers, None
    <3> QED  BY <3>1, <3>2 DEF Pushers
  <2> QED  BY <1>3, <2>1, <2>2, <2>3, <2>4, <2>5, <2>6 DEF Push
<1> QED  BY <1>2, <1>3

LEMMA LockStep ==
  ASSUME WarehouseTypes, LockRules, [WarehouseNext]_whVars
  PROVE  LockRules'
<1>1. LockTypes
  BY TypesOfLock
<1>2. ASSUME NEW p \in Pushers, Kill(p)
      PROVE  LockRules'
  <2>1. /\ at[p] \notin {"idle", "closing", "trimming"} /\ lock' = (IF lock = p THEN None ELSE lock)
        /\ at' = [at EXCEPT ![p] = IF p = "close" THEN "closing" ELSE "idle"]
        /\ mark' = [mark EXCEPT ![p] = Absent] /\ sent' = [sent EXCEPT ![p] = -1]
        /\ drained' = [drained EXCEPT ![p] = FALSE] /\ diskMark' = diskMark
    BY <1>2 DEF Kill, Exits, diskVars
  <2>2. CASE p = "timer"
    BY <1>1, <2>1, <2>2 DEF LockTypes, LockRules, CloseRuns, Pushers, None
  <2>3. CASE p = "close"
    BY <1>1, <2>1, <2>3 DEF LockTypes, LockRules, CloseRuns, Pushers, None
  <2> QED  BY <2>2, <2>3 DEF Pushers
<1>3. CASE StartWithoutLock
  <2>1. /\ at["close"] = "idle" /\ lock' = lock /\ at' = [at EXCEPT !["close"] = "flush"]
        /\ drained' = [drained EXCEPT !["close"] = FALSE]
        /\ mark' = [mark EXCEPT !["close"] = diskMark] /\ sent' = [sent EXCEPT !["close"] = -1]
        /\ diskMark' = diskMark /\ lock = "timer"
    BY <1>3 DEF StartWithoutLock, Load, diskVars
  <2> QED  BY <1>1, <2>1 DEF LockTypes, LockRules, CloseRuns, Pushers, None
<1>4. CASE Verify \/ ListRaises
  <2>1. /\ at["close"] = "verify" /\ lock' = (IF lock = "close" THEN None ELSE lock)
        /\ at' = [at EXCEPT !["close"] = "closing"]
        /\ drained' = [drained EXCEPT !["close"] = FALSE]
        /\ mark' = [mark EXCEPT !["close"] = Absent] /\ sent' = [sent EXCEPT !["close"] = -1]
        /\ diskMark' = diskMark
    BY <1>4 DEF Verify, ListRaises, Exits, diskVars
  <2> QED  BY <1>1, <2>1 DEF LockTypes, LockRules, CloseRuns, Pushers, None
<1>5. CASE StaysUp \/ ReleasesStores
  <2>1. /\ at["close"] = "closing" /\ UNCHANGED <<lock, drained, mark, sent, diskMark>>
        /\ \E stop \in {"idle", "trimming"} : at' = [at EXCEPT !["close"] = stop]
    BY <1>5 DEF StaysUp, ReleasesStores, diskVars
  <2> QED  BY <1>1, <2>1 DEF LockTypes, LockRules, CloseRuns, Pushers, None
<1>6. CASE Halt \/ MidnightHalt
  BY <1>6 DEF Halt, MidnightHalt, PowersOff, LockRules, CloseRuns, Pushers, None
<1>7. CASE UNCHANGED <<lock, at, drained, mark, sent, diskMark>>
  BY <1>7 DEF LockRules, CloseRuns
<1>8. FeedWrites \/ RowChanges \/ Purge \/ Wake \/ UNCHANGED whVars
          => UNCHANGED <<lock, at, drained, mark, sent, diskMark>>
  BY DEF FeedWrites, RowChanges, Purge, PurgeStarts, PurgeDeletes, PurgeEnds, Wake, whVars, runVars,
         diskVars
<1>9. CASE \E p \in Pushers : Push(p) \/ Kill(p)
  BY <1>2, <1>9, LockPush
<1>10. CASE FeedWrites \/ RowChanges \/ Close \/ Purge \/ MidnightHalt \/ Wake \/ UNCHANGED whVars
  BY <1>3, <1>4, <1>5, <1>6, <1>7, <1>8, <1>10 DEF Close
<1> QED  BY <1>9, <1>10 DEF WarehouseNext

(***************************************************************************)
(* The theorems.                                                           *)
(***************************************************************************)
LEMMA WarehouseInvariant == WarehouseSpec => []WarehouseInv
<1>1. WarehouseInit => WarehouseInv
  BY TypesInit, LandedInit, CountedInit, LockInit DEF WarehouseInv
<1>2. WarehouseInv /\ [WarehouseNext]_whVars => WarehouseInv'
  BY TypesStep, LandedStep, CountedStep, LockStep DEF WarehouseInv
<1> QED  BY <1>1, <1>2, PTL DEF WarehouseSpec

\* Ledgers, counters and marks, of the disk and of each run, stay what their types say.
THEOREM WarehouseTypesHold == WarehouseSpec => []WarehouseTypeOK
<1>1. WarehouseInv => WarehouseTypeOK
  BY DEF WarehouseInv, WarehouseTypes
<1> QED  BY <1>1, WarehouseInvariant, PTL

\* A row the purge deleted under a mark is in S3, and no ledger claims more than landed there,
\* whatever was killed, halted, or overwritten by a verify without the lock.
THEOREM PurgeIsCovered == WarehouseSpec => []ShippedBeforePurged
<1>1. WarehouseInv => ShippedBeforePurged
  BY DEF WarehouseInv, Landed, Trusted, ShippedBeforePurged
<1> QED  BY <1>1, WarehouseInvariant, PTL

\* The close keeps the box up only for a PUT that was not confirmed, a kill, or a LIST that raised.
THEOREM BoxIsHeldForAReason == WarehouseSpec => []HeldForAReason
<1>1. WarehouseInv => HeldForAReason
  BY DEF WarehouseInv, Counted
<1> QED  BY <1>1, WarehouseInvariant, PTL

\* The mark on disk goes back in the final flush of a verify that has no lock, and nowhere else.
THEOREM OnlyVerifyRewinds == WarehouseSpec => OnlyStaleVerifyRewinds
<1> DEFINE Rewind == diskMark' < diskMark => at["close"] = "flushing" /\ ~drained["close"]
<1>1. WarehouseInv /\ [WarehouseNext]_whVars => [Rewind]_whVars
  <2> SUFFICES ASSUME WarehouseInv, WarehouseNext PROVE Rewind
    OBVIOUS
  <2>1. LockTypes /\ LockRules /\ WarehouseTypes
    BY TypesOfLock DEF WarehouseInv
  <2>2. CASE UNCHANGED diskMark
    BY <2>1, <2>2 DEF LockTypes
  <2>3. ASSUME NEW p \in Pushers, Push(p)
        PROVE  Rewind
    <3>1. CASE Start(p)
      BY <2>2, <3>1 DEF Start, diskVars
    <3>2. CASE ~Start(p)
      <4>1. \/ lock = p /\ mark[p] >= diskMark
            \/ p = "close" /\ ~drained["close"] /\ at["close"] \in {"flush", "flushing"}
        BY <2>1, <2>3, <3>2, StepperHolds DEF LockRules
      <4>2. diskMark' \in {diskMark, mark[p]}
        BY <2>3, <3>2 DEF Push, NothingNew, Ship, Confirmed, Unconfirmed, EnterMark, StageFlush, Unchanged,
                    ShipChanged, EnterSha, FinalFlush, EndsRun, Skips, SavesCounters, SavesLedgers, diskVars
      <4>3. CASE lock = p /\ mark[p] >= diskMark
        BY <2>1, <4>2, <4>3 DEF LockTypes
      <4>4. CASE p = "close" /\ ~drained["close"] /\ at["close"] \in {"flush", "flushing"}
        <5>1. at["close"] = "flush" => UNCHANGED diskMark
          BY <2>3, <3>2, <4>4 DEF Push, NothingNew, Ship, EnterMark, StageFlush, Unchanged, ShipChanged,
                      EnterSha, FinalFlush, EndsRun, Skips, SavesCounters, SavesLedgers, diskVars
        <5> QED  BY <2>2, <4>4, <5>1
      <4> QED  BY <4>1, <4>3, <4>4
    <3> QED  BY <3>1, <3>2
  <2>4. ASSUME NEW p \in Pushers, Kill(p)
        PROVE  UNCHANGED diskMark
    BY <2>4 DEF Kill, diskVars
  <2>5. FeedWrites \/ RowChanges \/ Close \/ Purge \/ MidnightHalt \/ Wake => UNCHANGED diskMark
    BY DEF FeedWrites, RowChanges, Close, StartWithoutLock, Verify, ListRaises, StaysUp, ReleasesStores,
           Halt, Purge, PurgeStarts, PurgeDeletes, PurgeEnds, MidnightHalt, PowersOff, Wake, diskVars
  <2> QED  BY <2>2, <2>3, <2>4, <2>5 DEF WarehouseNext
<1> QED  BY <1>1, WarehouseInvariant, PTL DEF WarehouseSpec, OnlyStaleVerifyRewinds
=============================================================================
