----------------------------- MODULE TapeProofs -----------------------------
(***************************************************************************)
(* What the two readers of the tape of closed minutes guarantee on every   *)
(* tape, whatever its length.  Of the level book: what it has said was so, *)
(* what it still judges it has told in full, what was broken says no more, *)
(* and each sync leaves the ledger with its live levels, and no level is   *)
(* in two of its parts.  Of the opening-range engine: the breakout it      *)
(* waits on stands, an order is sent for a confirmation that was seen, and *)
(* for none that was ordered on before, and the replay of a start does not *)
(* depend on what the file held.                                           *)
(***************************************************************************)
EXTENDS OrbEngine, LevelBook, FiniteSetTheorems, WellFoundedInduction, TLAPS

(***************************************************************************)
(* Induction, of sets: the least of whole numbers, and what holds from 0   *)
(* upwards.  Both tapes are replayed from their first minute.              *)
(***************************************************************************)
\* The least of a set of whole numbers, as the smallest of the ranges that end in one of it.
LEMMA LeastOf == ASSUME NEW T \in SUBSET Nat, T # {} PROVE \E x \in T : \A y \in T : x <= y
<1> DEFINE R == StrictSubsetOrdering(Nat)
           S == FiniteSubsetsOf(Nat)
           U == {0..x : x \in T}
<1>1. IsWellFoundedOn(R, S)
  BY FS_StrictSubsetOrderingWellFounded
<1>2. U \subseteq S /\ U # {}
  <2>1. \A x \in T : IsFiniteSet(0..x) /\ 0..x \in SUBSET Nat
    BY FS_Interval
  <2>2. \A x \in T : 0..x \in S
    BY <2>1 DEF FiniteSubsetsOf
  <2>3. PICK x \in T : TRUE
    OBVIOUS
  <2>4. 0..x \in U
    BY <2>3
  <2> HIDE DEF S
  <2>5. U \subseteq S
    BY <2>2
  <2> HIDE DEF U
  <2> QED  BY <2>4, <2>5
<1>3. PICK u \in U : \A y \in U : ~ (<<y, u>> \in R)
  <2> HIDE DEF R, S, U
  <2> QED  BY <1>1, <1>2, WFMin
<1>4. PICK x \in T : u = 0..x
  OBVIOUS
<1>5. ASSUME NEW y \in T, y < x PROVE FALSE
  <2>1. 0..y \in SUBSET Nat /\ 0..x \in SUBSET Nat /\ 0..y # 0..x /\ 0..y \subseteq 0..x
    BY <1>5
  <2>2. <<0..y, 0..x>> \in R
    BY <2>1 DEF StrictSubsetOrdering
  <2> QED  BY <1>3, <1>4, <2>2
<1> QED  BY <1>5

\* A set that holds 0 and with each number the next holds them all.
LEMMA Upward ==
  ASSUME NEW S, 0 \in S, \A n \in Nat : n \in S => n + 1 \in S
  PROVE  \A n \in Nat : n \in S
<1> SUFFICES ASSUME ~(\A n \in Nat : n \in S) PROVE FALSE
  OBVIOUS
<1> DEFINE T == {n \in Nat : n \notin S}
<1>1. PICK x \in T : \A y \in T : x <= y
  <2>1. T # {} /\ T \in SUBSET Nat
    OBVIOUS
  <2> HIDE DEF T
  <2> QED  BY <2>1, LeastOf
<1>2. x # 0 /\ x - 1 \in Nat /\ x - 1 \notin T
  BY <1>1
<1>3. x - 1 \in S /\ x - 1 + 1 = x
  BY <1>2
<1> QED BY <1>2, <1>3

-----------------------------------------------------------------------------
(***************************************************************************)
(* One object.                                                             *)
(***************************************************************************)
GoodBar(bar) ==
  /\ bar.open \in Int /\ bar.high \in Int /\ bar.low \in Int /\ bar.close \in Int
  /\ bar.low <= bar.close /\ bar.close <= bar.high

Ordered(near, far, side) == IF side = "resistance" THEN near <= far ELSE far <= near

\* What an episode says of the tape up to minute t: nothing was broken, whether a test is being
\* worked, whether the last minute closed beyond.
Judged(ep, born, near, far, side, bars, t) ==
  /\ ep \in [open : BOOLEAN, pending : BOOLEAN, dead : BOOLEAN] /\ ep.dead = FALSE
  /\ born \in Nat /\ 1 <= born /\ born <= t + 1
  /\ ep.open <=> WorkedTo(bars, born, t, near, side)
  /\ ep.pending <=> born <= t /\ Beyond(bars[t].close, far, side)
  /\ \A i \in born..t : ~BreachedAt(bars, born, i, far, side)

\* ... and every hold was said.
Told(of, born, near, far, side, bars, t, said) ==
  \A i \in born..t : HeldAt(bars, born, i, near, side) =>
    Event(of, side, near, far, born, i, "HELD") \in said

LEMMA SideLaw ==
  ASSUME NEW near \in Int, NEW far \in Int, NEW side, Ordered(near, far, side)
  PROVE  /\ \A c \in Int : HeldSide(c, near, side) => ~Beyond(c, far, side)
         /\ \A bar : GoodBar(bar) /\ Beyond(bar.close, far, side) => Reaches(bar, near, side)
<1>1. CASE side = "resistance"
  BY <1>1 DEF Ordered, HeldSide, Beyond, Reaches, GoodBar
<1>2. CASE side # "resistance"
  BY <1>2 DEF Ordered, HeldSide, Beyond, Reaches, GoodBar
<1> QED  BY <1>1, <1>2

LEMMA WorkedLaw ==
  ASSUME NEW bars, NEW born \in Nat, NEW t \in Nat, born <= t + 1, NEW near, NEW side
  PROVE  LET i == t + 1
             tried == WorkedTo(bars, born, t, near, side) \/ Reaches(bars[i], near, side)
         IN /\ WorkedTo(bars, born, i, near, side) <=> tried /\ ~HeldSide(bars[i].close, near, side)
            /\ HeldAt(bars, born, i, near, side) <=> tried /\ HeldSide(bars[i].close, near, side)
<1> DEFINE i == t + 1
           held(k) == HeldSide(bars[k].close, near, side)
           reached(k) == Reaches(bars[k], near, side)
<1>1. /\ i - 1 = t /\ i \in born..i
      /\ \A j \in born..i : j \in born..t \/ j = i
      /\ \A j \in born..t : j \in born..i
      /\ \A j \in born..i : \A k \in j..i : k \in j..t \/ k = i
      /\ \A j \in born..t : \A k \in j..t : k \in j..i
      /\ \A k \in i..t : FALSE
      /\ \A j \in born..i : i \in j..i
      /\ \A k \in i..i : k = i
  OBVIOUS
<1> HIDE DEF i, held, reached
<1>2. WorkedTo(bars, born, t, near, side) <=> \E j \in born..t : reached(j) /\ \A k \in j..t : ~held(k)
  BY DEF WorkedTo, held, reached
<1>3. WorkedTo(bars, born, i, near, side) <=> \E j \in born..i : reached(j) /\ \A k \in j..i : ~held(k)
  BY DEF WorkedTo, held, reached
<1>4. HeldAt(bars, born, i, near, side) <=>
        held(i) /\ \E j \in born..i : reached(j) /\ \A k \in j..t : ~held(k)
  BY <1>1 DEF HeldAt, held, reached
<1>5. (\E j \in born..i : reached(j) /\ \A k \in j..i : ~held(k))
        <=> ((\E j \in born..t : reached(j) /\ \A k \in j..t : ~held(k)) \/ reached(i)) /\ ~held(i)
  BY <1>1
<1>6. (\E j \in born..i : reached(j) /\ \A k \in j..t : ~held(k))
        <=> ((\E j \in born..t : reached(j) /\ \A k \in j..t : ~held(k)) \/ reached(i))
  BY <1>1
<1> QED  BY <1>2, <1>3, <1>4, <1>5, <1>6 DEF i, held, reached

LEMMA EpisodeLaw ==
  ASSUME NEW bars, NEW t \in Nat, GoodBar(bars[t + 1]), NEW near \in Int, NEW far \in Int, NEW side,
         Ordered(near, far, side), NEW born, NEW ep, Judged(ep, born, near, far, side, bars, t)
  PROVE  LET i == t + 1
             n == Step(ep, bars[i], near, far, side)
             evs == EventsOf(ep, bars[i], near, far, side)
         IN /\ evs \subseteq {"TESTED", "HELD", "BREACHED"}
            /\ "BREACHED" \in evs <=> n.dead
            /\ "BREACHED" \in evs => BreachedAt(bars, born, i, far, side)
            /\ "HELD" \in evs => HeldAt(bars, born, i, near, side)
            /\ ~n.dead /\ HeldAt(bars, born, i, near, side) => "HELD" \in evs
            /\ ~n.dead => Judged(n, born, near, far, side, bars, i)
<1> DEFINE i == t + 1
           b == bars[i]
           n == Step(ep, b, near, far, side)
           evs == EventsOf(ep, b, near, far, side)
           tried == WorkedTo(bars, born, t, near, side) \/ Reaches(b, near, side)
           held == HeldSide(b.close, near, side)
           over == Beyond(b.close, far, side)
<1>1. /\ born \in Nat /\ 1 <= born /\ born <= t + 1 /\ ep.dead = FALSE
      /\ ep.open <=> WorkedTo(bars, born, t, near, side)
      /\ ep.pending <=> born <= t /\ Beyond(bars[t].close, far, side)
      /\ ep \in [open : BOOLEAN, pending : BOOLEAN, dead : BOOLEAN]
      /\ \A j \in born..t : ~BreachedAt(bars, born, j, far, side)
  BY DEF Judged
<1>2. i - 1 = t /\ i \in Nat /\ b.close \in Int
  BY DEF GoodBar
<1>3. (held => ~over) /\ (over => Reaches(b, near, side))
  BY SideLaw, <1>2
<1>4. InEpisode(ep, b, near, side) <=> tried
  BY <1>1 DEF InEpisode
<1>5. Holds(ep, b, near, far, side) <=> tried /\ held
  BY <1>3, <1>4 DEF Holds
<1>6. Accepts(ep, b, far, side) <=> BreachedAt(bars, born, i, far, side)
  BY <1>1, <1>2 DEF Accepts, BreachedAt
<1>7. /\ WorkedTo(bars, born, i, near, side) <=> tried /\ ~held
      /\ HeldAt(bars, born, i, near, side) <=> tried /\ held
  BY <1>1, WorkedLaw
<1>8. CASE Accepts(ep, b, far, side)
  <2>1. evs = {"BREACHED"} /\ n = [ep EXCEPT !.pending = FALSE, !.dead = TRUE]
    BY <1>1, <1>8 DEF EventsOf, Step
  <2>2. n.dead
    BY <1>1, <2>1
  <2> HIDE DEF n, evs
  <2>3. "BREACHED" \in evs /\ "HELD" \notin evs /\ evs \subseteq {"TESTED", "HELD", "BREACHED"}
    BY <2>1
  <2> QED  BY <1>6, <1>8, <2>2, <2>3 DEF n, evs, i
<1>9. CASE ~Accepts(ep, b, far, side)
  <2>1. /\ evs = (IF ~ep.open /\ Reaches(b, near, side) THEN {"TESTED"} ELSE {})
                  \cup (IF Holds(ep, b, near, far, side) THEN {"HELD"} ELSE {})
        /\ n = [open    |-> \/ Beyond(b.close, far, side)
                            \/ InEpisode(ep, b, near, side) /\ ~Holds(ep, b, near, far, side),
                pending |-> Beyond(b.close, far, side),
                dead    |-> FALSE]
    BY <1>1, <1>9 DEF EventsOf, Step
  <2>2. /\ n \in [open : BOOLEAN, pending : BOOLEAN, dead : BOOLEAN] /\ n.dead = FALSE
        /\ n.pending <=> over
        /\ n.open <=> over \/ (InEpisode(ep, b, near, side) /\ ~Holds(ep, b, near, far, side))
    <3>1. over \in BOOLEAN
      <4>1. CASE side = "resistance"
        BY <1>2, <4>1 DEF Beyond
      <4>2. CASE side # "resistance"
        BY <1>2, <4>2 DEF Beyond
      <4> QED  BY <4>1, <4>2
    <3>2. (over \/ (InEpisode(ep, b, near, side) /\ ~Holds(ep, b, near, far, side))) \in BOOLEAN
      OBVIOUS
    <3> HIDE DEF n, over
    <3> QED  BY <2>1, <3>1, <3>2 DEF over
  <2>3. n.open <=> WorkedTo(bars, born, i, near, side)
    BY <1>3, <1>4, <1>5, <1>7, <2>2
  <2>4. \A j \in born..i : ~BreachedAt(bars, born, j, far, side)
    <3>1. \A j \in born..i : j \in born..t \/ j = i
      BY <1>1
    <3> QED  BY <1>1, <1>6, <1>9, <3>1
  <2>5. Judged(n, born, near, far, side, bars, i)
    <3>1. born <= i /\ born <= i + 1
      BY <1>1
    <3> HIDE DEF n
    <3> QED  BY <1>1, <2>2, <2>3, <2>4, <3>1 DEF Judged
  <2>6. /\ evs \subseteq {"TESTED", "HELD", "BREACHED"} /\ "BREACHED" \notin evs
        /\ "HELD" \in evs <=> Holds(ep, b, near, far, side)
    BY <2>1
  <2> QED  BY <1>5, <1>7, <2>2, <2>5, <2>6
<1> QED  BY <1>8, <1>9

-----------------------------------------------------------------------------
(***************************************************************************)
(* The book.                                                               *)
(***************************************************************************)
IsBook(b) == DOMAIN b = {"live", "dead", "traversed", "episodes", "flipped", "flipDead", "said"}

Flips == [side : SidesOfLevel, price : Int, flip : {TRUE}]

\* One entry of the book is as ruled.
SaidRight(e, bars, t) ==
  /\ e.at \in Nat /\ e.at <= t /\ e.born \in Nat /\ 1 <= e.born
  /\ e.what = "HELD" => HeldAt(bars, e.born, e.at, e.near, e.side)
  /\ e.what = "BREACHED" => BreachedAt(bars, e.born, e.at, e.far, e.side)

Silent(said) == \A d, e \in said : d.what = "BREACHED" /\ d.of \cap e.of # {} => e.at <= d.at

Base(b, bars, t) ==
  /\ IsBook(b)
  /\ b.live \subseteq Formed /\ b.dead \subseteq Formed /\ b.live \cap b.dead = {}
  /\ DOMAIN b.flipped \subseteq Flips /\ b.flipDead \subseteq Flips
  /\ DOMAIN b.flipped \cap b.flipDead = {}
  /\ \A e \in b.said : SaidRight(e, bars, t)
  /\ \A e \in b.said : e.what = "BREACHED" => e.of \subseteq b.dead \cup b.flipDead
  /\ \A e \in b.said : e.what = "FLIPPED" => e.of \subseteq DOMAIN b.flipped \cup b.flipDead
  /\ Silent(b.said)

FlipJudged(x, f, bars, t, said) ==
  /\ x = [ep |-> x.ep, born |-> x.born]
  /\ Judged(x.ep, x.born, f.price, f.price, f.side, bars, t)
  /\ Told({f}, x.born, f.price, f.price, f.side, bars, t, said)

FlipsJudged(b, bars, t) == \A f \in DOMAIN b.flipped : FlipJudged(b.flipped[f], f, bars, t, b.said)

NearOf(z, side) == NearEdge(LowOf(z), HighOf(z), side)
FarOf(z, side) == FarEdge(LowOf(z), HighOf(z), side)

ZoneJudged(x, z, bars, t, said) ==
  /\ z # {} /\ z \subseteq Formed
  /\ x = [side |-> x.side, ep |-> x.ep, born |-> x.born]
  /\ Judged(x.ep, x.born, NearOf(z, x.side), FarOf(z, x.side), x.side, bars, t)
  /\ Told(z, x.born, NearOf(z, x.side), FarOf(z, x.side), x.side, bars, t, said)

ZonesJudged(b, bars, t) == \A z \in DOMAIN b.episodes : ZoneJudged(b.episodes[z], z, bars, t, b.said)

BookOK(b, bars, t) == Base(b, bars, t) /\ FlipsJudged(b, bars, t) /\ ZonesJudged(b, bars, t)

LEMMA FormedLaw ==
  ASSUME NEW l \in Formed
  PROVE  l.price \in Int /\ l.side \in SidesOfLevel /\ l.flip = FALSE /\ l \notin Flips
  BY BookAssumption DEF Flips

LEMMA FlipLaw == \A l, s : l.price \in Int => FlipOf(l, s) \in Flips
  BY DEF FlipOf, Flips, Opposite, SidesOfLevel

\* The least of finitely many whole numbers: the smallest of their downward parts.
LEMMA LowestOf ==
  ASSUME NEW P \in SUBSET Int, IsFiniteSet(P), P # {}
  PROVE  \E p \in P : \A q \in P : p <= q
<1> DEFINE R == StrictSubsetOrdering(P)
           S == FiniteSubsetsOf(P)
           down(p) == {q \in P : q <= p}
           U == {down(p) : p \in P}
<1>1. IsWellFoundedOn(R, S)
  BY FS_StrictSubsetOrderingWellFounded
<1>2. U \subseteq S /\ U # {}
  <2>1. \A p \in P : IsFiniteSet(down(p)) /\ down(p) \in SUBSET P
    BY FS_Subset
  <2>2. \A p \in P : down(p) \in S
    BY <2>1 DEF FiniteSubsetsOf
  <2> HIDE DEF S, down
  <2> QED  BY <2>2
<1>3. PICK u \in U : \A y \in U : ~ (<<y, u>> \in R)
  <2> HIDE DEF R, S, U
  <2> QED  BY <1>1, <1>2, WFMin
<1>4. PICK p \in P : u = down(p)
  OBVIOUS
<1>5. ASSUME NEW q \in P, q < p PROVE FALSE
  <2>0. p \in Int /\ q \in Int /\ \A x \in P : x \in Int
    OBVIOUS
  <2>1. down(q) \subseteq down(p) /\ p \in down(p) /\ p \notin down(q)
    <3>1. \A x \in P : x <= q => x <= p
      BY <1>5, <2>0
    <3>2. p <= p /\ ~(p <= q)
      BY <1>5, <2>0
    <3> QED  BY <3>1, <3>2
  <2>2. down(q) \in SUBSET P /\ down(p) \in SUBSET P
    OBVIOUS
  <2> HIDE DEF down
  <2>3. <<down(q), down(p)>> \in R
    BY <2>1, <2>2 DEF StrictSubsetOrdering
  <2>4. down(q) \in U
    OBVIOUS
  <2> HIDE DEF U, R
  <2> QED  BY <1>3, <1>4, <2>3, <2>4
<1> QED  BY <1>5

LEMMA EdgesLaw ==
  ASSUME NEW z \in SUBSET Formed, z # {}, NEW side
  PROVE  NearOf(z, side) \in Int /\ FarOf(z, side) \in Int /\ Ordered(NearOf(z, side), FarOf(z, side), side)
<1> DEFINE P == {l.price : l \in z}
           N == {-p : p \in P}
<1>1. P \in SUBSET Int /\ P # {} /\ IsFiniteSet(P)
  <2>1. IsFiniteSet(z)
    BY BookAssumption, FS_Subset
  <2>2. IsFiniteSet(P)
    <3>1. [l \in z |-> l.price] \in Surjection(z, P)
      BY DEF Surjection
    <3> HIDE DEF P
    <3> QED  BY <2>1, <3>1, FS_Surjection
  <2> QED  BY <2>2, FormedLaw
<1>2. N \in SUBSET Int /\ N # {} /\ IsFiniteSet(N)
  <2> HIDE DEF P
  <2>1. IsFiniteSet(N)
    <3>1. [p \in P |-> -p] \in Surjection(P, N)
      BY DEF Surjection
    <3> HIDE DEF N
    <3> QED  BY <1>1, <3>1, FS_Surjection
  <2>2. \A p \in Int : -p \in Int
    OBVIOUS
  <2>3. N \in SUBSET Int /\ N # {}
    BY <1>1, <2>2, Zenon
  <2> QED  BY <2>1, <2>3
<1>3. \E p \in P : \A q \in P : p <= q
  <2> HIDE DEF P
  <2> QED  BY <1>1, LowestOf
<1>4. \E p \in P : \A q \in P : p >= q
  <2>1. PICK n \in N : \A m \in N : n <= m
    <3> HIDE DEF N
    <3> QED  BY <1>2, LowestOf
  <2> HIDE DEF P
  <2>2. PICK p \in P : n = -p
    OBVIOUS
  <2>3. \A q \in P : -p <= -q
    BY <2>1, <2>2
  <2> QED  BY <1>1, <2>3
<1>5. LowOf(z) \in P /\ \A q \in P : LowOf(z) <= q
  <2>1. \E p \in P : \A l \in z : p <= l.price
    BY <1>3
  <2>2. LowOf(z) = CHOOSE p \in P : \A l \in z : p <= l.price
    BY DEF LowOf
  <2> HIDE DEF P
  <2>3. LowOf(z) \in P /\ \A l \in z : LowOf(z) <= l.price
    BY <2>1, <2>2
  <2> QED  BY <2>3 DEF P
<1>6. HighOf(z) \in P /\ \A q \in P : HighOf(z) >= q
  <2>1. \E p \in P : \A l \in z : p >= l.price
    BY <1>4
  <2>2. HighOf(z) = CHOOSE p \in P : \A l \in z : p >= l.price
    BY DEF HighOf
  <2> HIDE DEF P
  <2>3. HighOf(z) \in P /\ \A l \in z : HighOf(z) >= l.price
    BY <2>1, <2>2
  <2> QED  BY <2>3 DEF P
<1>7. LowOf(z) \in Int /\ HighOf(z) \in Int /\ LowOf(z) <= HighOf(z)
  <2> HIDE DEF P
  <2> QED  BY <1>1, <1>5, <1>6
<1> QED  BY <1>7 DEF NearOf, FarOf, NearEdge, FarEdge, Ordered

LEMMA SaidGrows ==
  ASSUME NEW S, NEW N, NEW t \in Nat, Silent(S),
         \A e \in S : e.at \in Nat /\ e.at <= t, \A e \in N : e.at = t,
         \A d \in S, e \in N : d.what = "BREACHED" => d.of \cap e.of = {}
  PROVE  Silent(S \cup N)
<1> SUFFICES ASSUME NEW d \in S \cup N, NEW e \in S \cup N, d.what = "BREACHED", d.of \cap e.of # {}
             PROVE  e.at <= d.at
  BY DEF Silent
<1>1. CASE d \in N
  <2>1. d.at = t /\ e.at <= t
    BY <1>1
  <2> QED  BY <2>1
<1>2. CASE d \in S /\ e \in S
  BY <1>2 DEF Silent
<1>3. CASE d \in S /\ e \in N
  BY <1>3
<1> QED  BY <1>1, <1>2, <1>3

LEMMA ToldGrows ==
  ASSUME NEW of, NEW born \in Nat, NEW near, NEW far, NEW side, NEW bars, NEW t \in Nat, NEW said, NEW more,
         Told(of, born, near, far, side, bars, t, said), said \subseteq more,
         HeldAt(bars, born, t + 1, near, side) => Event(of, side, near, far, born, t + 1, "HELD") \in more
  PROVE  Told(of, born, near, far, side, bars, t + 1, more)
<1>1. \A i \in born..(t + 1) : i \in born..t \/ i = t + 1
  OBVIOUS
<1> QED  BY <1>1 DEF Told

LEMMA RightStays ==
  ASSUME NEW e, NEW bars, NEW t \in Nat, SaidRight(e, bars, t)
  PROVE  SaidRight(e, bars, t + 1)
<1>1. e.at <= t + 1
  BY DEF SaidRight
<1> QED  BY <1>1 DEF SaidRight

\* What the episode's law says of one object that is judged and of the entries it makes.
LEMMA EntriesLaw ==
  ASSUME NEW bars, NEW t \in Nat, GoodBar(bars[t + 1]), NEW near \in Int, NEW far \in Int, NEW side,
         Ordered(near, far, side), NEW born, NEW ep, Judged(ep, born, near, far, side, bars, t),
         NEW of, NEW said, NEW more, said \subseteq more, Told(of, born, near, far, side, bars, t, said),
         \A what \in EventsOf(ep, bars[t + 1], near, far, side) :
            Event(of, side, near, far, born, t + 1, what) \in more
  PROVE  /\ ~Step(ep, bars[t + 1], near, far, side).dead =>
              /\ Judged(Step(ep, bars[t + 1], near, far, side), born, near, far, side, bars, t + 1)
              /\ Told(of, born, near, far, side, bars, t + 1, more)
         /\ \A what \in EventsOf(ep, bars[t + 1], near, far, side) :
              /\ what # "FLIPPED"
              /\ what = "BREACHED" => Step(ep, bars[t + 1], near, far, side).dead
              /\ SaidRight(Event(of, side, near, far, born, t + 1, what), bars, t + 1)
<1> DEFINE n == Step(ep, bars[t + 1], near, far, side)
           evs == EventsOf(ep, bars[t + 1], near, far, side)
           i == t + 1
<1>1. /\ evs \subseteq {"TESTED", "HELD", "BREACHED"}
      /\ "BREACHED" \in evs <=> n.dead
      /\ "BREACHED" \in evs => BreachedAt(bars, born, i, far, side)
      /\ "HELD" \in evs => HeldAt(bars, born, i, near, side)
      /\ ~n.dead /\ HeldAt(bars, born, i, near, side) => "HELD" \in evs
      /\ ~n.dead => Judged(n, born, near, far, side, bars, i)
  BY EpisodeLaw
<1>2. born \in Nat /\ 1 <= born /\ born <= i /\ i \in Nat /\ i <= i
  BY DEF Judged
<1> HIDE DEF n, evs
<1>3. ASSUME ~n.dead PROVE Told(of, born, near, far, side, bars, i, more)
  <2>1. HeldAt(bars, born, i, near, side) => Event(of, side, near, far, born, i, "HELD") \in more
    BY <1>1, <1>3 DEF evs
  <2> QED  BY <1>2, <2>1, ToldGrows
<1> HIDE DEF i
<1>4. ASSUME NEW what \in evs
      PROVE  /\ what # "FLIPPED" /\ what = "BREACHED" => n.dead
             /\ SaidRight(Event(of, side, near, far, born, i, what), bars, i)
  BY <1>1, <1>2, <1>4 DEF SaidRight, Event
<1> QED  BY <1>1, <1>3, <1>4 DEF n, evs, i

LEMMA FlipsLaw ==
  ASSUME NEW bars, NEW t \in Nat, GoodBar(bars[t + 1]), NEW b, BookOK(b, bars, t)
  PROVE  LET r == JudgeFlips(b, bars[t + 1], t + 1)
         IN Base(r, bars, t + 1) /\ FlipsJudged(r, bars, t + 1) /\ ZonesJudged(r, bars, t)
<1> DEFINE i == t + 1
           bar == bars[i]
           r == JudgeFlips(b, bar, i)
           now(f) == Step(b.flipped[f].ep, bar, f.price, f.price, f.side)
           evs(f) == EventsOf(b.flipped[f].ep, bar, f.price, f.price, f.side)
           ev(f, what) == Event({f}, f.side, f.price, f.price, b.flipped[f].born, i, what)
           died == {f \in DOMAIN b.flipped : now(f).dead}
           N == UNION {{ev(f, what) : what \in evs(f)} : f \in DOMAIN b.flipped}
           F == [f \in DOMAIN b.flipped \ died |-> [b.flipped[f] EXCEPT !.ep = now(f)]]
<1>1. r = [b EXCEPT !.flipped = F, !.flipDead = b.flipDead \cup died, !.said = b.said \cup N]
  BY DEF JudgeFlips
<1>3. /\ IsBook(r) /\ r.live = b.live /\ r.dead = b.dead /\ r.episodes = b.episodes
      /\ r.flipped = F /\ r.flipDead = b.flipDead \cup died /\ r.said = b.said \cup N
  <2> DEFINE dead2 == b.flipDead \cup died
             said2 == b.said \cup N
  <2>1. r = [b EXCEPT !.flipped = F, !.flipDead = dead2, !.said = said2]
    BY <1>1
  <2>3. IsBook(b)
    BY DEF BookOK, Base
  <2> HIDE DEF F, died, N, r, dead2, said2
  <2>2. /\ IsBook(r) /\ r.live = b.live /\ r.dead = b.dead /\ r.episodes = b.episodes
        /\ r.flipped = F /\ r.flipDead = dead2 /\ r.said = said2
    BY <2>1, <2>3 DEF IsBook
  <2> QED  BY <2>2 DEF dead2, said2
<1>0. /\ Base(b, bars, t) /\ FlipsJudged(b, bars, t) /\ ZonesJudged(b, bars, t) /\ i \in Nat
      /\ DOMAIN b.flipped \subseteq Flips
  BY DEF BookOK, Base
<1>4. ASSUME NEW f \in DOMAIN b.flipped
      PROVE  /\ b.flipped[f] = [ep |-> b.flipped[f].ep, born |-> b.flipped[f].born]
             /\ ~now(f).dead =>
                  /\ Judged(now(f), b.flipped[f].born, f.price, f.price, f.side, bars, i)
                  /\ Told({f}, b.flipped[f].born, f.price, f.price, f.side, bars, i, b.said \cup N)
             /\ \A what \in evs(f) : /\ what # "FLIPPED"
                                     /\ what = "BREACHED" => f \in died
                                     /\ SaidRight(ev(f, what), bars, i)
  <2>1. f.price \in Int /\ Ordered(f.price, f.price, f.side)
    <3>1. f \in Flips
      BY <1>0
    <3>2. f.price \in Int
      BY <3>1 DEF Flips
    <3>3. \A p \in Int : p <= p
      OBVIOUS
    <3> QED  BY <3>2, <3>3 DEF Ordered
  <2>2. FlipJudged(b.flipped[f], f, bars, t, b.said)
    BY <1>0 DEF FlipsJudged
  <2>3. /\ b.flipped[f] = [ep |-> b.flipped[f].ep, born |-> b.flipped[f].born]
        /\ Judged(b.flipped[f].ep, b.flipped[f].born, f.price, f.price, f.side, bars, t)
        /\ Told({f}, b.flipped[f].born, f.price, f.price, f.side, bars, t, b.said)
    BY <2>2 DEF FlipJudged
  <2>4. b.said \subseteq b.said \cup N /\ \A what \in evs(f) : ev(f, what) \in b.said \cup N
    <3> HIDE DEF ev, evs
    <3> QED  OBVIOUS
  <2> HIDE DEF N
  <2>5. /\ ~now(f).dead =>
              /\ Judged(now(f), b.flipped[f].born, f.price, f.price, f.side, bars, t + 1)
              /\ Told({f}, b.flipped[f].born, f.price, f.price, f.side, bars, t + 1, b.said \cup N)
        /\ \A what \in evs(f) :
              /\ what # "FLIPPED"
              /\ what = "BREACHED" => now(f).dead
              /\ SaidRight(ev(f, what), bars, t + 1)
    BY <2>1, <2>3, <2>4, EntriesLaw
  <2> HIDE DEF now, evs, ev
  <2>6. now(f).dead => f \in died
    OBVIOUS
  <2> HIDE DEF died
  <2> QED  BY <2>3, <2>5, <2>6
<1>5. ASSUME NEW e \in N
      PROVE  \E f \in DOMAIN b.flipped : \E what \in evs(f) :
               /\ e = ev(f, what) /\ e.of = {f} /\ e.at = i /\ e.what = what
  BY DEF Event
<1> HIDE DEF evs, now, ev, died, N
<1>6. ASSUME NEW f \in DOMAIN b.flipped \ died
      PROVE  F[f].ep = now(f) /\ F[f].born = b.flipped[f].born /\ F[f] = [ep |-> F[f].ep, born |-> F[f].born]
             /\ ~now(f).dead
  <2>1. F[f] = [b.flipped[f] EXCEPT !.ep = now(f)] /\ ~now(f).dead
    BY DEF died
  <2> DEFINE x == b.flipped[f]
  <2>2. x = [ep |-> x.ep, born |-> x.born]
    BY <1>4
  <2>3. \A n : [x EXCEPT !.ep = n] = [ep |-> n, born |-> x.born]
    <3> HIDE DEF x
    <3> QED  BY <2>2
  <2>4. F[f] = [ep |-> now(f), born |-> b.flipped[f].born]
    BY <2>1, <2>3
  <2> HIDE DEF F
  <2> QED  BY <2>1, <2>4
<1>7. DOMAIN F = DOMAIN b.flipped \ died /\ died \subseteq DOMAIN b.flipped
  BY DEF died
<1> HIDE DEF F, r, bar
<1>8. FlipsJudged(r, bars, i)
  <2> SUFFICES ASSUME NEW f \in DOMAIN b.flipped \ died PROVE FlipJudged(F[f], f, bars, i, b.said \cup N)
    BY <1>3, <1>7 DEF FlipsJudged
  <2> QED  BY <1>4, <1>6 DEF FlipJudged
<1>9. ZonesJudged(r, bars, t)
  BY <1>0, <1>3 DEF ZonesJudged, ZoneJudged, Told
<1>10. /\ \A e \in b.said : SaidRight(e, bars, i)
       /\ \A e \in N : SaidRight(e, bars, i)
  <2>1. \A e \in b.said : SaidRight(e, bars, i)
    BY <1>0, RightStays DEF Base
  <2>2. ASSUME NEW e \in N PROVE SaidRight(e, bars, i)
    <3>1. PICK f \in DOMAIN b.flipped : \E what \in evs(f) : e = ev(f, what)
      BY <1>5
    <3> QED  BY <1>4, <3>1
  <2> QED  BY <2>1, <2>2
<1>11. /\ \A e \in b.said \cup N : e.what = "BREACHED" => e.of \subseteq r.dead \cup r.flipDead
       /\ \A e \in b.said \cup N : e.what = "FLIPPED" => e.of \subseteq DOMAIN r.flipped \cup r.flipDead
  <2>1. \A e \in b.said : /\ e.what = "BREACHED" => e.of \subseteq r.dead \cup r.flipDead
                          /\ e.what = "FLIPPED" => e.of \subseteq DOMAIN r.flipped \cup r.flipDead
    BY <1>0, <1>3, <1>7 DEF Base
  <2>2. \A e \in N : /\ e.what = "BREACHED" => e.of \subseteq r.dead \cup r.flipDead
                     /\ e.what # "FLIPPED"
    <3> SUFFICES ASSUME NEW e \in N
                 PROVE  /\ e.what = "BREACHED" => e.of \subseteq r.dead \cup r.flipDead
                        /\ e.what # "FLIPPED"
      OBVIOUS
    <3>1. PICK f \in DOMAIN b.flipped : \E what \in evs(f) : e.of = {f} /\ e.what = what
      BY <1>5
    <3>2. e.what # "FLIPPED" /\ (e.what = "BREACHED" => f \in died)
      BY <1>4, <3>1
    <3> QED  BY <1>3, <3>1, <3>2
  <2> HIDE DEF i
  <2> QED  BY <2>1, <2>2
<1>12. Silent(b.said \cup N)
  <2>1. /\ Silent(b.said) /\ \A e \in b.said : e.at \in Nat /\ e.at <= i
    BY <1>0, <1>10 DEF Base, SaidRight
  <2>2. \A e \in N : e.at = i
    BY <1>5
  <2>3. \A d \in b.said, e \in N : d.what = "BREACHED" => d.of \cap e.of = {}
    <3> SUFFICES ASSUME NEW d \in b.said, NEW e \in N, d.what = "BREACHED" PROVE d.of \cap e.of = {}
      OBVIOUS
    <3>1. PICK f \in DOMAIN b.flipped : e.of = {f}
      BY <1>5
    <3>2. d.of \subseteq b.dead \cup b.flipDead /\ f \in Flips /\ f \notin b.flipDead /\ b.dead \subseteq Formed
      BY <1>0 DEF Base
    <3>3. f \notin Formed
      BY <3>2, FormedLaw
    <3> QED  BY <3>1, <3>2, <3>3
  <2> QED  BY <1>0, <2>1, <2>2, <2>3, SaidGrows
<1>13. /\ r.live \subseteq Formed /\ r.dead \subseteq Formed /\ r.live \cap r.dead = {}
       /\ DOMAIN r.flipped \subseteq Flips /\ r.flipDead \subseteq Flips
       /\ DOMAIN r.flipped \cap r.flipDead = {}
  BY <1>0, <1>3, <1>7 DEF Base
<1>14. Base(r, bars, i)
  BY <1>3, <1>10, <1>11, <1>12, <1>13 DEF Base
<1> QED  BY <1>8, <1>9, <1>14 DEF r, bar

LEMMA TraverseLaw ==
  ASSUME NEW bars, NEW t, NEW b, BookOK(b, bars, t), NEW at
  PROVE  BookOK(Traverse(b, bars, at), bars, t)
<1> DEFINE inside(l) == \E i, j \in 1..RangeEnd : bars[i].low <= l.price /\ l.price <= bars[j].high
           gone == {l \in b.live : inside(l)}
           fgone == {f \in DOMAIN b.flipped : inside(f)}
           live2 == b.live \ gone
           dead2 == b.dead \cup gone
           G == Restrict(b.flipped, DOMAIN b.flipped \ fgone)
           fdead2 == b.flipDead \cup fgone
           trav2 == b.traversed \cup gone \cup fgone
           r == [b EXCEPT !.live = live2, !.dead = dead2, !.flipped = G, !.flipDead = fdead2,
                          !.traversed = trav2]
<1>1. Traverse(b, bars, at) \in {b, r}
  BY DEF Traverse
<1>2. CASE Traverse(b, bars, at) = b
  BY <1>2
<1>3. CASE Traverse(b, bars, at) = r
  <2>1. gone \subseteq b.live /\ fgone \subseteq DOMAIN b.flipped
    OBVIOUS
  <2>2. /\ DOMAIN G = DOMAIN b.flipped \ fgone
        /\ \A f \in DOMAIN b.flipped \ fgone : G[f] = b.flipped[f]
    BY DEF Restrict
  <2> HIDE DEF gone, fgone, G
  <2>3. IsBook(b) /\ Base(b, bars, t) /\ FlipsJudged(b, bars, t) /\ ZonesJudged(b, bars, t)
    BY DEF BookOK, Base
  <2>4. /\ IsBook(r) /\ r.live = live2 /\ r.dead = dead2 /\ r.episodes = b.episodes
        /\ r.flipped = G /\ r.flipDead = fdead2 /\ r.said = b.said
    <3> HIDE DEF live2, dead2, fdead2, trav2
    <3> QED  BY <2>3 DEF IsBook
  <2> HIDE DEF r
  <2>5. /\ r.live \subseteq Formed /\ r.dead \subseteq Formed /\ r.live \cap r.dead = {}
        /\ DOMAIN r.flipped \subseteq Flips /\ r.flipDead \subseteq Flips
        /\ DOMAIN r.flipped \cap r.flipDead = {}
    BY <2>1, <2>2, <2>3, <2>4 DEF Base
  <2>6. \A e \in r.said : e.what = "BREACHED" => e.of \subseteq r.dead \cup r.flipDead
    BY <2>3, <2>4 DEF Base
  <2>7. \A e \in r.said : e.what = "FLIPPED" => e.of \subseteq DOMAIN r.flipped \cup r.flipDead
    BY <2>1, <2>2, <2>3, <2>4 DEF Base
  <2>8. Base(r, bars, t)
    BY <2>3, <2>4, <2>5, <2>6, <2>7 DEF Base
  <2>9. FlipsJudged(r, bars, t) /\ ZonesJudged(r, bars, t)
    BY <2>2, <2>3, <2>4 DEF FlipsJudged, ZonesJudged
  <2> QED  BY <1>3, <2>8, <2>9 DEF BookOK
<1> QED  BY <1>1, <1>2, <1>3

\* An episode that begins after minute t has seen nothing.
LEMMA FreshLaw ==
  ASSUME NEW bars, NEW t \in Nat, NEW near, NEW far, NEW side, NEW of, NEW said
  PROVE  /\ Judged(NewEpisode, t + 1, near, far, side, bars, t)
         /\ Told(of, t + 1, near, far, side, bars, t, said)
<1>1. /\ \A i \in (t + 1)..t : FALSE
      /\ t + 1 \in Nat /\ 1 <= t + 1 /\ t + 1 <= t + 1 /\ ~(t + 1 <= t)
  OBVIOUS
<1>2. ~WorkedTo(bars, t + 1, t, near, side)
  BY <1>1 DEF WorkedTo
<1>3. /\ NewEpisode \in [open : BOOLEAN, pending : BOOLEAN, dead : BOOLEAN]
      /\ ~NewEpisode.open /\ ~NewEpisode.pending /\ NewEpisode.dead = FALSE
  BY DEF NewEpisode
<1> QED  BY <1>1, <1>2, <1>3 DEF Judged, Told

LEMMA ZonesOf ==
  ASSUME NEW live \in SUBSET Formed, NEW w, NEW z \in Zones(live, w)
  PROVE  z # {} /\ z \subseteq live
<1>1. CASE w = 0
  BY <1>1 DEF Zones
<1>2. CASE w # 0
  <2>1. PICK l \in live : z = {m \in live : Linked(l, m, live, w)}
    BY <1>2 DEF Zones
  <2>2. \A x \in live : x.price \in Int
    BY FormedLaw
  <2>3. Linked(l, l, live, w)
    BY <2>2 DEF Linked
  <2> QED  BY <2>1, <2>3
<1> QED  BY <1>1, <1>2

LEMMA RezoneLaw ==
  ASSUME NEW bars, NEW t \in Nat, NEW b, NEW bar, NEW w,
         Base(b, bars, t + 1), FlipsJudged(b, bars, t + 1), ZonesJudged(b, bars, t)
  PROVE  LET r == Rezone(b, bar, t + 1, w)
         IN /\ Base(r, bars, t + 1) /\ FlipsJudged(r, bars, t + 1) /\ ZonesJudged(r, bars, t)
            /\ \A z \in DOMAIN r.episodes : z \subseteq r.live
<1> DEFINE i == t + 1
           live == b.live \cup {l \in Formed : SessionEnds[l] <= i /\ l \notin b.dead}
           judged == {z \in Zones(live, w) : z \in DOMAIN b.episodes \/ ZoneSide(z, bar.open) # {}}
           new(z) == [side |-> CHOOSE s \in ZoneSide(z, bar.open) : TRUE, ep |-> NewEpisode, born |-> i]
           E == [z \in judged |-> IF z \in DOMAIN b.episodes THEN b.episodes[z] ELSE new(z)]
           r == Rezone(b, bar, i, w)
<1>1. r = [b EXCEPT !.live = live, !.episodes = E]
  BY DEF Rezone
<1>2. /\ live \subseteq Formed /\ live \cap b.dead = {}
      /\ \A z \in judged : z # {} /\ z \subseteq live
  <2>1. live \subseteq Formed /\ live \cap b.dead = {}
    BY DEF Base
  <2> HIDE DEF live
  <2> QED  BY <2>1, ZonesOf
<1>3. \A z \in judged : E[z] = IF z \in DOMAIN b.episodes THEN b.episodes[z] ELSE new(z)
  OBVIOUS
<1>4. DOMAIN E = judged
  OBVIOUS
<1>5. ASSUME NEW z
      PROVE  /\ new(z) = [side |-> new(z).side, ep |-> new(z).ep, born |-> new(z).born]
             /\ new(z).ep = NewEpisode /\ new(z).born = i
  OBVIOUS
<1> HIDE DEF live, judged, E, new, r
<1>6. /\ IsBook(r) /\ r.live = live /\ r.dead = b.dead /\ r.episodes = E
      /\ r.flipped = b.flipped /\ r.flipDead = b.flipDead /\ r.said = b.said
  BY <1>1 DEF Base, IsBook
<1>7. ASSUME NEW z \in judged PROVE ZoneJudged(E[z], z, bars, t, b.said)
  <2>1. CASE z \in DOMAIN b.episodes
    BY <1>3, <2>1 DEF ZonesJudged
  <2>2. CASE z \notin DOMAIN b.episodes
    <3>1. E[z] = new(z) /\ z # {} /\ z \subseteq Formed
      BY <1>2, <1>3, <2>2
    <3>2. /\ Judged(E[z].ep, E[z].born, NearOf(z, E[z].side), FarOf(z, E[z].side), E[z].side, bars, t)
          /\ Told(z, E[z].born, NearOf(z, E[z].side), FarOf(z, E[z].side), E[z].side, bars, t, b.said)
      BY <1>5, <3>1, FreshLaw
    <3> QED  BY <1>5, <3>1, <3>2 DEF ZoneJudged
  <2> QED  BY <2>1, <2>2
<1>8. ZonesJudged(r, bars, t) /\ FlipsJudged(r, bars, i)
  BY <1>4, <1>6, <1>7 DEF ZonesJudged, FlipsJudged
<1>9. Base(r, bars, i)
  BY <1>2, <1>6 DEF Base
<1>10. \A z \in DOMAIN r.episodes : z \subseteq r.live
  BY <1>2, <1>4, <1>6
<1> QED  BY <1>8, <1>9, <1>10 DEF r

\* A flipped level that stays is still judged when the book says more.
LEMMA FlipStays ==
  ASSUME NEW x, NEW f, NEW bars, NEW t, NEW said, NEW more, FlipJudged(x, f, bars, t, said),
         said \subseteq more
  PROVE  FlipJudged(x, f, bars, t, more)
  BY DEF FlipJudged, Told

LEMMA ZonesLaw ==
  ASSUME NEW bars, NEW t \in Nat, GoodBar(bars[t + 1]), NEW b, Base(b, bars, t + 1),
         FlipsJudged(b, bars, t + 1), ZonesJudged(b, bars, t),
         \A z \in DOMAIN b.episodes : z \subseteq b.live
  PROVE  BookOK(JudgeZones(b, bars[t + 1], t + 1), bars, t + 1)
<1> DEFINE i == t + 1
           bar == bars[i]
           r == JudgeZones(b, bar, i)
           O == b.episodes
           near(z) == NearOf(z, O[z].side)
           far(z) == FarOf(z, O[z].side)
           now(z) == Step(O[z].ep, bar, near(z), far(z), O[z].side)
           evs(z) == EventsOf(O[z].ep, bar, near(z), far(z), O[z].side)
           ev(z, what) == Event(z, O[z].side, near(z), far(z), O[z].born, i, what)
           broken == {z \in DOMAIN O : now(z).dead}
           flips == {f \in {FlipOf(CHOOSE l \in z : TRUE, O[z].side) :
                              z \in {y \in broken : Cardinality(y) = 1}} :
                       f \notin DOMAIN b.flipped \cup b.flipDead}
           fresh == [ep |-> NewEpisode, born |-> i + 1]
           made(f) == Event({f}, f.side, f.price, f.price, i + 1, i, "FLIPPED")
           E == [z \in DOMAIN O \ broken |-> [O[z] EXCEPT !.ep = now(z)]]
           G == [f \in DOMAIN b.flipped \cup flips |-> IF f \in flips THEN fresh ELSE b.flipped[f]]
           N == UNION {{ev(z, what) : what \in evs(z)} : z \in DOMAIN O}
           M == {made(f) : f \in flips}
           live2 == b.live \ UNION broken
           dead2 == b.dead \cup UNION broken
           said2 == b.said \cup N \cup M
<1>1. r = [b EXCEPT !.episodes = E, !.live = live2, !.dead = dead2, !.flipped = G, !.said = said2]
  BY Zenon DEF JudgeZones, NearOf, FarOf
<1>2. /\ IsBook(r) /\ r.live = live2 /\ r.dead = dead2 /\ r.episodes = E
      /\ r.flipped = G /\ r.flipDead = b.flipDead /\ r.said = said2
  <2>1. IsBook(b)
    BY DEF Base
  <2> HIDE DEF r, E, G, live2, dead2, said2
  <2> QED  BY <1>1, <2>1 DEF IsBook
<1>3. /\ i \in Nat /\ i <= i /\ i + 1 \in Nat /\ 1 <= i + 1
      /\ \A z \in DOMAIN O : z # {} /\ z \subseteq Formed /\ z \subseteq b.live
  <2>1. i \in Nat /\ i <= i /\ i + 1 \in Nat /\ 1 <= i + 1
    OBVIOUS
  <2>2. \A z \in DOMAIN O : z # {} /\ z \subseteq Formed /\ z \subseteq b.live
    BY DEF ZonesJudged, ZoneJudged
  <2> QED  BY <2>1, <2>2
<1>4. ASSUME NEW z \in DOMAIN O
      PROVE  /\ O[z] = [side |-> O[z].side, ep |-> O[z].ep, born |-> O[z].born]
             /\ ~now(z).dead =>
                  /\ Judged(now(z), O[z].born, near(z), far(z), O[z].side, bars, i)
                  /\ Told(z, O[z].born, near(z), far(z), O[z].side, bars, i, said2)
             /\ \A what \in evs(z) :
                  /\ what # "FLIPPED"
                  /\ what = "BREACHED" => z \in broken
                  /\ SaidRight(ev(z, what), bars, i)
  <2>1. near(z) \in Int /\ far(z) \in Int /\ Ordered(near(z), far(z), O[z].side)
    BY <1>3, EdgesLaw
  <2>2. ZoneJudged(O[z], z, bars, t, b.said)
    BY DEF ZonesJudged
  <2>3. /\ O[z] = [side |-> O[z].side, ep |-> O[z].ep, born |-> O[z].born]
        /\ Judged(O[z].ep, O[z].born, near(z), far(z), O[z].side, bars, t)
        /\ Told(z, O[z].born, near(z), far(z), O[z].side, bars, t, b.said)
    BY <2>2 DEF ZoneJudged
  <2>4. b.said \subseteq said2 /\ \A what \in evs(z) : ev(z, what) \in said2
    <3> HIDE DEF ev, evs, M, near, far, O
    <3> QED  OBVIOUS
  <2> HIDE DEF said2, near, far
  <2>5. /\ ~now(z).dead =>
             /\ Judged(now(z), O[z].born, near(z), far(z), O[z].side, bars, t + 1)
             /\ Told(z, O[z].born, near(z), far(z), O[z].side, bars, t + 1, said2)
        /\ \A what \in evs(z) :
             /\ what # "FLIPPED"
             /\ what = "BREACHED" => now(z).dead
             /\ SaidRight(ev(z, what), bars, t + 1)
    BY <2>1, <2>3, <2>4, EntriesLaw
  <2> HIDE DEF now, evs, ev
  <2>6. now(z).dead => z \in broken
    OBVIOUS
  <2> HIDE DEF broken
  <2> QED  BY <2>3, <2>5, <2>6
<1>5. ASSUME NEW e \in N
      PROVE  \E z \in DOMAIN O : \E what \in evs(z) :
               /\ e = ev(z, what) /\ e.of = z /\ e.at = i /\ e.what = what
  <2> HIDE DEF O, near, far, evs
  <2> QED  BY DEF Event
<1>6. ASSUME NEW e \in M
      PROVE  \E f \in flips : /\ e = made(f) /\ e.of = {f} /\ e.at = i /\ e.what = "FLIPPED"
                              /\ e.born = i + 1
  <2> HIDE DEF flips
  <2> QED  BY DEF Event
<1> HIDE DEF ev, evs, near, far
<1>7. broken \subseteq DOMAIN O /\ \A z \in DOMAIN O \ broken : ~now(z).dead
  OBVIOUS
<1>8. \A f \in flips : f \in Flips /\ f \notin DOMAIN b.flipped /\ f \notin b.flipDead
  <2> HIDE DEF broken
  <2>1. SUFFICES ASSUME NEW z \in broken PROVE FlipOf(CHOOSE l \in z : TRUE, O[z].side) \in Flips
    OBVIOUS
  <2>2. (CHOOSE l \in z : TRUE) \in Formed
    BY <1>3, <1>7
  <2> QED  BY <2>2, FlipLaw, FormedLaw
<1> HIDE DEF now, broken, flips
<1>9. ASSUME NEW z \in DOMAIN O \ broken PROVE ZoneJudged(E[z], z, bars, i, said2)
  <2>1. E[z] = [O[z] EXCEPT !.ep = now(z)]
    OBVIOUS
  <2> DEFINE x == O[z]
  <2>2. x = [side |-> x.side, ep |-> x.ep, born |-> x.born]
    BY <1>4
  <2>3. \A n : [x EXCEPT !.ep = n] = [side |-> x.side, ep |-> n, born |-> x.born]
    <3> HIDE DEF x
    <3> QED  BY <2>2
  <2>4. E[z] = [side |-> O[z].side, ep |-> now(z), born |-> O[z].born]
    BY <2>1, <2>3
  <2> HIDE DEF E, said2
  <2>5. E[z].ep = now(z) /\ E[z].born = O[z].born /\ E[z].side = O[z].side
    BY <2>4
  <2>6. E[z] = [side |-> E[z].side, ep |-> E[z].ep, born |-> E[z].born]
    BY <2>4
  <2>7. /\ Judged(now(z), O[z].born, near(z), far(z), O[z].side, bars, i)
        /\ Told(z, O[z].born, near(z), far(z), O[z].side, bars, i, said2)
    BY <1>4, <1>7
  <2> HIDE DEF i, bar, O
  <2> QED  BY <1>3, <2>5, <2>6, <2>7 DEF ZoneJudged, near, far, O
<1>10. ASSUME NEW f \in DOMAIN b.flipped \cup flips PROVE FlipJudged(G[f], f, bars, i, said2)
  <2>1. CASE f \in flips
    <3>1. G[f] = fresh /\ fresh.ep = NewEpisode /\ fresh.born = i + 1
      BY <2>1
    <3>2. fresh = [ep |-> fresh.ep, born |-> fresh.born]
      OBVIOUS
    <3>3. /\ Judged(NewEpisode, i + 1, f.price, f.price, f.side, bars, i)
          /\ Told({f}, i + 1, f.price, f.price, f.side, bars, i, said2)
      <4> HIDE DEF i, said2
      <4> QED  BY <1>3, FreshLaw
    <3> HIDE DEF fresh, G, said2
    <3> QED  BY <3>1, <3>2, <3>3 DEF FlipJudged
  <2>2. CASE f \notin flips
    <3>1. FlipJudged(b.flipped[f], f, bars, i, b.said) /\ G[f] = b.flipped[f]
      BY <2>2 DEF FlipsJudged
    <3> QED  BY <3>1, FlipStays
  <2> QED  BY <2>1, <2>2
<1>11. DOMAIN E = DOMAIN O \ broken /\ DOMAIN G = DOMAIN b.flipped \cup flips
  OBVIOUS
<1>12. r.said = b.said \cup (N \cup M)
  <2> HIDE DEF N, M
  <2> QED  BY <1>2
<1> HIDE DEF E, G, N, M, made, fresh, r
<1>13. ZonesJudged(r, bars, i) /\ FlipsJudged(r, bars, i)
  <2> HIDE DEF said2
  <2> QED  BY <1>2, <1>9, <1>10, <1>11 DEF ZonesJudged, FlipsJudged
<1>14. UNION broken \subseteq Formed
  BY <1>3, <1>7
<1>15. /\ r.live \subseteq Formed /\ r.dead \subseteq Formed /\ r.live \cap r.dead = {}
       /\ DOMAIN r.flipped \subseteq Flips /\ r.flipDead \subseteq Flips
       /\ DOMAIN r.flipped \cap r.flipDead = {}
  BY <1>2, <1>8, <1>11, <1>14 DEF Base
<1>16. \A e \in r.said : SaidRight(e, bars, i)
  <2>1. \A e \in b.said : SaidRight(e, bars, i)
    BY DEF Base
  <2>2. ASSUME NEW e \in N PROVE SaidRight(e, bars, i)
    <3>1. PICK z \in DOMAIN O : \E what \in evs(z) : e = ev(z, what)
      BY <1>5
    <3> QED  BY <1>4, <3>1
  <2>3. ASSUME NEW e \in M PROVE SaidRight(e, bars, i)
    <3>1. e.at = i /\ e.what = "FLIPPED" /\ e.born = i + 1
      BY <1>6
    <3> HIDE DEF i
    <3> QED  BY <1>3, <3>1 DEF SaidRight
  <2> QED  BY <1>12, <2>1, <2>2, <2>3
<1>17. \A e \in r.said : e.what = "BREACHED" => e.of \subseteq r.dead \cup r.flipDead
  <2>1. \A e \in b.said : e.what = "BREACHED" => e.of \subseteq r.dead \cup r.flipDead
    BY <1>2 DEF Base
  <2>2. ASSUME NEW e \in N, e.what = "BREACHED" PROVE e.of \subseteq r.dead \cup r.flipDead
    <3>1. PICK z \in DOMAIN O : \E what \in evs(z) : e.of = z /\ e.what = what
      BY <1>5
    <3>2. z \in broken
      BY <1>4, <2>2, <3>1
    <3> QED  BY <1>2, <3>1, <3>2
  <2>3. \A e \in M : e.what # "BREACHED"
    BY <1>6
  <2> QED  BY <1>12, <2>1, <2>2, <2>3
<1>18. \A e \in r.said : e.what = "FLIPPED" => e.of \subseteq DOMAIN r.flipped \cup r.flipDead
  <2>1. \A e \in b.said : e.what = "FLIPPED" => e.of \subseteq DOMAIN r.flipped \cup r.flipDead
    BY <1>2, <1>11 DEF Base
  <2>2. ASSUME NEW e \in N PROVE e.what # "FLIPPED"
    <3>1. PICK z \in DOMAIN O : \E what \in evs(z) : e.what = what
      BY <1>5
    <3> QED  BY <1>4, <3>1
  <2>3. \A e \in M : e.of \subseteq DOMAIN r.flipped
    BY <1>2, <1>6, <1>11
  <2> QED  BY <1>12, <2>1, <2>2, <2>3
<1>19. Silent(r.said)
  <2>1. /\ Silent(b.said) /\ \A e \in b.said : e.at \in Nat /\ e.at <= i
    BY DEF Base, SaidRight
  <2>2. \A e \in N \cup M : e.at = i
    BY <1>5, <1>6
  <2>3. ASSUME NEW d \in b.said, NEW e \in N \cup M, d.what = "BREACHED" PROVE d.of \cap e.of = {}
    <3>1. /\ d.of \subseteq b.dead \cup b.flipDead /\ b.flipDead \subseteq Flips
          /\ b.dead \subseteq Formed /\ b.live \cap b.dead = {}
      BY <2>3 DEF Base
    <3>2. Formed \cap Flips = {}
      BY FormedLaw
    <3>3. CASE e \in N
      <4>1. PICK z \in DOMAIN O : e.of = z
        BY <1>5, <3>3
      <4>2. z \subseteq b.live /\ z \subseteq Formed
        BY <1>3
      <4> QED  BY <3>1, <3>2, <4>1, <4>2
    <3>4. CASE e \in M
      <4>1. PICK f \in flips : e.of = {f}
        BY <1>6, <3>4
      <4>2. f \in Flips /\ f \notin b.flipDead
        BY <1>8
      <4> QED  BY <3>1, <3>2, <4>1, <4>2
    <3> QED  BY <3>3, <3>4
  <2>4. Silent(b.said \cup (N \cup M))
    <3> HIDE DEF i
    <3> QED  BY <1>3, <2>1, <2>2, <2>3, SaidGrows
  <2> QED  BY <1>12, <2>4
<1>20. Base(r, bars, i)
  <2> HIDE DEF i
  <2> QED  BY <1>2, <1>15, <1>16, <1>17, <1>18, <1>19 DEF Base
<1> QED  BY <1>13, <1>20 DEF BookOK, r
LEMMA MinuteLaw ==
  ASSUME NEW bars, NEW t \in Nat, GoodBar(bars[t + 1]), NEW b, BookOK(b, bars, t), NEW w
  PROVE  BookOK(JudgeMinute(b, bars, t + 1, w), bars, t + 1)
<1> DEFINE i == t + 1
           b1 == Traverse(b, bars, i)
           b2 == JudgeFlips(b1, bars[i], i)
           b3 == Rezone(b2, bars[i], i, w)
<1>1. BookOK(b1, bars, t)
  BY TraverseLaw
<1> HIDE DEF b1
<1>2. Base(b2, bars, t + 1) /\ FlipsJudged(b2, bars, t + 1) /\ ZonesJudged(b2, bars, t)
  BY <1>1, FlipsLaw
<1> HIDE DEF b2
<1>3. /\ Base(b3, bars, t + 1) /\ FlipsJudged(b3, bars, t + 1) /\ ZonesJudged(b3, bars, t)
      /\ \A z \in DOMAIN b3.episodes : z \subseteq b3.live
  BY <1>2, RezoneLaw
<1> HIDE DEF b3
<1>4. BookOK(JudgeZones(b3, bars[t + 1], t + 1), bars, t + 1)
  BY <1>3, ZonesLaw
<1> QED  BY <1>4 DEF JudgeMinute, b1, b2, b3

LEMMA EmptyLaw == ASSUME NEW bars PROVE BookOK(EmptyBook, bars, 0)
<1>1. DOMAIN <<>> = {}
  OBVIOUS
<1>2. /\ EmptyBook.live = {} /\ EmptyBook.dead = {} /\ EmptyBook.flipDead = {} /\ EmptyBook.said = {}
      /\ DOMAIN EmptyBook.episodes = {} /\ DOMAIN EmptyBook.flipped = {} /\ IsBook(EmptyBook)
  BY <1>1 DEF EmptyBook, IsBook
<1> QED  BY <1>2 DEF BookOK, Base, FlipsJudged, ZonesJudged, Silent

\* The book rests on the minutes up to its own and on no other.
LEMMA SameTape ==
  ASSUME NEW bars, NEW other, NEW t \in Nat, \A i \in 1..t : bars[i] = other[i]
  PROVE  \A near, side : \A born, i \in Nat :
           1 <= born /\ i <= t =>
                /\ WorkedTo(bars, born, i, near, side) <=> WorkedTo(other, born, i, near, side)
                /\ HeldAt(bars, born, i, near, side) <=> HeldAt(other, born, i, near, side)
                /\ BreachedAt(bars, born, i, near, side) <=> BreachedAt(other, born, i, near, side)
<1> SUFFICES ASSUME NEW born \in Nat, NEW i \in Nat, NEW near, NEW side, 1 <= born, i <= t
             PROVE  /\ WorkedTo(bars, born, i, near, side) <=> WorkedTo(other, born, i, near, side)
                    /\ HeldAt(bars, born, i, near, side) <=> HeldAt(other, born, i, near, side)
                    /\ BreachedAt(bars, born, i, near, side) <=> BreachedAt(other, born, i, near, side)
  BY Zenon
<1>1. /\ \A j \in born..i : bars[j] = other[j] /\ \A k \in j..i : bars[k] = other[k]
      /\ \A j \in born..i : \A k \in j..(i - 1) : bars[k] = other[k]
      /\ \A j \in born..i : bars[i] = other[i]
      /\ i - 1 >= born => bars[i - 1] = other[i - 1] /\ bars[i] = other[i]
  <2>1. /\ \A j \in born..i : j \in 1..t /\ \A k \in j..i : k \in 1..t
        /\ \A j \in born..i : \A k \in j..(i - 1) : k \in 1..t
        /\ \A j \in born..i : i \in 1..t
        /\ i - 1 >= born => i - 1 \in 1..t /\ i \in 1..t
    OBVIOUS
  <2> QED  BY <2>1
<1>2. WorkedTo(bars, born, i, near, side) <=> WorkedTo(other, born, i, near, side)
  BY <1>1, Zenon DEF WorkedTo
<1>3. HeldAt(bars, born, i, near, side) <=> HeldAt(other, born, i, near, side)
  BY <1>1, Zenon DEF HeldAt
<1>4. BreachedAt(bars, born, i, near, side) <=> BreachedAt(other, born, i, near, side)
  BY <1>1, Zenon DEF BreachedAt
<1> QED  BY <1>2, <1>3, <1>4

LEMMA BookCarries ==
  ASSUME NEW bars, NEW other, NEW t \in Nat, \A i \in 1..t : bars[i] = other[i],
         NEW b, BookOK(b, bars, t)
  PROVE  BookOK(b, other, t)
<1>1. \A e : SaidRight(e, bars, t) => SaidRight(e, other, t)
  BY SameTape DEF SaidRight
<1>2. ASSUME NEW ep, NEW born, NEW near, NEW far, NEW side, NEW of, NEW said,
             Judged(ep, born, near, far, side, bars, t), Told(of, born, near, far, side, bars, t, said)
      PROVE  Judged(ep, born, near, far, side, other, t) /\ Told(of, born, near, far, side, other, t, said)
  <2>1. born \in Nat /\ 1 <= born
    BY <1>2 DEF Judged
  <2>2. /\ \A i \in born..t : i \in Nat /\ i <= t
        /\ born <= t => t \in 1..t
    BY <2>1
  <2>3. /\ WorkedTo(bars, born, t, near, side) <=> WorkedTo(other, born, t, near, side)
        /\ \A i \in born..t :
             /\ HeldAt(bars, born, i, near, side) <=> HeldAt(other, born, i, near, side)
             /\ BreachedAt(bars, born, i, far, side) <=> BreachedAt(other, born, i, far, side)
    <3>1. t <= t
      OBVIOUS
    <3> QED  BY <2>1, <2>2, <3>1, SameTape
  <2>4. born <= t => bars[t] = other[t]
    BY <2>2
  <2>5. Told(of, born, near, far, side, other, t, said)
    BY <1>2, <2>3 DEF Told
  <2>6. Judged(ep, born, near, far, side, other, t)
    BY <1>2, <2>3, <2>4 DEF Judged
  <2> QED  BY <2>5, <2>6
<1>3. Base(b, other, t)
  BY <1>1 DEF BookOK, Base
<1>4. FlipsJudged(b, other, t)
  BY <1>2 DEF BookOK, FlipsJudged, FlipJudged
<1>5. ZonesJudged(b, other, t)
  BY <1>2 DEF BookOK, ZonesJudged, ZoneJudged
<1> QED  BY <1>3, <1>4, <1>5 DEF BookOK

-----------------------------------------------------------------------------
(***************************************************************************)
(* A whole tape.                                                           *)
(***************************************************************************)
Replays(g, bars, w, n) ==
  g = [t \in 0..n |-> IF t = 0 THEN EmptyBook ELSE JudgeMinute(g[t - 1], bars, t, w)]

LEMMA ReplayExists == ASSUME NEW bars, NEW w PROVE \A n \in Nat : \E g : Replays(g, bars, w, n)
<1> DEFINE S == {n \in Nat : \E g : Replays(g, bars, w, n)}
<1>1. 0 \in S
  <2>1. Replays([t \in 0..0 |-> EmptyBook], bars, w, 0)
    BY DEF Replays
  <2> QED  BY <2>1
<1>2. ASSUME NEW n \in Nat, n \in S PROVE n + 1 \in S
  <2>1. PICK g : Replays(g, bars, w, n)
    BY <1>2
  <2> DEFINE h == [t \in 0..(n + 1) |-> IF t = n + 1 THEN JudgeMinute(g[n], bars, n + 1, w) ELSE g[t]]
  <2>2. \A t \in 0..(n + 1) : h[t] = IF t = 0 THEN EmptyBook ELSE JudgeMinute(h[t - 1], bars, t, w)
    <3> SUFFICES ASSUME NEW t \in 0..(n + 1)
                 PROVE  h[t] = IF t = 0 THEN EmptyBook ELSE JudgeMinute(h[t - 1], bars, t, w)
      OBVIOUS
    <3>1. CASE t = n + 1
      <4>1. h[n] = g[n] /\ t # 0 /\ t - 1 = n
        BY <3>1
      <4> QED  BY <3>1, <4>1
    <3>2. CASE t # n + 1
      <4>1. t \in 0..n /\ h[t] = g[t] /\ (t # 0 => t - 1 \in 0..n /\ h[t - 1] = g[t - 1])
        BY <3>2
      <4>2. g[t] = IF t = 0 THEN EmptyBook ELSE JudgeMinute(g[t - 1], bars, t, w)
        BY <2>1, <4>1 DEF Replays
      <4> HIDE DEF h
      <4> QED  BY <4>1, <4>2
    <3> QED  BY <3>1, <3>2
  <2>3. Replays(h, bars, w, n + 1)
    <3>1. h = [t \in 0..(n + 1) |-> h[t]]
      OBVIOUS
    <3> HIDE DEF h
    <3> QED  BY <2>2, <3>1 DEF Replays
  <2> QED  BY <2>3
<1> HIDE DEF S
<1>3. \A n \in Nat : n \in S
  BY <1>1, <1>2, Upward
<1> QED  BY <1>3 DEF S

LEMMA BarsAreGood == \A bar \in Prints : GoodBar(bar)
  BY BookAssumption DEF GoodBar

\* A replay leaves a book that is as ruled, and its last minute was judged on one.
LEMMA BuildLaw ==
  ASSUME NEW bars \in Seq(Prints), NEW w
  PROVE  /\ BookOK(Build(bars, w), bars, Len(bars))
         /\ Len(bars) # 0 =>
              \E d : /\ BookOK(d, bars, Len(bars) - 1)
                     /\ Build(bars, w) = JudgeMinute(d, bars, Len(bars), w)
<1> DEFINE n == Len(bars)
           g == CHOOSE h : Replays(h, bars, w, n)
<1>1. n \in Nat
  OBVIOUS
<1>2. Replays(g, bars, w, n)
  BY <1>1, ReplayExists
<1>3. Build(bars, w) = g[n]
  BY DEF Build, Replays
<1> HIDE DEF g
<1>4. g[0] = EmptyBook /\ \A t \in 1..n : g[t] = JudgeMinute(g[t - 1], bars, t, w)
  BY <1>1, <1>2 DEF Replays
<1> DEFINE S == {t \in Nat : t <= n => BookOK(g[t], bars, t)}
<1>5. 0 \in S
  BY <1>4, EmptyLaw
<1>6. ASSUME NEW t \in Nat, t \in S PROVE t + 1 \in S
  <2> SUFFICES ASSUME t + 1 <= n PROVE BookOK(g[t + 1], bars, t + 1)
    OBVIOUS
  <2>1. t + 1 \in 1..n /\ t + 1 - 1 = t /\ t <= n
    BY <1>1
  <2>2. GoodBar(bars[t + 1])
    BY <2>1, BarsAreGood
  <2>3. BookOK(g[t], bars, t)
    BY <1>6, <2>1
  <2>4. g[t + 1] = JudgeMinute(g[t], bars, t + 1, w)
    BY <1>4, <2>1
  <2> QED  BY <2>2, <2>3, <2>4, MinuteLaw
<1> HIDE DEF S
<1>7. \A t \in Nat : t \in S
  BY <1>5, <1>6, Upward
<1>8. n \in S /\ n <= n
  BY <1>1, <1>7
<1>9. ASSUME n # 0 PROVE BookOK(g[n - 1], bars, n - 1) /\ g[n] = JudgeMinute(g[n - 1], bars, n, w)
  <2>1. n - 1 \in Nat /\ n - 1 <= n /\ n \in 1..n
    BY <1>1, <1>9
  <2>2. n - 1 \in S
    BY <1>7, <2>1
  <2> QED  BY <1>4, <2>1, <2>2 DEF S
<1> QED  BY <1>3, <1>8, <1>9 DEF S

-----------------------------------------------------------------------------
(***************************************************************************)
(* The specification.                                                      *)
(***************************************************************************)
RuledInv == minutes \in Seq(Prints) /\ BookOK(levels, minutes, Len(minutes))

LEMMA RuledAlways == LevelSpec => []RuledInv
<1>1. LevelInit => RuledInv
  <2> SUFFICES ASSUME LevelInit PROVE RuledInv
    OBVIOUS
  <2>1. minutes = <<>> /\ levels = EmptyBook
    BY DEF LevelInit
  <2>2. minutes \in Seq(Prints) /\ Len(minutes) = 0
    BY <2>1
  <2> QED  BY <2>1, <2>2, EmptyLaw DEF RuledInv
<1>2. RuledInv /\ [LevelNext]_lbVars => RuledInv'
  <2> SUFFICES ASSUME RuledInv, [LevelNext]_lbVars PROVE RuledInv'
    OBVIOUS
  <2>1. ASSUME UNCHANGED <<minutes, levels>> PROVE RuledInv'
    BY <2>1 DEF RuledInv
  <2>2. ASSUME NEW bar \in Prints
        PROVE  LET longer == Append(minutes, bar)
               IN /\ longer \in Seq(Prints) /\ Len(longer) = Len(minutes) + 1 /\ Len(minutes) \in Nat
                  /\ longer[Len(minutes) + 1] = bar
                  /\ \A i \in 1..Len(minutes) : minutes[i] = longer[i]
    BY <2>2 DEF RuledInv
  <2>3. CASE MinuteCloses
    <3>1. PICK bar \in Prints : /\ minutes' = Append(minutes, bar)
                                /\ levels' = JudgeMinute(levels, minutes', Len(minutes'), zoneWidth)
      BY <2>3 DEF MinuteCloses
    <3> DEFINE t == Len(minutes)
    <3>2. /\ minutes' \in Seq(Prints) /\ Len(minutes') = t + 1 /\ t \in Nat /\ minutes'[t + 1] = bar
          /\ \A i \in 1..t : minutes[i] = minutes'[i]
      BY <2>2, <3>1
    <3>3. GoodBar(minutes'[t + 1])
      BY <3>2, BarsAreGood
    <3>4. BookOK(levels, minutes', t)
      <4>1. BookOK(levels, minutes, t)
        BY DEF RuledInv
      <4> HIDE DEF t
      <4> QED  BY <3>2, <4>1, BookCarries
    <3>5. BookOK(JudgeMinute(levels, minutes', t + 1, zoneWidth), minutes', t + 1)
      <4> HIDE DEF t
      <4> QED  BY <3>2, <3>3, <3>4, MinuteLaw
    <3> HIDE DEF t
    <3> QED  BY <3>1, <3>2, <3>5 DEF RuledInv
  <2>4. CASE HourCloses
    <3>1. PICK bar \in Prints : /\ minutes' = Append(minutes, bar)
                                /\ levels' = Build(minutes', zoneWidth')
      BY <2>4 DEF HourCloses
    <3>2. minutes' \in Seq(Prints)
      BY <2>2, <3>1
    <3>3. BookOK(Build(minutes', zoneWidth'), minutes', Len(minutes'))
      BY <3>2, BuildLaw
    <3> QED  BY <3>1, <3>2, <3>3 DEF RuledInv
  <2>5. CASE Sync \/ SyncFails \/ EngineRestarts \/ UNCHANGED lbVars
    BY <2>1, <2>5 DEF Sync, SyncFails, EngineRestarts, lbVars
  <2> QED  BY <2>3, <2>4, <2>5 DEF LevelNext
<1> QED  BY <1>1, <1>2, PTL DEF LevelSpec

\* A level is in one zone: levels that are linked to one are linked to each other.
LEMMA ZonesApart ==
  ASSUME NEW live \in SUBSET Formed, NEW w, NEW y \in Zones(live, w), NEW z \in Zones(live, w), y # z
  PROVE  y \cap z = {}
<1>1. CASE w = 0
  BY <1>1 DEF Zones
<1>2. CASE w # 0
  <2> DEFINE zone(l) == {m \in live : Linked(l, m, live, w)}
  <2>0. \A x \in live : x.price \in Int
    BY FormedLaw
  <2>1. ASSUME NEW k \in live, NEW l \in live, NEW m \in live, Linked(k, m, live, w), Linked(l, m, live, w)
        PROVE  zone(k) \subseteq zone(l)
    <3> SUFFICES ASSUME NEW n \in live, Linked(k, n, live, w) PROVE Linked(l, n, live, w)
      OBVIOUS
    <3>1. k.price \in Int /\ l.price \in Int /\ m.price \in Int /\ n.price \in Int
      BY <2>0
    <3> DEFINE Steps(x) == \E v \in live : x.price < v.price /\ v.price <= x.price + w
               Between(a, b, x) == \/ a.price <= x.price /\ x.price < b.price
                                   \/ b.price <= x.price /\ x.price < a.price
    <3>2. ASSUME NEW a \in live, NEW b \in live
          PROVE  Linked(a, b, live, w) <=> \A x \in live : Between(a, b, x) => Steps(x)
      <4>1. a.price \in Int /\ b.price \in Int
        BY <2>0
      <4>2. ASSUME NEW x \in live
            PROVE  Between(a, b, x) <=> /\ (IF a.price <= b.price THEN a.price ELSE b.price) <= x.price
                                        /\ x.price < (IF a.price <= b.price THEN b.price ELSE a.price)
        BY <2>0, <4>1
      <4> HIDE DEF Between, Steps
      <4> QED  BY <4>2 DEF Linked, Steps
    <3>3. ASSUME NEW x \in live, Between(l, n, x)
          PROVE  Between(l, m, x) \/ Between(k, m, x) \/ Between(k, n, x)
      <4>1. x.price \in Int
        BY <2>0
      <4> QED  BY <3>1, <3>3, <4>1
    <3> HIDE DEF Between, Steps
    <3> QED  BY <2>1, <3>2, <3>3
  <2>2. PICK k \in live : y = zone(k)
    BY <1>2 DEF Zones
  <2>3. PICK l \in live : z = zone(l)
    BY <1>2 DEF Zones
  <2>4. ASSUME NEW m, m \in y, m \in z PROVE FALSE
    <3>1. m \in live /\ Linked(k, m, live, w) /\ Linked(l, m, live, w)
      BY <2>2, <2>3, <2>4
    <3>2. zone(k) \subseteq zone(l) /\ zone(l) \subseteq zone(k)
      BY <2>1, <3>1
    <3> HIDE DEF zone
    <3> QED  BY <2>2, <2>3, <3>2
  <2> HIDE DEF zone
  <2> QED  BY <2>4
<1> QED  BY <1>1, <1>2

\* A zone under judgement is of live levels and is not broken.
Homes(b) == \A z \in DOMAIN b.episodes : z \subseteq b.live /\ ~b.episodes[z].ep.dead

LEMMA RezoneZones ==
  ASSUME NEW b, IsBook(b), NEW bar, NEW t, NEW w
  PROVE  DOMAIN Rezone(b, bar, t, w).episodes \subseteq Zones(Rezone(b, bar, t, w).live, w)
<1> DEFINE live == b.live \cup {l \in Formed : SessionEnds[l] <= t /\ l \notin b.dead}
           judged == {z \in Zones(live, w) : z \in DOMAIN b.episodes \/ ZoneSide(z, bar.open) # {}}
           E == [z \in judged |-> IF z \in DOMAIN b.episodes THEN b.episodes[z]
                                  ELSE [side |-> CHOOSE s \in ZoneSide(z, bar.open) : TRUE,
                                        ep |-> NewEpisode, born |-> t]]
           r == Rezone(b, bar, t, w)
<1>1. r = [b EXCEPT !.live = live, !.episodes = E]
  BY DEF Rezone
<1>2. DOMAIN E = judged /\ judged \subseteq Zones(live, w)
  OBVIOUS
<1> HIDE DEF live, judged, E, r
<1>3. r.live = live /\ r.episodes = E
  BY <1>1 DEF IsBook
<1> QED  BY <1>2, <1>3 DEF r

LEMMA JudgedHomes ==
  ASSUME NEW bars, NEW t, NEW b, NEW w, Base(b, bars, t), NEW n, ZonesJudged(b, bars, n),
         DOMAIN b.episodes \subseteq Zones(b.live, w), NEW bar
  PROVE  Homes(JudgeZones(b, bar, t))
<1> DEFINE r == JudgeZones(b, bar, t)
           O == b.episodes
           now(z) == Step(O[z].ep, bar, NearOf(z, O[z].side), FarOf(z, O[z].side), O[z].side)
           broken == {z \in DOMAIN O : now(z).dead}
           E == [z \in DOMAIN O \ broken |-> [O[z] EXCEPT !.ep = now(z)]]
           live2 == b.live \ UNION broken
<1>1. \E dead2, flipped2, said2 :
        r = [b EXCEPT !.episodes = E, !.live = live2, !.dead = dead2, !.flipped = flipped2, !.said = said2]
  BY Zenon DEF JudgeZones, NearOf, FarOf
<1>2. broken \subseteq DOMAIN O /\ \A z \in DOMAIN O \ broken : ~now(z).dead
  OBVIOUS
<1> HIDE DEF now, broken, r, live2
<1>3. r.episodes = E /\ r.live = live2
  <2>1. IsBook(b)
    BY DEF Base
  <2> HIDE DEF E
  <2> QED  BY <1>1, <2>1 DEF IsBook
<1>4. ASSUME NEW z \in DOMAIN O \ broken PROVE z \subseteq live2 /\ E[z].ep = now(z)
  <2>1. b.live \in SUBSET Formed
    BY DEF Base
  <2>2. z \in Zones(b.live, w) /\ z \subseteq b.live
    BY <2>1, ZonesOf
  <2>3. \A y \in broken : y \cap z = {}
    BY <1>2, <2>1, <2>2, ZonesApart
  <2>4. "ep" \in DOMAIN O[z]
    <3>1. O[z] = [side |-> O[z].side, ep |-> O[z].ep, born |-> O[z].born]
      BY DEF ZonesJudged, ZoneJudged
    <3> DEFINE x == O[z]
    <3>2. x = [side |-> x.side, ep |-> x.ep, born |-> x.born]
      BY <3>1
    <3> HIDE DEF x
    <3>3. "ep" \in DOMAIN x
      BY <3>2
    <3> QED  BY <3>3 DEF x
  <2>5. E[z].ep = now(z)
    <3>1. E[z] = [O[z] EXCEPT !.ep = now(z)]
      OBVIOUS
    <3> HIDE DEF E, O
    <3> QED  BY <2>4, <3>1
  <2> QED  BY <2>2, <2>3, <2>5 DEF live2
<1>5. DOMAIN E = DOMAIN O \ broken
  OBVIOUS
<1> HIDE DEF E
<1> QED  BY <1>2, <1>3, <1>4, <1>5 DEF Homes, r

\* However the zones were before the minute, those it leaves are of live levels.
LEMMA HomesLaw ==
  ASSUME NEW bars, NEW t \in Nat, GoodBar(bars[t + 1]), NEW b, BookOK(b, bars, t), NEW w
  PROVE  Homes(JudgeMinute(b, bars, t + 1, w))
<1> DEFINE i == t + 1
           b1 == Traverse(b, bars, i)
           b2 == JudgeFlips(b1, bars[i], i)
           b3 == Rezone(b2, bars[i], i, w)
<1>1. BookOK(b1, bars, t)
  BY TraverseLaw
<1> HIDE DEF b1
<1>2. Base(b2, bars, t + 1) /\ FlipsJudged(b2, bars, t + 1) /\ ZonesJudged(b2, bars, t)
  BY <1>1, FlipsLaw
<1> HIDE DEF b2
<1>3. Base(b3, bars, t + 1) /\ ZonesJudged(b3, bars, t)
  BY <1>2, RezoneLaw
<1>4. DOMAIN b3.episodes \subseteq Zones(b3.live, w)
  <2>1. IsBook(b2)
    BY <1>2 DEF Base
  <2> QED  BY <2>1, RezoneZones
<1> HIDE DEF b3
<1>5. Homes(JudgeZones(b3, bars[t + 1], t + 1))
  BY <1>3, <1>4, JudgedHomes
<1> QED  BY <1>5 DEF JudgeMinute, b1, b2, b3

\* The counts and the ledger.
BookShaped ==
    /\ Len(minutes) <= MaxMinutes /\ zoneWidth \in Widths /\ upsets \in 0..MaxUpsets
    /\ synced \in 0..Len(minutes) /\ Homes(levels)
    /\ ledger \in [AllLevels -> {"none", "live", "TRAVERSED", "BREACHED", "NOT_A_LEVEL"}]
    /\ swallowed \subseteq AllLevels

LEMMA BookStaysShaped == LevelSpec => []BookShaped
<1>1. LevelInit => BookShaped
  <2> SUFFICES ASSUME LevelInit PROVE BookShaped
    OBVIOUS
  <2>1. DOMAIN EmptyBook.episodes = {}
    BY DEF EmptyBook
  <2>2. Len(minutes) = 0 /\ levels = EmptyBook
    BY DEF LevelInit
  <2>3. 0 \in 0..MaxUpsets /\ 0 <= MaxMinutes
    BY BookAssumption
  <2> QED  BY <2>1, <2>2, <2>3 DEF LevelInit, BookShaped, Homes
<1>2. RuledInv /\ RuledInv' /\ BookShaped /\ [LevelNext]_lbVars => BookShaped'
  <2> SUFFICES ASSUME RuledInv, RuledInv', BookShaped, [LevelNext]_lbVars PROVE BookShaped'
    OBVIOUS
  <2>0. /\ Len(minutes) \in Nat /\ synced \in 0..Len(minutes) /\ upsets \in 0..MaxUpsets
        /\ MaxMinutes \in Nat /\ MaxUpsets \in Nat
    BY BookAssumption DEF RuledInv, BookShaped
  <2>1. ASSUME NEW bar \in Prints, minutes' = Append(minutes, bar)
        PROVE  /\ Len(minutes') = Len(minutes) + 1 /\ minutes'[Len(minutes) + 1] = bar
               /\ minutes' \in Seq(Prints) /\ \A i \in 1..Len(minutes) : minutes[i] = minutes'[i]
    BY <2>1 DEF RuledInv
  <2>2. CASE MinuteCloses
    <3>1. PICK bar \in Prints : /\ minutes' = Append(minutes, bar)
                                /\ levels' = JudgeMinute(levels, minutes', Len(minutes'), zoneWidth)
      BY <2>2 DEF MinuteCloses
    <3> DEFINE t == Len(minutes)
    <3>2. Len(minutes') = t + 1 /\ GoodBar(minutes'[t + 1]) /\ \A i \in 1..t : minutes[i] = minutes'[i]
      BY <2>1, <3>1, BarsAreGood
    <3>3. BookOK(levels, minutes, t) /\ t \in Nat
      BY <2>0 DEF RuledInv
    <3> HIDE DEF t
    <3>4. BookOK(levels, minutes', t)
      BY <3>2, <3>3, BookCarries
    <3>5. Homes(JudgeMinute(levels, minutes', t + 1, zoneWidth))
      BY <3>2, <3>3, <3>4, HomesLaw
    <3>6. Homes(levels')
      BY <3>1, <3>2, <3>5 DEF Homes
    <3>7. /\ Len(minutes) < MaxMinutes /\ synced' = synced /\ zoneWidth' = zoneWidth /\ ledger' = ledger
          /\ swallowed' = swallowed
          /\ upsets' = upsets \/ (upsets < MaxUpsets /\ upsets' = upsets + 1)
      BY <2>2 DEF MinuteCloses, engineVars
    <3>8. Len(minutes') <= MaxMinutes /\ upsets' \in 0..MaxUpsets /\ synced' \in 0..Len(minutes')
      BY <2>0, <3>2, <3>7 DEF t
    <3> QED  BY <3>6, <3>7, <3>8 DEF BookShaped, Homes
  <2>3. CASE HourCloses
    <3>1. PICK bar \in Prints : /\ minutes' = Append(minutes, bar)
                                /\ levels' = Build(minutes', zoneWidth')
      BY <2>3 DEF HourCloses
    <3> DEFINE t == Len(minutes)
    <3>2. Len(minutes') = t + 1 /\ GoodBar(minutes'[t + 1]) /\ minutes' \in Seq(Prints) /\ t \in Nat
      BY <2>0, <2>1, <3>1, BarsAreGood
    <3> HIDE DEF t
    <3>3. Len(minutes') # 0 /\ Len(minutes') - 1 = t
      BY <3>2
    <3>4. PICK d : /\ BookOK(d, minutes', t)
                   /\ Build(minutes', zoneWidth') = JudgeMinute(d, minutes', t + 1, zoneWidth')
      BY <3>2, <3>3, BuildLaw
    <3>5. Homes(JudgeMinute(d, minutes', t + 1, zoneWidth'))
      BY <3>2, <3>4, HomesLaw
    <3>6. Homes(levels')
      BY <3>1, <3>4, <3>5 DEF Homes
    <3>7. /\ Len(minutes) < MaxMinutes /\ synced' = synced /\ zoneWidth' \in Widths /\ ledger' = ledger
          /\ swallowed' = swallowed
          /\ upsets < MaxUpsets /\ upsets' = upsets + 1
      BY <2>3 DEF HourCloses, engineVars
    <3>8. Len(minutes') <= MaxMinutes /\ upsets' \in 0..MaxUpsets /\ synced' \in 0..Len(minutes')
      BY <2>0, <3>2, <3>7 DEF t
    <3> QED  BY <3>6, <3>7, <3>8 DEF BookShaped, Homes
  <2>4. CASE Sync
    <3>1. /\ UNCHANGED <<minutes, zoneWidth, levels>> /\ synced' = Len(minutes)
          /\ upsets' \in upsets..MaxUpsets
      BY <2>4 DEF Sync
    <3>2. PICK lost \in SUBSET AllLevels :
            /\ ledger' = [l \in AllLevels |-> IF l \in lost THEN ledger[l] ELSE LedgerDue[l]]
            /\ swallowed' = lost \cup (swallowed \cap levels.live \cap bookLive)
      BY <2>4 DEF Sync
    <3>3. \A l \in AllLevels : ledger[l] \in {"none", "live", "TRAVERSED", "BREACHED", "NOT_A_LEVEL"}
      BY DEF BookShaped
    <3>4. \A l \in AllLevels : LedgerDue[l] \in {"none", "live", "TRAVERSED", "BREACHED", "NOT_A_LEVEL"}
      BY <3>3 DEF LedgerDue, Why
    <3>5. ledger' \in [AllLevels -> {"none", "live", "TRAVERSED", "BREACHED", "NOT_A_LEVEL"}]
      BY <3>2, <3>3, <3>4
    <3>6. swallowed' \subseteq AllLevels
      BY <3>2 DEF BookShaped
    <3>7. upsets' \in 0..MaxUpsets /\ synced' \in 0..Len(minutes')
      BY <2>0, <3>1
    <3> QED  BY <3>1, <3>5, <3>6, <3>7 DEF BookShaped, Homes
  <2>5. CASE SyncFails \/ EngineRestarts
    <3>1. /\ UNCHANGED <<minutes, zoneWidth, levels, ledger>> /\ upsets < MaxUpsets /\ upsets' = upsets + 1
          /\ synced' \in {0, Len(minutes)} /\ swallowed' \in {{}, swallowed}
      BY <2>5 DEF SyncFails, EngineRestarts
    <3>2. upsets' \in 0..MaxUpsets /\ synced' \in 0..Len(minutes')
      BY <2>0, <3>1
    <3> QED  BY <3>1, <3>2 DEF BookShaped, Homes
  <2>6. CASE UNCHANGED lbVars
    BY <2>6 DEF lbVars, engineVars, BookShaped, Homes
  <2> QED  BY <2>2, <2>3, <2>4, <2>5, <2>6 DEF LevelNext
<1> QED  BY <1>1, <1>2, RuledAlways, PTL DEF LevelSpec

\* The book's parts do not overlap: a level is live or dead, in one zone at most, and a zone that is
\* judged is of live levels, whatever sessions close, widths change and ranges pass (level_book.build).
THEOREM LevelsAreTyped == LevelSpec => []LevelTypeOK
<1>1. RuledInv /\ BookShaped => LevelTypeOK
  <2> SUFFICES ASSUME RuledInv, BookShaped PROVE LevelTypeOK
    OBVIOUS
  <2>1. Base(levels, minutes, Len(minutes)) /\ ZonesJudged(levels, minutes, Len(minutes))
    BY DEF RuledInv, BookOK
  <2>2. levels.live \subseteq Formed /\ levels.live \cap levels.dead = {}
        /\ DOMAIN levels.flipped \cap levels.flipDead = {}
    BY <2>1 DEF Base
  <2>3. \A z \in DOMAIN levels.episodes : z # {} /\ z \subseteq levels.live /\ ~levels.episodes[z].ep.dead
    BY <2>1 DEF ZonesJudged, ZoneJudged, BookShaped, Homes
  <2> QED  BY <2>2, <2>3 DEF LevelTypeOK, BookShaped
<1> QED  BY <1>1, RuledAlways, BookStaysShaped, PTL

\* On every tape of well-formed minutes, however the sessions close, the zones are redrawn, the width
\* changes and the range passes: what the book has said was so, of what it still judges it has said
\* all that was so, and of what was broken it says no more.
THEOREM BookIsAlwaysRuled == LevelSpec => []BookIsAsRuled
<1>1. RuledInv => BookIsAsRuled
  <2> SUFFICES ASSUME RuledInv PROVE BookIsAsRuled
    OBVIOUS
  <2>1. /\ Base(levels, minutes, Len(minutes))
        /\ FlipsJudged(levels, minutes, Len(minutes)) /\ ZonesJudged(levels, minutes, Len(minutes))
    BY DEF RuledInv, BookOK
  <2>2. SaidAsRuled
    BY <2>1 DEF SaidAsRuled, Base, SaidRight
  <2>3. DeadIsSilent
    BY <2>1 DEF DeadIsSilent, Base, Silent
  <2>4. ASSUME NEW x \in Objects, NEW i \in x.born..Len(minutes)
        PROVE  /\ ~BreachedAt(minutes, x.born, i, x.far, x.side)
               /\ HeldAt(minutes, x.born, i, x.near, x.side) =>
                    Event(x.of, x.side, x.near, x.far, x.born, i, "HELD") \in levels.said
    <3>1. CASE \E z \in DOMAIN levels.episodes :
                 x = Event(z, levels.episodes[z].side, NearOf(z, levels.episodes[z].side),
                           FarOf(z, levels.episodes[z].side), levels.episodes[z].born, 0, "")
      <4>1. PICK z \in DOMAIN levels.episodes :
                   x = Event(z, levels.episodes[z].side, NearOf(z, levels.episodes[z].side),
                           FarOf(z, levels.episodes[z].side), levels.episodes[z].born, 0, "")
        BY <3>1
      <4> DEFINE o == levels.episodes[z]
                 near == NearOf(z, o.side)
                 far == FarOf(z, o.side)
      <4>2. x.of = z /\ x.side = o.side /\ x.near = near /\ x.far = far /\ x.born = o.born
        <5> HIDE DEF o, near, far
        <5> QED  BY <4>1 DEF Event, o, near, far
      <4>3. ZoneJudged(o, z, minutes, Len(minutes), levels.said)
        BY <2>1 DEF ZonesJudged
      <4>4. /\ Judged(o.ep, o.born, near, far, o.side, minutes, Len(minutes))
            /\ Told(z, o.born, near, far, o.side, minutes, Len(minutes), levels.said)
        BY <4>3 DEF ZoneJudged
      <4> HIDE DEF o, near, far
      <4> QED  BY <4>2, <4>4 DEF Judged, Told
    <3>2. CASE \E f \in DOMAIN levels.flipped :
                 x = Event({f}, f.side, f.price, f.price, levels.flipped[f].born, 0, "")
      <4>1. PICK f \in DOMAIN levels.flipped :
                   x = Event({f}, f.side, f.price, f.price, levels.flipped[f].born, 0, "")
        BY <3>2
      <4> DEFINE o == levels.flipped[f]
      <4>2. x.of = {f} /\ x.side = f.side /\ x.near = f.price /\ x.far = f.price /\ x.born = o.born
        <5> HIDE DEF o
        <5> QED  BY <4>1 DEF Event, o
      <4>3. FlipJudged(o, f, minutes, Len(minutes), levels.said)
        BY <2>1 DEF FlipsJudged
      <4>4. /\ Judged(o.ep, o.born, f.price, f.price, f.side, minutes, Len(minutes))
            /\ Told({f}, o.born, f.price, f.price, f.side, minutes, Len(minutes), levels.said)
        BY <4>3 DEF FlipJudged
      <4> HIDE DEF o
      <4> QED  BY <4>2, <4>4 DEF Judged, Told
    <3> QED  BY <3>1, <3>2, Zenon DEF Objects, NearOf, FarOf
  <2>5. RuledIsSaid
    BY <2>4 DEF RuledIsSaid
  <2> QED  BY <2>2, <2>3, <2>5 DEF BookIsAsRuled
<1> QED  BY <1>1, RuledAlways, PTL

\* What this process has published as live and not retired since is live in the ledger, but for the
\* rows the store swallowed.
LedgerInv == \A l \in bookLive \cap Formed : ledger[l] = "live" \/ l \in swallowed

\* What a sync means to leave in the ledger: live is only what the book has, and of the levels the book
\* has those that are new and those whose row was live.
LEMMA DueLaw ==
  ASSUME RuledInv
  PROVE  /\ levels.live \subseteq Formed \cap AllLevels
         /\ DOMAIN levels.flipped \cap Formed = {}
         /\ \A l \in AllLevels : LedgerDue[l] = "live" => l \in levels.live \cup DOMAIN levels.flipped
         /\ \A l \in levels.live : l \notin bookLive \/ ledger[l] = "live" => LedgerDue[l] = "live"
<1> DEFINE kept == levels.live \cup DOMAIN levels.flipped
           flips == {s[1] : s \in FlipStates \ flipsWritten}
           after == [l \in AllLevels |-> IF l \in levels.live \ bookLive THEN "live" ELSE ledger[l]]
           gone == RetiresFrom(after) \ kept
<1>1. ASSUME NEW l \in AllLevels
      PROVE  LedgerDue[l] = IF l \in gone THEN Why(l)
                      ELSE IF l \in flips THEN IF l \in levels.flipDead THEN Why(l) ELSE "live"
                      ELSE after[l]
  BY DEF LedgerDue
<1>2. /\ levels.live \subseteq Formed /\ DOMAIN levels.flipped \subseteq Flips
      /\ levels.flipDead \subseteq Flips /\ Formed \cap Flips = {}
      /\ \A e \in levels.said : e.what = "FLIPPED" => e.of \subseteq DOMAIN levels.flipped \cup levels.flipDead
  BY FormedLaw DEF RuledInv, BookOK, Base
<1>3. \A l : Why(l) # "live"
  BY DEF Why
<1>4. ASSUME NEW l \in flips PROVE l \in DOMAIN levels.flipped \cup levels.flipDead
  <2>1. PICK s \in FlipStates : l = s[1]
    OBVIOUS
  <2>2. PICK f : s = <<f, f \in levels.flipDead>> /\ \E e \in levels.said : e.what = "FLIPPED" /\ e.of = {f}
    BY DEF FlipStates
  <2>3. l = f
    BY <2>1, <2>2
  <2> QED  BY <1>2, <2>2, <2>3
<1>5. ASSUME NEW l \in AllLevels
      PROVE  /\ after[l] = IF l \in levels.live \ bookLive THEN "live" ELSE ledger[l]
             /\ l \in gone <=> after[l] = "live" /\ l \notin kept
  <2>1. after[l] = IF l \in levels.live \ bookLive THEN "live" ELSE ledger[l]
    OBVIOUS
  <2> HIDE DEF after, kept
  <2> QED  BY <2>1 DEF RetiresFrom
<1> HIDE DEF after, gone, flips
<1>6. ASSUME NEW l \in AllLevels, LedgerDue[l] = "live" PROVE l \in kept
  <2>1. l \notin gone /\ ((l \in flips /\ l \notin levels.flipDead) \/ after[l] = "live")
    BY <1>1, <1>3, <1>6
  <2> QED  BY <1>4, <1>5, <2>1
<1>7. ASSUME NEW l \in levels.live, l \notin bookLive \/ ledger[l] = "live" PROVE LedgerDue[l] = "live"
  <2>1. l \in AllLevels /\ l \in Formed /\ l \notin Flips /\ l \in kept
    BY <1>2 DEF AllLevels
  <2>2. after[l] = "live" /\ l \notin gone /\ l \notin flips
    BY <1>2, <1>4, <1>5, <1>7, <2>1
  <2> QED  BY <1>1, <2>1, <2>2
<1> QED  BY <1>2, <1>6, <1>7 DEF AllLevels

\* One sync, from a ledger that is right about what this process has seen but for the swallowed rows: of
\* whatever it does not swallow itself, and was not swallowed of what it still has live, it is right.
LEMMA SyncLaw ==
  ASSUME RuledInv, LedgerInv, Sync
  PROVE  /\ \A l \in AllLevels \ swallowed' : ledger'[l] = "live" => l \in levels.live \cup DOMAIN levels.flipped
         /\ \A l \in levels.live : l \in AllLevels /\ (ledger'[l] = "live" \/ l \in swallowed')
         /\ levels.live \subseteq Formed /\ DOMAIN levels.flipped \cap Formed = {}
<1>1. PICK lost \in SUBSET AllLevels :
        /\ ledger' = [l \in AllLevels |-> IF l \in lost THEN ledger[l] ELSE LedgerDue[l]]
        /\ swallowed' = lost \cup (swallowed \cap levels.live \cap bookLive)
  BY DEF Sync
<1>2. \A l \in AllLevels : l \notin lost => ledger'[l] = LedgerDue[l]
  BY <1>1
<1>3. ASSUME NEW l \in AllLevels \ swallowed', ledger'[l] = "live"
      PROVE  l \in levels.live \cup DOMAIN levels.flipped
  BY <1>1, <1>2, <1>3, DueLaw
<1>4. ASSUME NEW l \in levels.live, l \notin swallowed' PROVE ledger'[l] = "live"
  <2>1. l \in Formed \cap AllLevels /\ l \notin lost
    BY <1>1, <1>4, DueLaw
  <2>2. l \notin bookLive \/ ledger[l] = "live"
    BY <1>1, <1>4, <2>1 DEF LedgerInv
  <2> QED  BY <1>2, <2>1, <2>2, DueLaw
<1> QED  BY <1>3, <1>4, DueLaw

LEMMA LedgerAlways == LevelSpec => []LedgerInv
<1>1. LevelInit => LedgerInv
  BY DEF LevelInit, LedgerInv
<1>2. RuledInv /\ LedgerInv /\ [LevelNext]_lbVars => LedgerInv'
  <2> SUFFICES ASSUME RuledInv, LedgerInv, [LevelNext]_lbVars PROVE LedgerInv'
    OBVIOUS
  <2>1. CASE Sync
    <3>1. bookLive' = levels.live \cup DOMAIN levels.flipped
      BY <2>1 DEF Sync
    <3> QED  BY <2>1, <3>1, SyncLaw DEF LedgerInv
  <2>2. CASE EngineRestarts
    BY <2>2 DEF EngineRestarts, LedgerInv
  <2>3. CASE MinuteCloses \/ HourCloses \/ SyncFails \/ UNCHANGED lbVars
    BY <2>3 DEF MinuteCloses, HourCloses, SyncFails, engineVars, lbVars, LedgerInv
  <2> QED  BY <2>1, <2>2, <2>3 DEF LevelNext
<1> QED  BY <1>1, <1>2, RuledAlways, PTL DEF LevelSpec

\* After each sync a level is live in the ledger if the book has it live, and only if the book has it or
\* its flip live, whatever was missed before by this process or an earlier one: but for a retirement the
\* store swallowed at this very sync, and a row it swallowed of a level this process has had live since,
\* which LevelEngine._book_sync does not write again.
THEOREM LedgerFollowsTheBook == LevelSpec => LedgerIsTheBook
<1>1. RuledInv /\ LedgerInv /\ [LevelNext]_lbVars =>
        [Sync => \A l \in AllLevels \ swallowed' :
                   /\ ledger'[l] = "live" => l \in levels'.live \cup DOMAIN levels'.flipped
                   /\ l \in levels'.live => ledger'[l] = "live"]_lbVars
  <2> SUFFICES ASSUME RuledInv, LedgerInv, Sync
               PROVE  \A l \in AllLevels \ swallowed' :
                        /\ ledger'[l] = "live" => l \in levels'.live \cup DOMAIN levels'.flipped
                        /\ l \in levels'.live => ledger'[l] = "live"
    OBVIOUS
  <2>1. levels' = levels
    BY DEF Sync
  <2> QED  BY <2>1, SyncLaw
<1> QED  BY <1>1, RuledAlways, LedgerAlways, PTL DEF LevelSpec, LedgerIsTheBook

-----------------------------------------------------------------------------
(***************************************************************************)
(* The opening-range engine: a replay of the session so far.               *)
(***************************************************************************)
\* The engines a replay from d passes through.
Walks(g, d, n) == g = [i \in 0..n |-> IF i = 0 THEN d ELSE Advance(Latch(g[i - 1], i), i)]

LEMMA WalkExists == ASSUME NEW d PROVE \A n \in Nat : \E g : Walks(g, d, n)
<1> DEFINE S == {n \in Nat : \E g : Walks(g, d, n)}
<1>1. 0 \in S
  <2>1. Walks([i \in 0..0 |-> d], d, 0)
    BY DEF Walks
  <2> QED  BY <2>1
<1>2. ASSUME NEW n \in Nat, n \in S PROVE n + 1 \in S
  <2>1. PICK g : Walks(g, d, n)
    BY <1>2
  <2> DEFINE h == [i \in 0..(n + 1) |-> IF i = n + 1 THEN Advance(Latch(g[n], n + 1), n + 1) ELSE g[i]]
  <2>2. \A i \in 0..(n + 1) : h[i] = IF i = 0 THEN d ELSE Advance(Latch(h[i - 1], i), i)
    <3> SUFFICES ASSUME NEW i \in 0..(n + 1)
                 PROVE  h[i] = IF i = 0 THEN d ELSE Advance(Latch(h[i - 1], i), i)
      OBVIOUS
    <3>1. CASE i = n + 1
      <4>1. h[n] = g[n] /\ i # 0 /\ i - 1 = n
        BY <3>1
      <4> QED  BY <3>1, <4>1
    <3>2. CASE i # n + 1
      <4>1. i \in 0..n /\ h[i] = g[i] /\ (i # 0 => i - 1 \in 0..n /\ h[i - 1] = g[i - 1])
        BY <3>2
      <4>2. g[i] = IF i = 0 THEN d ELSE Advance(Latch(g[i - 1], i), i)
        BY <2>1, <4>1 DEF Walks
      <4> HIDE DEF h
      <4> QED  BY <4>1, <4>2
    <3> QED  BY <3>1, <3>2
  <2>3. Walks(h, d, n + 1)
    <3>1. h = [i \in 0..(n + 1) |-> h[i]]
      OBVIOUS
    <3> HIDE DEF h
    <3> QED  BY <2>2, <3>1 DEF Walks
  <2> QED  BY <2>3
<1> HIDE DEF S
<1>3. \A n \in Nat : n \in S
  BY <1>1, <1>2, Upward
<1> QED  BY <1>3 DEF S

LEMMA ReplayWalks ==
  ASSUME NEW d, Newest \in Nat
  PROVE  \E w : /\ w[0] = d /\ Replay(d) = w[Newest]
                /\ \A i \in 1..Newest : w[i] = Advance(Latch(w[i - 1], i), i)
<1> DEFINE w == CHOOSE g : Walks(g, d, Newest)
<1>1. Walks(w, d, Newest)
  BY WalkExists
<1>2. Replay(d) = w[Newest]
  BY DEF Replay, Walks
<1> HIDE DEF w
<1>3. w[0] = d /\ \A i \in 1..Newest : w[i] = Advance(Latch(w[i - 1], i), i)
  BY <1>1 DEF Walks
<1> QED  BY <1>2, <1>3

USE BarsAssumption, SessionAssumption

(***************************************************************************)
(* One bar.                                                                *)
(***************************************************************************)
Reasons == {"none", "runaway", "close_inside", "missed_while_down"}

Data == [state: EngineStates, dir: {-1, 0, 1}, reason: Reasons, seq: Nat, placed: Nat, born: Nat,
         readTs: Nat, aged: BOOLEAN, confirmed: Nat, pending: BOOLEAN, accepted: BOOLEAN,
         inside: BOOLEAN]

\* Everything of an engine but its state, the reason of it and the latches.
Setup(d) == <<d.dir, d.seq, d.placed, d.born, d.readTs, d.aged, d.confirmed>>

Retests(dir, b) == dir * b.open > 1 /\ dir * b.close > 1 /\ Wick(dir, b) <= 1

LEMMA FreshIsData == Fresh \in Data
  BY DEF Fresh, Data, EngineStates, Reasons

LEMMA BarIsShaped ==
  ASSUME tape \in Seq(Bars), NEW i \in 1..Newest
  PROVE  tape[i] \in BarShapes /\ Newest \in Nat
<1>1. tape[i] \in Bars /\ Newest \in Nat
  BY DEF Newest
<1> QED  BY <1>1

LEMMA InsideIsZero == \A s \in {-1, 0, 1} : \A p \in Places : Inside(p) => s * p = 0
  BY DEF Inside, Places

LEMMA TrackLaw ==
  ASSUME NEW d \in Data, NEW b
  PROVE  /\ TrackFifty(d, b) \in Data /\ Setup(TrackFifty(d, b)) = Setup(d)
         /\ \/ TrackFifty(d, b).state = d.state
            \/ /\ d.state = "ARMED" /\ TrackFifty(d, b).state = "INVALIDATED"
               /\ TrackFifty(d, b).accepted
<1>1. CASE TrackFifty(d, b) = d
  BY <1>1
<1>2. CASE TrackFifty(d, b) = [d EXCEPT !.pending = FALSE]
  BY <1>2 DEF Data, Setup
<1>3. CASE TrackFifty(d, b) = [d EXCEPT !.pending = TRUE]
  BY <1>3 DEF Data, Setup
<1>4. CASE d.state = "ARMED" /\ TrackFifty(d, b) = Runaway([d EXCEPT !.accepted = TRUE])
  BY <1>4 DEF Data, Setup, Runaway, EngineStates, Reasons
<1>5. CASE TrackFifty(d, b) = [d EXCEPT !.accepted = TRUE]
  BY <1>5 DEF Data, Setup
<1> QED  BY <1>1, <1>2, <1>3, <1>4, <1>5 DEF TrackFifty

LEMMA LatchLaw ==
  ASSUME NEW d \in Data, NEW i
  PROVE  /\ Latch(d, i) \in Data /\ Setup(Latch(d, i)) = Setup(d)
         /\ \/ Latch(d, i).state = d.state
            \/ d.state = "ARMED" /\ Latch(d, i).state = "INVALIDATED"
<1> DEFINE e == [d EXCEPT !.inside = Inside(tape[i].close)]
<1>1. Inside(tape[i].close) \in BOOLEAN
  BY DEF Inside
<1>2. e \in Data /\ Setup(e) = Setup(d) /\ e.state = d.state
  BY <1>1 DEF Data, Setup
<1>3. Latch(d, i) = TrackFifty(e, tape[i])
  BY DEF Latch
<1> HIDE DEF e
<1> QED  BY <1>2, <1>3, TrackLaw

LEMMA RearmLaw ==
  ASSUME NEW r \in BOOLEAN
  PROVE  /\ Rearm(r) \in Data /\ Rearm(r).state \in {"WAITING", "REENTRY"}
         /\ Rearm(r).placed = 0 /\ Rearm(r).seq = 0
  BY DEF Rearm, Fresh, Data, EngineStates, Reasons

LEMMA BreakLaw ==
  ASSUME tape \in Seq(Bars), NEW d \in Data, NEW i \in 1..Newest
  PROVE  LET r == CheckForBreak(d, i)
         IN \/ r = d
            \/ /\ r \in Data /\ r.state = "ARMED" /\ r.born = i /\ r.readTs = i /\ r.aged = FALSE
               /\ i > 1 /\ ~Inside(tape[i].close) /\ r.dir \in {-1, 1}
               /\ r.seq = d.seq /\ r.placed = d.placed /\ r.reason = d.reason
<1> DEFINE s == IF tape[i].close >= 1 THEN 1 ELSE -1
<1>1. CASE CheckForBreak(d, i) = d
  BY <1>1
<1>2. CASE /\ i > 1 /\ ~Inside(tape[i].close)
           /\ CheckForBreak(d, i) =
                [d EXCEPT !.state = "ARMED", !.dir = s, !.born = i, !.readTs = i, !.aged = FALSE]
  <2>1. s \in {-1, 1} /\ i \in Nat
    BY BarIsShaped
  <2> HIDE DEF s
  <2> QED  BY <1>2, <2>1 DEF Data, EngineStates
<1> QED  BY <1>1, <1>2 DEF CheckForBreak

LEMMA RetestLaw ==
  ASSUME tape \in Seq(Bars), NEW d \in Data, NEW i \in 1..Newest, d.state = "ARMED"
  PROVE  LET r == CheckForRetest(d, i)
             a == d.aged \/ i # d.readTs
         IN /\ r \in Data /\ r.dir = d.dir /\ r.born = d.born /\ r.placed = d.placed
            /\ \/ /\ r.state = "ARMED" /\ r.readTs = i /\ r.aged = a /\ r.seq = d.seq
                  /\ a => (~Retests(d.dir, tape[i]) /\ ~Inside(tape[i].close))
               \/ /\ r.state = "OPEN" /\ a /\ r.confirmed = i /\ r.seq = d.seq + 1
                  /\ Retests(d.dir, tape[i])
               \/ /\ r.state = "INVALIDATED" /\ r.seq = d.seq
<1> DEFINE b == tape[i]
           e == IF i = d.readTs THEN d ELSE [d EXCEPT !.readTs = i, !.aged = TRUE]
           a == d.aged \/ i # d.readTs
<1>1. /\ e \in Data /\ e.state = "ARMED" /\ e.readTs = i /\ e.aged = a /\ e.dir = d.dir
      /\ e.born = d.born /\ e.placed = d.placed /\ e.seq = d.seq
  <2>1. i \in Nat
    BY BarIsShaped
  <2>2. CASE i = d.readTs
    BY <2>2 DEF Data
  <2>3. CASE i # d.readTs
    BY <2>1, <2>3 DEF Data
  <2> QED  BY <2>2, <2>3
<1>2. CheckForRetest(d, i) =
        IF ~e.aged THEN e
        ELSE IF e.accepted THEN Runaway(e)
        ELSE IF Retests(e.dir, b) THEN [e EXCEPT !.state = "OPEN", !.confirmed = i, !.seq = @ + 1]
        ELSE IF e.dir * b.close < 1 THEN [e EXCEPT !.state = "INVALIDATED", !.reason = "close_inside"]
        ELSE e
  BY DEF CheckForRetest, Retests
<1>3. Inside(b.close) => e.dir * b.close < 1
  <2>1. e.dir \in {-1, 0, 1} /\ b.close \in Places
    BY <1>1, BarIsShaped DEF Data, BarShapes
  <2>2. Inside(b.close) => e.dir * b.close = 0
    BY <2>1, InsideIsZero
  <2> QED  BY <2>2
<1> HIDE DEF e, b
<1>4. CASE ~e.aged
  BY <1>1, <1>2, <1>4
<1>5. CASE e.aged /\ e.accepted
  <2>1. CheckForRetest(d, i) = Runaway(e)
    BY <1>2, <1>5
  <2>2. /\ Runaway(e) \in Data /\ Runaway(e).state = "INVALIDATED"
        /\ Runaway(e).dir = e.dir /\ Runaway(e).born = e.born /\ Runaway(e).placed = e.placed
        /\ Runaway(e).seq = e.seq
    BY <1>1 DEF Runaway, Data, EngineStates, Reasons
  <2> QED  BY <1>1, <2>1, <2>2
<1>6. CASE e.aged /\ ~e.accepted /\ Retests(e.dir, b)
  <2>1. CheckForRetest(d, i) = [e EXCEPT !.state = "OPEN", !.confirmed = i, !.seq = @ + 1]
    BY <1>2, <1>6
  <2>2. i \in Nat
    BY BarIsShaped
  <2>3. e.seq \in Nat /\ e.seq + 1 \in Nat
    BY <1>1 DEF Data
  <2> DEFINE opened(q) == [e EXCEPT !.state = "OPEN", !.confirmed = i, !.seq = q]
  <2>4. ASSUME NEW q \in Nat
        PROVE  /\ opened(q) \in Data /\ opened(q).state = "OPEN" /\ opened(q).confirmed = i
               /\ opened(q).seq = q /\ opened(q).dir = e.dir /\ opened(q).born = e.born
               /\ opened(q).placed = e.placed
    BY <1>1, <2>2 DEF Data, EngineStates
  <2>5. CheckForRetest(d, i) = opened(e.seq + 1)
    BY <1>1, <2>1 DEF Data
  <2>6. (d.aged \/ i # d.readTs) /\ Retests(d.dir, tape[i])
    BY <1>1, <1>6 DEF b
  <2> HIDE DEF opened
  <2> QED  BY <1>1, <2>3, <2>4, <2>5, <2>6
<1>7. CASE e.aged /\ ~e.accepted /\ ~Retests(e.dir, b) /\ e.dir * b.close < 1
  <2>1. CheckForRetest(d, i) = [e EXCEPT !.state = "INVALIDATED", !.reason = "close_inside"]
    BY <1>2, <1>7
  <2> QED  BY <1>1, <2>1 DEF Data, EngineStates, Reasons
<1>8. CASE e.aged /\ ~e.accepted /\ ~Retests(e.dir, b) /\ ~(e.dir * b.close < 1)
  <2>1. CheckForRetest(d, i) = e
    BY <1>2, <1>8
  <2> QED  BY <1>1, <1>3, <1>8, <2>1 DEF b
<1> QED  BY <1>4, <1>5, <1>6, <1>7, <1>8

LEMMA RunawayLaw ==
  ASSUME NEW d \in Data
  PROVE  /\ Runaway(d) \in Data /\ Runaway(d).state = "INVALIDATED" /\ Runaway(d).dir = d.dir
         /\ Runaway(d).born = d.born /\ Runaway(d).placed = d.placed /\ Runaway(d).seq = d.seq
  BY DEF Runaway, Data, EngineStates, Reasons

LEMMA AcceptedLaw ==
  ASSUME NEW d \in Data, NEW i \in Nat, d.state = "INVALIDATED", d.accepted
  PROVE  LET r == CheckForRetest(d, i)
         IN r \in Data /\ r.state = "INVALIDATED" /\ r.seq = d.seq /\ r.placed = d.placed
<1> DEFINE e == IF i = d.readTs THEN d ELSE [d EXCEPT !.readTs = i, !.aged = TRUE]
<1>1. /\ e \in Data /\ e.state = "INVALIDATED" /\ e.accepted /\ e.seq = d.seq
      /\ e.placed = d.placed
  BY DEF Data
<1>2. CheckForRetest(d, i) \in {e, Runaway(e)}
  BY <1>1 DEF CheckForRetest
<1> HIDE DEF e
<1> QED  BY <1>1, <1>2, RunawayLaw

\* An engine that has read the i-th bar: nothing is left to confirm on it.
HasRead(d, i) == d.readTs = i /\ (d.aged => ~Retests(d.dir, tape[i]))

\* What one bar may do to an engine: it confirms an armed break, leaves it armed, arms a new one,
\* or ends in a state that holds no break.
Opens(d, r, i) ==
  /\ d.state = "ARMED" /\ r.state = "OPEN" /\ (d.aged \/ i # d.readTs)
  /\ Retests(d.dir, tape[i]) /\ r.confirmed = i /\ r.born = d.born /\ r.dir = d.dir
  /\ r.seq = d.seq + 1 /\ r.placed = d.placed
Stays(d, r, i) ==
  /\ d.state = "ARMED" /\ r.state = "ARMED" /\ HasRead(r, i) /\ r.born = d.born
  /\ r.dir = d.dir
  /\ r.aged = (d.aged \/ i # d.readTs) /\ (r.aged => ~Inside(tape[i].close))
  /\ r.seq = d.seq /\ r.placed = d.placed
Breaks(d, r, i) ==
  /\ d.state \in {"WAITING", "REENTRY"} /\ r.state = "ARMED" /\ HasRead(r, i) /\ r.born = i
  /\ r.dir # 0
  /\ ~r.aged /\ i > 1 /\ ~Inside(tape[i].close) /\ r.seq = d.seq /\ r.placed = d.placed
Rests(d, r) ==
  /\ r.state \notin {"ARMED", "OPEN"}
  /\ (r.seq = d.seq /\ r.placed = d.placed) \/ (r.seq = 0 /\ r.placed = 0)

LEMMA JudgeLaw ==
  ASSUME tape \in Seq(Bars), NEW d \in Data, NEW i \in 1..Newest, d.state = "ARMED"
  PROVE  LET r == CheckForRetest(TrackFifty(d, tape[i]), i)
         IN /\ r \in Data
            /\ \/ Opens(d, r, i) \/ Stays(d, r, i)
               \/ r.state = "INVALIDATED" /\ r.seq = d.seq /\ r.placed = d.placed
<1> DEFINE e == TrackFifty(d, tape[i])
           r == CheckForRetest(e, i)
<1>1. /\ e \in Data /\ e.dir = d.dir /\ e.seq = d.seq /\ e.placed = d.placed /\ e.born = d.born
      /\ e.readTs = d.readTs /\ e.aged = d.aged
      /\ e.state = "ARMED" \/ (e.state = "INVALIDATED" /\ e.accepted)
  BY TrackLaw DEF Setup
<1>0. i \in Nat
  BY BarIsShaped
<1> HIDE DEF e
<1>2. CASE e.state = "INVALIDATED" /\ e.accepted
  BY <1>0, <1>1, <1>2, AcceptedLaw DEF e
<1>3. CASE e.state = "ARMED"
  <2> DEFINE a == e.aged \/ i # e.readTs
  <2>1. /\ r \in Data /\ r.dir = e.dir /\ r.born = e.born /\ r.placed = e.placed
        /\ \/ /\ r.state = "ARMED" /\ r.readTs = i /\ r.aged = a /\ r.seq = e.seq
              /\ a => (~Retests(e.dir, tape[i]) /\ ~Inside(tape[i].close))
           \/ /\ r.state = "OPEN" /\ a /\ r.confirmed = i /\ r.seq = e.seq + 1
              /\ Retests(e.dir, tape[i])
           \/ /\ r.state = "INVALIDATED" /\ r.seq = e.seq
    BY <1>1, <1>3, RetestLaw
  <2> HIDE DEF r
  <2>2. CASE r.state = "ARMED"
    <3>1. Stays(d, r, i)
      BY <1>1, <1>3, <2>1, <2>2 DEF Stays, HasRead
    <3> QED  BY <2>1, <3>1 DEF e, r
  <2>3. CASE r.state = "OPEN"
    <3>1. Opens(d, r, i)
      BY <1>1, <1>3, <2>1, <2>3 DEF Opens
    <3> QED  BY <2>1, <3>1 DEF e, r
  <2>4. CASE r.state = "INVALIDATED"
    <3>1. r.seq = d.seq /\ r.placed = d.placed
      BY <1>1, <2>1, <2>4
    <3> QED  BY <2>1, <2>4, <3>1 DEF e, r
  <2> QED  BY <2>1, <2>2, <2>3, <2>4
<1> QED  BY <1>1, <1>2, <1>3

LEMMA AdvanceLaw ==
  ASSUME tape \in Seq(Bars), NEW d \in Data, NEW i \in 1..Newest
  PROVE  LET r == Advance(d, i)
         IN /\ r \in Data
            /\ \/ d.state = "OPEN" /\ r = d
               \/ Opens(d, r, i) \/ Stays(d, r, i) \/ Breaks(d, r, i) \/ (d.state # "OPEN" /\ Rests(d, r))
<1> DEFINE r == Advance(d, i)
           back == IF d.state = "REENTRY" /\ Inside(tape[i].close) THEN [d EXCEPT !.state = "WAITING"]
                   ELSE d
           armed == IF back.state = "WAITING" THEN CheckForBreak(back, i) ELSE back
           judged == IF armed.state = "ARMED" THEN CheckForRetest(TrackFifty(armed, tape[i]), i) ELSE armed
<1>1. CASE d.state = "OPEN"
  BY <1>1 DEF Advance
<1>2. CASE d.state # "OPEN"
  <2>1. r = IF judged.state = "INVALIDATED"
                /\ (judged.reason = "close_inside" \/ (judged.reason = "runaway" /\ Inside(tape[i].close)))
            THEN Rearm(TRUE) ELSE judged
    BY <1>2 DEF Advance
  <2>2. /\ back \in Data /\ back.seq = d.seq /\ back.placed = d.placed /\ back.state # "OPEN"
        /\ d.state = "ARMED" => back = d
        /\ d.state # "ARMED" => back.state # "ARMED"
        /\ back.state = "WAITING" => d.state \in {"WAITING", "REENTRY"}
    BY <1>2 DEF Data, EngineStates
  <2> HIDE DEF back
  <2>3. \/ armed = back
        \/ /\ armed \in Data /\ armed.state = "ARMED" /\ armed.born = i /\ armed.readTs = i
           /\ armed.aged = FALSE /\ i > 1 /\ ~Inside(tape[i].close)
           /\ armed.dir # 0
           /\ armed.seq = d.seq /\ armed.placed = d.placed /\ d.state \in {"WAITING", "REENTRY"}
    <3>1. CASE back.state = "WAITING"
      <4>1. armed = CheckForBreak(back, i)
        BY <3>1 DEF armed
      <4>2. \/ armed = back
            \/ /\ armed \in Data /\ armed.state = "ARMED" /\ armed.born = i /\ armed.readTs = i
               /\ armed.aged = FALSE /\ i > 1 /\ ~Inside(tape[i].close) /\ armed.dir \in {-1, 1}
               /\ armed.seq = back.seq /\ armed.placed = back.placed
        BY <2>2, <4>1, BreakLaw
      <4> HIDE DEF armed
      <4> QED  BY <2>2, <3>1, <4>2
    <3>2. CASE back.state # "WAITING"
      BY <3>2
    <3> QED  BY <3>1, <3>2
  <2>4. armed \in Data /\ armed.seq = d.seq /\ armed.placed = d.placed /\ armed.state # "OPEN"
    BY <2>2, <2>3
  <2> HIDE DEF armed
  <2>5. CASE armed.state = "ARMED"
    <3>1. /\ judged \in Data
          /\ \/ Opens(armed, judged, i) \/ Stays(armed, judged, i)
             \/ judged.state = "INVALIDATED" /\ judged.seq = d.seq /\ judged.placed = d.placed
      BY <2>4, <2>5, JudgeLaw
    <3> HIDE DEF judged
    <3>2. CASE judged.state = "INVALIDATED" /\ judged.seq = d.seq /\ judged.placed = d.placed
      <4> HIDE DEF r
      <4>1. r \in Data /\ Rests(d, r)
        <5>1. CASE r = judged
          BY <3>1, <3>2, <5>1 DEF Rests
        <5>2. CASE r = Rearm(TRUE)
          BY <5>2, RearmLaw DEF Rests
        <5> QED  BY <2>1, <5>1, <5>2
      <4> QED  BY <1>2, <4>1 DEF r
    <3>3. CASE armed = back /\ (Opens(armed, judged, i) \/ Stays(armed, judged, i))
      <4>1. armed = d
        BY <2>2, <2>5, <3>3
      <4>2. r = judged
        BY <2>1, <3>3 DEF Opens, Stays
      <4> QED  BY <3>1, <3>3, <4>1, <4>2
    <3>4. CASE armed # back /\ (Opens(armed, judged, i) \/ Stays(armed, judged, i))
      <4>1. Stays(armed, judged, i) /\ ~judged.aged /\ judged.born = i
        BY <2>3, <3>4 DEF Opens, Stays
      <4>2. r = judged
        BY <2>1, <4>1 DEF Stays
      <4>3. Breaks(d, r, i)
        BY <1>2, <2>3, <2>4, <3>4, <4>1, <4>2 DEF Breaks, Stays
      <4> QED  BY <3>1, <4>2, <4>3
    <3> QED  BY <3>1, <3>2, <3>3, <3>4
  <2>6. CASE armed.state # "ARMED"
    <3>1. judged = armed /\ d.state # "ARMED"
      BY <2>2, <2>3, <2>6
    <3> HIDE DEF judged, r
    <3>2. r \in Data /\ Rests(d, r)
      <4>1. CASE r = judged
        BY <2>4, <2>6, <3>1, <4>1 DEF Rests
      <4>2. CASE r = Rearm(TRUE)
        BY <4>2, RearmLaw DEF Rests
      <4> QED  BY <2>1, <4>1, <4>2
    <3> QED  BY <1>2, <3>2 DEF r
  <2> QED  BY <2>5, <2>6
<1> QED  BY <1>1, <1>2

\* One bar, latches and all.
ReadsBar(d, r, i) ==
  \/ d.state = "OPEN" /\ r.state = "OPEN" /\ Setup(r) = Setup(d)
  \/ Opens(d, r, i) \/ Stays(d, r, i) \/ Breaks(d, r, i)
  \/ d.state # "OPEN" /\ Rests(d, r)

LEMMA StepLaw ==
  ASSUME tape \in Seq(Bars), NEW d \in Data, NEW i \in 1..Newest
  PROVE  Advance(Latch(d, i), i) \in Data /\ ReadsBar(d, Advance(Latch(d, i), i), i)
<1> DEFINE e == Latch(d, i)
           r == Advance(e, i)
<1>1. /\ e \in Data /\ Setup(e) = Setup(d)
      /\ e.state = d.state \/ (d.state = "ARMED" /\ e.state = "INVALIDATED")
  BY LatchLaw
<1>2. /\ e.dir = d.dir /\ e.seq = d.seq /\ e.placed = d.placed /\ e.readTs = d.readTs
      /\ e.aged = d.aged /\ e.born = d.born
  BY <1>1 DEF Setup
<1> HIDE DEF e
<1>3. /\ r \in Data
      /\ \/ e.state = "OPEN" /\ r = e
         \/ Opens(e, r, i) \/ Stays(e, r, i) \/ Breaks(e, r, i) \/ (e.state # "OPEN" /\ Rests(e, r))
  BY <1>1, AdvanceLaw
<1> HIDE DEF r
<1>4. CASE e.state = "OPEN" /\ r = e
  BY <1>1, <1>3, <1>4 DEF ReadsBar, e, r
<1>5. CASE Opens(e, r, i)
  BY <1>1, <1>2, <1>3, <1>5 DEF ReadsBar, Opens, e, r
<1>6. CASE Stays(e, r, i)
  BY <1>1, <1>2, <1>3, <1>6 DEF ReadsBar, Stays, e, r
<1>7. CASE Breaks(e, r, i)
  BY <1>1, <1>2, <1>3, <1>7 DEF ReadsBar, Breaks, e, r
<1>8. CASE e.state # "OPEN" /\ Rests(e, r)
  BY <1>1, <1>2, <1>3, <1>8 DEF ReadsBar, Rests, e, r
<1> QED  BY <1>3, <1>4, <1>5, <1>6, <1>7, <1>8

LEMMA UpdateLaw ==
  ASSUME tape \in Seq(Bars), NEW d \in Data, NEW i \in 1..Newest
  PROVE  LET r == Update(d, i)
         IN r \in Data /\ (ReadsBar(d, r, i) \/ (late /\ Rests(d, r)))
<1>1. CASE ~late
  <2>1. Update(d, i) = Advance(Latch(d, i), i)
    BY <1>1 DEF Update
  <2> QED  BY <2>1, StepLaw
<1>2. CASE late
  <2> DEFINE e == Latch(d, i)
             r == [e EXCEPT !.state = "EXPIRED"]
  <2>1. Update(d, i) = r
    BY <1>2 DEF Update
  <2>2. e \in Data /\ e.seq = d.seq /\ e.placed = d.placed
    BY LatchLaw DEF Setup
  <2> HIDE DEF e
  <2>3. r \in Data /\ Rests(d, r)
    BY <2>2 DEF Data, EngineStates, Rests
  <2> HIDE DEF r
  <2> QED  BY <1>2, <2>1, <2>3
<1> QED  BY <1>1, <1>2

-----------------------------------------------------------------------------
(***************************************************************************)
(* What an engine holds, of the tape.                                      *)
(***************************************************************************)
\* What the fields of an engine, and of the file, say of a tape.
HasReadOn(tp, d, i) == d.readTs = i /\ (d.aged => ~Retests(d.dir, tp[i]))

SoundOn(tp, d) ==
  /\ d \in Data /\ d.placed <= d.seq
  /\ d.state \in {"ARMED", "OPEN"} => d.dir # 0
  /\ d.state = "ARMED" =>
       /\ d.born \in 2..Len(tp) /\ d.readTs # 1
       /\ d.born = Len(tp) => HasReadOn(tp, d, Len(tp))
       /\ ~d.aged /\ d.readTs # 0 => d.readTs = d.born /\ ~Inside(tp[d.born].close)
  /\ d.state = "OPEN" => d.born >= 2 /\ d.confirmed \in d.born + 1..Len(tp) /\ d.seq > 0

Sound(d) == SoundOn(tape, d)

\* A replay that has come to the n-th bar.
Walked(d, r, n) ==
  /\ r \in Data /\ r.placed <= r.seq
  /\ d.state = "OPEN" => r.state = "OPEN" /\ Setup(r) = Setup(d)
  /\ r.state = "ARMED" =>
       /\ HasRead(r, n) /\ r.born \in 2..Newest /\ r.dir # 0
       /\ \A j \in 1..n : Inside(tape[j].close) => j < r.born
       /\ ~r.aged => r.born = n /\ ~Inside(tape[n].close)

LEMMA WalkStep ==
  ASSUME tape \in Seq(Bars), NEW d, NEW r, NEW i \in 1..Newest,
         (i = 1 /\ r = d /\ Sound(d)) \/ (i > 1 /\ Walked(d, r, i - 1))
  PROVE  Walked(d, Advance(Latch(r, i), i), i)
<1> DEFINE e == Advance(Latch(r, i), i)
<1>0. i \in Nat /\ Newest \in Nat
  BY BarIsShaped
<1>1. r \in Data /\ r.placed <= r.seq /\ (d.state = "OPEN" => r.state = "OPEN" /\ Setup(r) = Setup(d))
  BY DEF Sound, SoundOn, Walked
<1>2. e \in Data /\ ReadsBar(r, e, i)
  BY <1>1, StepLaw
<1> HIDE DEF e
<1>3. CASE r.state = "OPEN" /\ e.state = "OPEN" /\ Setup(e) = Setup(r)
  <2>1. e.placed = r.placed /\ e.seq = r.seq
    BY <1>3 DEF Setup
  <2> QED  BY <1>1, <1>2, <1>3, <2>1 DEF Walked, e
<1>4. CASE Opens(r, e, i)
  <2>1. e.placed <= e.seq
    BY <1>1, <1>4 DEF Opens, Data
  <2> QED  BY <1>1, <1>2, <1>4, <2>1 DEF Walked, Opens, e
<1>5. CASE Stays(r, e, i)
  <2>1. r.readTs # i /\ r.born \in 2..Newest /\ r.dir # 0
    BY <1>0, <1>5 DEF Sound, SoundOn, Newest, Walked, Stays, HasRead
  <2>2. e.aged /\ ~Inside(tape[i].close)
    BY <1>5, <2>1 DEF Stays
  <2>3. \A j \in 1..i : Inside(tape[j].close) => j < r.born
    <3>1. CASE i = 1
      BY <2>2, <3>1
    <3>2. CASE i > 1
      <4>1. \A j \in 1..i : j = i \/ j \in 1..(i - 1)
        BY <1>0
      <4> QED  BY <1>5, <2>2, <3>2, <4>1 DEF Walked, Stays
    <3> QED  BY <1>0, <3>1, <3>2
  <2> QED  BY <1>1, <1>2, <1>5, <2>1, <2>2, <2>3 DEF Walked, Stays, e
<1>6. CASE Breaks(r, e, i)
  <2>1. \A j \in 1..i : Inside(tape[j].close) => j < i
    BY <1>0, <1>6 DEF Breaks
  <2>2. i \in 2..Newest
    BY <1>0, <1>6 DEF Breaks
  <2> QED  BY <1>1, <1>2, <1>6, <2>1, <2>2 DEF Walked, Breaks, e
<1>7. CASE r.state # "OPEN" /\ Rests(r, e)
  <2>1. e.placed <= e.seq
    BY <1>1, <1>7 DEF Rests, Data
  <2> QED  BY <1>1, <1>2, <1>7, <2>1 DEF Walked, Rests, e
<1> QED  BY <1>2, <1>3, <1>4, <1>5, <1>6, <1>7 DEF ReadsBar

LEMMA ReplayLaw ==
  ASSUME tape \in Seq(Bars), Newest > 0, NEW d, Sound(d)
  PROVE  Walked(d, Replay(d), Newest)
<1>0. Newest \in Nat
  BY DEF Newest
<1>1. PICK w : /\ w[0] = d /\ Replay(d) = w[Newest]
               /\ \A i \in 1..Newest : w[i] = Advance(Latch(w[i - 1], i), i)
  BY <1>0, ReplayWalks
<1> DEFINE S == {n \in Nat : n \in 1..Newest => Walked(d, w[n], n)}
<1>2. 0 \in S
  OBVIOUS
<1>3. ASSUME NEW n \in Nat, n \in S PROVE n + 1 \in S
  <2> SUFFICES ASSUME n + 1 \in 1..Newest PROVE Walked(d, w[n + 1], n + 1)
    OBVIOUS
  <2>1. w[n + 1] = Advance(Latch(w[n], n + 1), n + 1)
    BY <1>1
  <2>2. CASE n = 0
    <3>1. w[n] = d /\ n + 1 = 1
      BY <1>1, <2>2
    <3>2. Walked(d, Advance(Latch(w[n], n + 1), n + 1), n + 1)
      BY <3>1, WalkStep
    <3> QED  BY <2>1, <3>2
  <2>3. CASE n # 0
    <3>1. n \in 1..Newest /\ n + 1 - 1 = n /\ n + 1 > 1
      BY <1>0, <2>3
    <3>2. Walked(d, w[n], n)
      BY <1>3, <3>1
    <3>3. Walked(d, Advance(Latch(w[n], n + 1), n + 1), n + 1)
      BY <3>1, <3>2, WalkStep
    <3> QED  BY <2>1, <3>3
  <2> QED  BY <2>2, <2>3
<1> HIDE DEF S
<1>4. \A n \in Nat : n \in S
  BY <1>2, <1>3, Upward
<1>5. Newest \in S /\ Newest \in 1..Newest
  BY <1>0, <1>4
<1> QED  BY <1>1, <1>5 DEF S

LEMMA Longer ==
  ASSUME NEW tp \in Seq(Bars), NEW b \in Bars, NEW d, SoundOn(tp, d)
  PROVE  SoundOn(Append(tp, b), d)
<1> DEFINE longer == Append(tp, b)
<1>1. /\ Len(tp) \in Nat /\ Len(longer) = Len(tp) + 1
      /\ \A i \in 1..Len(tp) : longer[i] = tp[i]
  OBVIOUS
<1> HIDE DEF longer
<1>2. CASE d.state = "ARMED"
  <2>1. d.born \in 1..Len(tp) /\ d.born \in 2..Len(longer) /\ d.born # Len(longer)
    BY <1>1, <1>2 DEF SoundOn
  <2>2. longer[d.born] = tp[d.born]
    BY <1>1, <2>1
  <2> QED  BY <1>2, <2>1, <2>2 DEF SoundOn, longer
<1>3. CASE d.state = "OPEN"
  <2>1. d.born + 1 \in Nat /\ d.confirmed \in d.born + 1..Len(longer)
    BY <1>1, <1>3 DEF SoundOn, Data
  <2> QED  BY <1>3, <2>1 DEF SoundOn, longer
<1>4. CASE d.state \notin {"ARMED", "OPEN"}
  BY <1>4 DEF SoundOn
<1> QED  BY <1>2, <1>3, <1>4

LEMMA SavedLaw ==
  ASSUME NEW d \in Data
  PROVE  /\ Saved(d) \in Data /\ Saved(d).state = d.state /\ Saved(d).dir = d.dir
         /\ Saved(d).seq = d.seq /\ Saved(d).placed = d.placed /\ Saved(d).born = d.born
         /\ Saved(d).readTs = d.readTs /\ Saved(d).aged = d.aged /\ Saved(d).confirmed = d.confirmed
  BY DEF Saved, Data

LEMMA SavedIsSound == ASSUME NEW d, Sound(d) PROVE Sound(Saved(d))
<1>1. d \in Data
  BY DEF Sound, SoundOn
<1> QED  BY <1>1, SavedLaw DEF Sound, SoundOn, HasReadOn

LEMMA ReadingIsSound ==
  ASSUME tape \in Seq(Bars), Newest > 1, NEW d, Sound(d)
  PROVE  Sound(Update(d, Newest))
<1> DEFINE r == Update(d, Newest)
<1>0. Newest \in 1..Newest /\ Newest \in Nat /\ Newest = Len(tape)
  BY DEF Newest
<1>1. d \in Data /\ d.placed <= d.seq
  BY DEF Sound, SoundOn
<1>2. r \in Data /\ (ReadsBar(d, r, Newest) \/ (late /\ Rests(d, r)))
  BY <1>0, <1>1, UpdateLaw
<1> HIDE DEF r
<1>3. CASE d.state = "OPEN" /\ r.state = "OPEN" /\ Setup(r) = Setup(d)
  <2>1. /\ r.placed = d.placed /\ r.seq = d.seq /\ r.dir = d.dir /\ r.born = d.born
        /\ r.confirmed = d.confirmed
    BY <1>3 DEF Setup
  <2> QED  BY <1>2, <1>3, <2>1 DEF Sound, SoundOn, r
<1>4. CASE Opens(d, r, Newest)
  <2>1. d.born \in 2..Newest /\ d.born # Newest /\ d.dir # 0
    BY <1>0, <1>4 DEF Sound, SoundOn, Opens, HasReadOn
  <2>2. r.placed <= r.seq /\ r.seq > 0
    BY <1>1, <1>4 DEF Opens, Data
  <2>3. r.born >= 2 /\ r.confirmed \in r.born + 1..Len(tape)
    BY <1>0, <1>4, <2>1 DEF Opens
  <2> QED  BY <1>2, <1>4, <2>1, <2>2, <2>3 DEF Sound, SoundOn, Opens, r
<1>5. CASE Stays(d, r, Newest)
  <2>1. d.born \in 2..Newest /\ d.dir # 0
    BY <1>0, <1>5 DEF Sound, SoundOn, Stays
  <2>2. ~r.aged => r.readTs = r.born /\ ~Inside(tape[r.born].close)
    <3> SUFFICES ASSUME ~r.aged PROVE r.readTs = r.born /\ ~Inside(tape[r.born].close)
      OBVIOUS
    <3>1. ~d.aged /\ d.readTs = Newest /\ d.state = "ARMED"
      BY <1>5 DEF Stays
    <3>2. d.readTs # 0
      BY <1>0, <3>1
    <3>3. d.readTs = d.born /\ ~Inside(tape[d.born].close)
      BY <3>1, <3>2 DEF Sound, SoundOn
    <3> QED  BY <1>5, <3>1, <3>3 DEF Stays, HasRead
  <2>3. r.readTs = Newest /\ HasReadOn(tape, r, Newest)
    BY <1>5 DEF Stays, HasRead, HasReadOn
  <2> QED  BY <1>0, <1>1, <1>2, <1>5, <2>1, <2>2, <2>3 DEF Sound, SoundOn, Stays, r
<1>6. CASE Breaks(d, r, Newest)
  <2>1. r.readTs = Newest /\ HasReadOn(tape, r, Newest)
    BY <1>6 DEF Breaks, HasRead, HasReadOn
  <2> QED  BY <1>0, <1>1, <1>2, <1>6, <2>1 DEF Sound, SoundOn, Breaks, r
<1>7. CASE Rests(d, r)
  <2>1. r.placed <= r.seq
    BY <1>1, <1>7 DEF Rests, Data
  <2> QED  BY <1>2, <1>7, <2>1 DEF Sound, SoundOn, Rests, r
<1> QED  BY <1>2, <1>3, <1>4, <1>5, <1>6, <1>7 DEF ReadsBar

LEMMA RebuildingIsSound ==
  ASSUME tape \in Seq(Bars), Newest > 1, NEW d, Sound(d)
  PROVE  LET r == RebuildFromTape(d)
         IN /\ Sound(r)
            /\ d.state = "OPEN" => r.state = "OPEN" /\ Setup(r) = Setup(d)
            /\ r.state = "OPEN" => d.state = "OPEN"
            /\ r.state = "ARMED" =>
                 /\ HasRead(r, Newest)
                 /\ \A j \in 1..Newest : Inside(tape[j].close) => j < r.born
<1> DEFINE w == Replay(d)
           r == RebuildFromTape(d)
           gone == [w EXCEPT !.state = "EXPIRED", !.reason = "missed_while_down"]
<1>0. Newest \in Nat /\ Newest = Len(tape) /\ Newest > 0
  BY DEF Newest
<1>1. Walked(d, w, Newest)
  BY <1>0, ReplayLaw
<1>2. r = IF d.state = "OPEN" \/ w.state # "OPEN" THEN w
          ELSE IF late THEN gone ELSE Rearm(FALSE)
  BY DEF RebuildFromTape
<1>3. w \in Data => /\ gone \in Data /\ gone.state = "EXPIRED" /\ gone.placed = w.placed
                    /\ gone.seq = w.seq
  BY DEF Data, EngineStates, Reasons
<1> HIDE DEF w, r, gone
<1>4. CASE d.state = "OPEN"
  <2>1. r = w /\ w.state = "OPEN" /\ Setup(w) = Setup(d)
    BY <1>1, <1>2, <1>4 DEF Walked
  <2>2. /\ w.placed = d.placed /\ w.seq = d.seq /\ w.dir = d.dir /\ w.born = d.born
        /\ w.confirmed = d.confirmed
    BY <2>1 DEF Setup
  <2>3. Sound(w)
    BY <1>1, <1>4, <2>1, <2>2 DEF Sound, SoundOn, Walked
  <2> QED  BY <1>4, <2>1, <2>3 DEF r
<1>5. CASE d.state # "OPEN" /\ w.state # "OPEN"
  <2>1. r = w
    BY <1>2, <1>5
  <2>2. CASE w.state = "ARMED"
    <3>1. HasReadOn(tape, w, Newest) /\ w.readTs = Newest /\ w.dir # 0 /\ w.born \in 2..Newest
      BY <1>1, <2>2 DEF Walked, HasRead, HasReadOn
    <3>2. ~w.aged => w.readTs = w.born /\ ~Inside(tape[w.born].close)
      BY <1>1, <2>2, <3>1 DEF Walked
    <3>3. Sound(w)
      BY <1>0, <1>1, <2>2, <3>1, <3>2 DEF Sound, SoundOn, Walked
    <3> QED  BY <1>1, <1>5, <2>1, <2>2, <3>3 DEF Walked, r
  <2>3. CASE w.state # "ARMED"
    <3>1. Sound(w)
      BY <1>1, <1>5, <2>3 DEF Sound, SoundOn, Walked
    <3> QED  BY <1>5, <2>1, <2>3, <3>1 DEF r
  <2> QED  BY <2>2, <2>3
<1>6. CASE d.state # "OPEN" /\ w.state = "OPEN"
  <2>1. CASE r = gone
    <3>1. r \in Data /\ r.state = "EXPIRED" /\ r.placed <= r.seq
      BY <1>1, <1>3, <2>1 DEF Walked
    <3> QED  BY <1>6, <3>1 DEF Sound, SoundOn, r
  <2>2. CASE r = Rearm(FALSE)
    <3>1. r \in Data /\ r.state \in {"WAITING", "REENTRY"} /\ r.placed = 0 /\ r.seq = 0
      BY <2>2, RearmLaw
    <3> QED  BY <1>6, <3>1 DEF Sound, SoundOn, r
  <2> QED  BY <1>2, <1>6, <2>1, <2>2
<1> QED  BY <1>4, <1>5, <1>6

LEMMA LargestOf ==
  ASSUME NEW n \in Nat, NEW T \in SUBSET (1..n), T # {}
  PROVE  \E x \in T : \A y \in T : y <= x
<1> DEFINE below(x) == n - x
           U == {below(x) : x \in T}
<1>1. U \in SUBSET Nat /\ U # {}
  <2>1. \A x \in T : below(x) \in Nat
    OBVIOUS
  <2> HIDE DEF below
  <2> QED  BY <2>1
<1>2. PICK u \in U : \A v \in U : u <= v
  <2> HIDE DEF U
  <2> QED  BY <1>1, LeastOf
<1>3. PICK x \in T : u = n - x
  OBVIOUS
<1>4. \A y \in T : n - x <= n - y
  BY <1>2, <1>3
<1> QED  BY <1>4

LEMMA LatestLaw ==
  ASSUME Newest \in Nat, NEW T \in SUBSET (1..Newest)
  PROVE  \/ T = {} /\ LatestOf(T) = lastIn
         \/ LatestOf(T) \in T /\ \A j \in T : j <= LatestOf(T)
<1>1. CASE T = {}
  BY <1>1 DEF LatestOf
<1>2. CASE T # {}
  <2>1. \E x \in T : \A y \in T : y <= x
    BY <1>2, LargestOf
  <2>2. LatestOf(T) = CHOOSE i \in T : \A j \in T : j <= i
    BY <1>2 DEF LatestOf
  <2> QED  BY <2>1, <2>2
<1> QED  BY <1>1, <1>2

LEMMA ClosedLaw ==
  ASSUME NEW d, Sound(d)
  PROVE  LET r == PositionClosed(d)
         IN /\ Sound(r) /\ r.state # "OPEN"
            /\ d.state # "OPEN" => r = d
            /\ d.state = "OPEN" /\ r.state = "ARMED" => ~d.accepted /\ r.born < Newest
<1> DEFINE r == PositionClosed(d)
           back == [d EXCEPT !.state = "ARMED", !.aged = FALSE, !.readTs = 0, !.confirmed = 0]
<1>1. d \in Data /\ d.placed <= d.seq
  BY DEF Sound, SoundOn
<1>2. CASE d.state # "OPEN"
  BY <1>2 DEF PositionClosed
<1>3. CASE d.state = "OPEN" /\ r = Runaway(d)
  <2> HIDE DEF r
  <2>1. r \in Data /\ r.state = "INVALIDATED" /\ r.placed <= r.seq
    BY <1>1, <1>3, RunawayLaw
  <2> QED  BY <1>3, <2>1 DEF Sound, SoundOn, r
<1>4. CASE d.state = "OPEN" /\ r = [d EXCEPT !.state = "EXPIRED"]
  <2> HIDE DEF r
  <2>1. r \in Data /\ r.state = "EXPIRED" /\ r.placed <= r.seq
    BY <1>1, <1>4 DEF Data, EngineStates
  <2> QED  BY <1>4, <2>1 DEF Sound, SoundOn, r
<1>5. CASE d.state = "OPEN" /\ r = Rearm(TRUE)
  <2> HIDE DEF r
  <2>1. r \in Data /\ r.state \in {"WAITING", "REENTRY"} /\ r.placed = 0 /\ r.seq = 0
    BY <1>5, RearmLaw
  <2>2. r.placed <= r.seq
    BY <2>1
  <2> QED  BY <1>5, <2>1, <2>2 DEF Sound, SoundOn, r
<1>6. CASE d.state = "OPEN" /\ ~d.accepted /\ r = back
  <2>1. /\ back \in Data /\ back.state = "ARMED" /\ back.readTs = 0 /\ back.aged = FALSE
        /\ back.born = d.born /\ back.placed = d.placed /\ back.seq = d.seq /\ back.dir = d.dir
    BY <1>1 DEF Data, EngineStates
  <2> HIDE DEF r, back
  <2>2. d.born >= 2 /\ d.confirmed \in d.born + 1..Len(tape) /\ d.dir # 0 /\ d.born \in Nat
    BY <1>1, <1>6 DEF Sound, SoundOn, Data
  <2>3. CASE Len(tape) \in Int
    <3>1. back.born \in 2..Len(tape) /\ back.born # Len(tape) /\ back.born < Newest
      BY <2>1, <2>2, <2>3 DEF Newest
    <3>2. Sound(back)
      BY <1>1, <2>1, <2>2, <3>1 DEF Sound, SoundOn
    <3> QED  BY <1>6, <2>1, <3>1, <3>2 DEF r
  <2> QED  BY <2>3
<1> QED  BY <1>2, <1>3, <1>4, <1>5, <1>6 DEF PositionClosed

\* The two engines are sound and the last close inside is one of the tape's.
TapeInv ==
  /\ tape \in Seq(Bars) /\ Newest > 0
  /\ late \in BOOLEAN /\ alive \in BOOLEAN /\ rebuilt \in BOOLEAN /\ trading \in BOOLEAN
  /\ deaths \in 0..MaxRestarts /\ turn \in {"analysis", "trade", "entries"}
  /\ Sound(engine) /\ Sound(orbFile)
  /\ lastIn = 0 \/ lastIn \in InsideBars

LEMMA TapeBegins == ASSUME OrbInit PROVE TapeInv
<1>1. PICK b \in Bars : tape = <<b>>
  BY DEF OrbInit
<1>2. tape \in Seq(Bars) /\ Newest = 1
  BY <1>1 DEF Newest
<1>3. Sound(Fresh)
  BY FreshIsData DEF Sound, SoundOn, Fresh
<1>4. Sound(engine) /\ Sound(orbFile)
  BY <1>3 DEF OrbInit
<1>5. deaths \in 0..MaxRestarts
  BY DEF OrbInit
<1>6. Newest > 0
  BY <1>2
<1>7. /\ late \in BOOLEAN /\ alive \in BOOLEAN /\ rebuilt \in BOOLEAN /\ trading \in BOOLEAN
      /\ turn \in {"analysis", "trade", "entries"} /\ lastIn = 0
  BY DEF OrbInit
<1> QED  BY <1>2, <1>4, <1>5, <1>6, <1>7 DEF TapeInv

\* What a tick's analysis leaves, whichever engine it starts from.
LEMMA TickLaw ==
  ASSUME TapeInv, AnalysisTick
  PROVE  \E d0 : \E done \in BOOLEAN :
           /\ Analyse(d0, done) /\ Sound(d0) /\ Sound(Update(d0, Newest))
           /\ tape' = tape /\ Newest > 1 /\ tape \in Seq(Bars)
           /\ done => rebuilt \/ d0 = RebuildFromTape(engine)
           /\ done /\ rebuilt => d0 = engine
           /\ d0 \in {engine, RebuildFromTape(engine)}
<1>1. Newest > 1 /\ tape \in Seq(Bars) /\ tape' = tape /\ Sound(engine)
  BY DEF AnalysisTick, TapeInv
<1>2. Sound(RebuildFromTape(engine))
  BY <1>1, RebuildingIsSound
<1>3. /\ Sound(Update(engine, Newest))
      /\ Sound(Update(RebuildFromTape(engine), Newest))
  BY <1>1, <1>2, ReadingIsSound
<1>4. CASE rebuilt /\ Analyse(engine, TRUE)
  BY <1>1, <1>3, <1>4
<1>5. CASE ~rebuilt /\ Analyse(RebuildFromTape(engine), TRUE)
  BY <1>1, <1>2, <1>3, <1>5
<1>6. CASE ~rebuilt /\ Analyse(engine, FALSE)
  BY <1>1, <1>3, <1>6
<1> QED  BY <1>4, <1>5, <1>6 DEF AnalysisTick

LEMMA TapeStep == ASSUME TapeInv, [OrbNext]_orbVars PROVE TapeInv'
<1>0. Newest \in Nat /\ Newest = Len(tape) /\ Newest' = Len(tape')
  BY DEF Newest, TapeInv
<1>1. CASE BarCloses
  <2>1. PICK b \in Bars : tape' = Append(tape, b)
    BY <1>1 DEF BarCloses
  <2>2. tape' \in Seq(Bars) /\ Newest' = Newest + 1 /\ \A i \in 1..Newest : tape'[i] = tape[i]
    BY <1>0, <2>1 DEF TapeInv
  <2>3. SoundOn(tape', engine) /\ SoundOn(tape', orbFile)
    BY <2>1, Longer DEF Sound, TapeInv
  <2>4. Sound(engine)' /\ Sound(orbFile)'
    BY <1>1, <2>3 DEF BarCloses, Sound, TapeInv
  <2>5. lastIn' = 0 \/ lastIn' \in InsideBars'
    BY <1>0, <1>1, <2>2 DEF BarCloses, InsideBars, TapeInv
  <2> QED  BY <1>0, <1>1, <2>2, <2>4, <2>5 DEF BarCloses, TapeInv
<1>2. CASE AnalysisTick
  <2>1. PICK d0 : \E done \in BOOLEAN :
          Analyse(d0, done) /\ Sound(Update(d0, Newest)) /\ Newest > 1
    BY <1>2, TickLaw
  <2>2. SoundOn(tape, Update(d0, Newest)) /\ SoundOn(tape, Saved(Update(d0, Newest)))
    BY <2>1, SavedIsSound DEF Sound, TapeInv
  <2>3. /\ engine' = Update(d0, Newest) /\ rebuilt' \in BOOLEAN
        /\ orbFile' = Saved(Update(d0, Newest)) \/ orbFile' = orbFile
        /\ lastIn' \in {LatestOf(InsideBars), LatestOf(InsideBars \cap {Newest})}
    BY <2>1 DEF Analyse
  <2>4. tape' = tape
    BY <1>2 DEF AnalysisTick
  <2>5. Sound(engine)' /\ Sound(orbFile)'
    BY <2>2, <2>3, <2>4 DEF Sound, TapeInv
  <2>6. InsideBars \in SUBSET (1..Newest)
    BY DEF InsideBars
  <2>7. /\ LatestOf(InsideBars) = lastIn \/ LatestOf(InsideBars) \in InsideBars
        /\ \/ LatestOf(InsideBars \cap {Newest}) = lastIn
           \/ LatestOf(InsideBars \cap {Newest}) \in InsideBars
    BY <1>0, <2>6, LatestLaw
  <2>8. lastIn' = 0 \/ lastIn' \in InsideBars
    BY <2>3, <2>7 DEF TapeInv
  <2>9. InsideBars' = InsideBars
    BY <2>4 DEF InsideBars, Newest
  <2> QED  BY <1>0, <1>2, <2>3, <2>4, <2>5, <2>8, <2>9 DEF AnalysisTick, TapeInv
<1>3. CASE PlaceOrder
  <2> DEFINE placed(q) == [engine EXCEPT !.placed = q]
  <2>1. engine \in Data /\ engine.seq \in Nat /\ engine.state = "OPEN" /\ engine.seq <= engine.seq
    BY <1>3 DEF PlaceOrder, Sound, SoundOn, Data, TapeInv
  <2>2. ASSUME NEW q \in Nat, q <= engine.seq PROVE SoundOn(tape, placed(q))
    <3>1. /\ placed(q) \in Data /\ placed(q).placed = q /\ placed(q).seq = engine.seq
          /\ placed(q).state = engine.state /\ placed(q).dir = engine.dir
          /\ placed(q).born = engine.born /\ placed(q).confirmed = engine.confirmed
      BY <2>1 DEF Data
    <3> HIDE DEF placed
    <3> QED  BY <2>1, <2>2, <3>1 DEF Sound, SoundOn, TapeInv
  <2>3. engine' = placed(engine.seq) /\ tape' = tape /\ orbFile' = orbFile
    BY <1>3 DEF PlaceOrder
  <2> HIDE DEF placed
  <2>4. Sound(engine)' /\ Sound(orbFile)'
    BY <2>1, <2>2, <2>3 DEF Sound, TapeInv
  <2>5. InsideBars' = InsideBars
    BY <2>3 DEF InsideBars, Newest
  <2> QED  BY <1>0, <1>3, <2>3, <2>4, <2>5 DEF PlaceOrder, TapeInv
<1>4. CASE TradeEnds \/ RunawayFires
  <2>1. SoundOn(tape, PositionClosed(engine))
    BY ClosedLaw DEF Sound, TapeInv
  <2>2. engine' = PositionClosed(engine) /\ tape' = tape /\ orbFile' = orbFile
    BY <1>4 DEF TradeEnds, RunawayFires
  <2>3. Sound(engine)' /\ Sound(orbFile)'
    BY <2>1, <2>2 DEF Sound, TapeInv
  <2>4. InsideBars' = InsideBars
    BY <2>2 DEF InsideBars, Newest
  <2> QED  BY <1>0, <1>4, <2>2, <2>3, <2>4 DEF TradeEnds, RunawayFires, TapeInv
<1>5. CASE CutoffPasses \/ TickEnds \/ ProcessDies \/ ProcessStarts \/ UNCHANGED orbVars
  <2>1. /\ tape' = tape /\ orbFile' = orbFile /\ engine' \in {engine, orbFile} /\ lastIn' = lastIn
    BY <1>5 DEF CutoffPasses, TickEnds, ProcessDies, ProcessStarts, orbVars
  <2>2. Sound(engine)' /\ Sound(orbFile)'
    BY <2>1 DEF Sound, TapeInv
  <2>3. InsideBars' = InsideBars
    BY <2>1 DEF InsideBars, Newest
  <2>4. deaths' \in 0..MaxRestarts
    BY <1>5 DEF CutoffPasses, TickEnds, ProcessDies, ProcessStarts, orbVars, TapeInv
  <2> QED  BY <1>0, <1>5, <2>1, <2>2, <2>3, <2>4
           DEF CutoffPasses, TickEnds, ProcessDies, ProcessStarts, orbVars, TapeInv
<1> QED  BY <1>1, <1>2, <1>3, <1>4, <1>5 DEF OrbNext

LEMMA TapeAlways == OrbSpec => []TapeInv
<1> QED  BY TapeBegins, TapeStep, PTL DEF OrbSpec

\* Whatever has happened to the session, the two engines hold what an engine may.
THEOREM EngineIsTyped == OrbSpec => []OrbTypeOK
<1>1. ASSUME TapeInv PROVE OrbTypeOK
  <2>0. Len(tape) \in Nat
    BY <1>1 DEF TapeInv
  <2>1. ASSUME NEW d, Sound(d)
        PROVE  /\ d.state \in EngineStates /\ d.dir \in {-1, 0, 1}
               /\ d.state \in {"ARMED", "OPEN"} => d.dir # 0 /\ d.born \in 1..Len(tape)
               /\ d.state = "OPEN" => d.confirmed \in d.born + 1..Len(tape) /\ d.seq > 0
               /\ d.placed <= d.seq
    BY <2>0, <2>1 DEF Sound, SoundOn, Data
  <2> QED  BY <1>1, <2>1 DEF TapeInv, OrbTypeOK
<1> QED  BY <1>1, TapeAlways, PTL

-----------------------------------------------------------------------------
(***************************************************************************)
(* The breakout that is waited on.                                         *)
(***************************************************************************)
\* The new state of a tick reads what one bar makes of an engine that was already sound.
LEMMA UpdateReads ==
  ASSUME tape \in Seq(Bars), Newest > 1, NEW d, Sound(d)
  PROVE  LET r == Update(d, Newest)
         IN r \in Data /\ (ReadsBar(d, r, Newest) \/ (late /\ Rests(d, r)))
<1>1. d \in Data /\ Newest \in 1..Newest
  BY DEF Sound, SoundOn, Newest
<1> QED  BY <1>1, UpdateLaw

LEMMA ThesisStep ==
  ASSUME TapeInv, ArmedThesisStands, [OrbNext]_orbVars
  PROVE  ArmedThesisStands'
<1>0. Newest \in Nat /\ Newest = Len(tape) /\ Newest' = Len(tape') /\ Sound(engine)
  BY DEF Newest, TapeInv
<1>1. CASE AnalysisTick
  <2>1. PICK d0 : \E done \in BOOLEAN :
          /\ Analyse(d0, done) /\ Sound(d0) /\ Sound(Update(d0, Newest))
          /\ tape' = tape /\ Newest > 1 /\ tape \in Seq(Bars)
          /\ done => rebuilt \/ d0 = RebuildFromTape(engine)
          /\ done /\ rebuilt => d0 = engine
          /\ d0 \in {engine, RebuildFromTape(engine)}
    BY <1>1, TickLaw
  <2> DEFINE r == Update(d0, Newest)
             read == IF rebuilt' /\ ~rebuilt THEN InsideBars ELSE InsideBars \cap {Newest}
  <2>2. /\ engine' = r /\ lastIn' = LatestOf(read)
        /\ rebuilt' => (rebuilt /\ d0 = engine) \/ d0 = RebuildFromTape(engine)
    BY <2>1 DEF Analyse
  <2>3. r \in Data /\ (ReadsBar(d0, r, Newest) \/ (late /\ Rests(d0, r)))
    BY <2>1, UpdateReads
  <2> HIDE DEF r
  <2>4. SUFFICES ASSUME r.state = "ARMED", rebuilt', alive', \A q \in quick' : q <= r.born
                 PROVE  LatestOf(read) < r.born
    BY <2>2 DEF ArmedThesisStands
  <2>5. Stays(d0, r, Newest) \/ Breaks(d0, r, Newest)
    BY <2>3, <2>4 DEF ReadsBar, Rests, Opens
  <2>6. read \in SUBSET (1..Newest)
    BY DEF InsideBars
  <2>7. \/ read = {} /\ LatestOf(read) = lastIn
        \/ LatestOf(read) \in read /\ \A j \in read : j <= LatestOf(read)
    BY <1>0, <2>6, LatestLaw
  <2>8. LatestOf(read) = lastIn \/ LatestOf(read) \in InsideBars
    BY <2>7
  <2>9. CASE Breaks(d0, r, Newest)
    <3>1. r.born = Newest /\ Newest \notin InsideBars /\ Newest > 1
      BY <2>9 DEF Breaks, InsideBars
    <3>2. LatestOf(read) = 0 \/ LatestOf(read) \in InsideBars
      BY <2>8 DEF TapeInv
    <3> QED  BY <1>0, <3>1, <3>2 DEF InsideBars
  <2>10. CASE Stays(d0, r, Newest)
    <3>1. /\ d0.state = "ARMED" /\ r.born = d0.born /\ d0.born \in 2..Newest
          /\ r.aged = (d0.aged \/ Newest # d0.readTs)
          /\ r.aged => ~Inside(tape[Newest].close)
      BY <1>0, <2>1, <2>10 DEF Stays, Sound, SoundOn
    <3>2. CASE rebuilt /\ d0 = engine
      <4>1. lastIn < r.born
        BY <1>1, <2>4, <3>1, <3>2 DEF ArmedThesisStands, AnalysisTick
      <4>2. Newest \notin InsideBars
        <5>1. CASE r.aged
          BY <3>1, <5>1 DEF InsideBars
        <5>2. CASE ~r.aged
          <6>1. ~d0.aged /\ d0.readTs = Newest /\ d0.readTs # 0
            <7>1. ~(d0.aged \/ Newest # d0.readTs)
              BY <3>1, <5>2
            <7> QED  BY <2>1, <7>1
          <6>2. ~Inside(tape[Newest].close)
            BY <2>1, <3>1, <6>1 DEF Sound, SoundOn
          <6> QED  BY <6>2 DEF InsideBars
        <5> QED  BY <5>1, <5>2
      <4>3. read = {}
        BY <3>2, <4>2
      <4> QED  BY <2>7, <4>1, <4>3
    <3>3. CASE d0 = RebuildFromTape(engine)
      <4>1. \A j \in 1..Newest : Inside(tape[j].close) => j < d0.born
        BY <1>0, <2>1, <3>1, <3>3, RebuildingIsSound
      <4>2. \A j \in InsideBars : j < r.born
        BY <3>1, <4>1 DEF InsideBars
      <4>3. lastIn < r.born
        BY <3>1, <4>2 DEF TapeInv
      <4> HIDE DEF read
      <4> QED  BY <2>8, <4>2, <4>3
    <3> QED  BY <2>2, <2>4, <3>2, <3>3
  <2> QED  BY <2>5, <2>9, <2>10
<1>2. CASE TradeEnds
  <2> DEFINE r == PositionClosed(engine)
  <2>1. /\ r.state = "ARMED" => r = engine \/ r.born < Newest
        /\ Sound(r)
    BY <1>0, ClosedLaw
  <2>2. /\ engine' = r /\ quick' = quick \cup {Newest} /\ lastIn' = lastIn
        /\ rebuilt' = rebuilt /\ alive' = alive
    BY <1>2 DEF TradeEnds
  <2> HIDE DEF r
  <2>3. r.born < Newest => ~(Newest <= r.born)
    BY <1>0, <2>1 DEF Sound, SoundOn, Data
  <2> QED  BY <2>1, <2>2, <2>3 DEF ArmedThesisStands
<1>3. CASE RunawayFires
  <2>1. PositionClosed(engine).state = "ARMED" => PositionClosed(engine) = engine
    BY <1>0, <1>3, ClosedLaw DEF RunawayFires
  <2> QED  BY <1>3, <2>1 DEF RunawayFires, ArmedThesisStands
<1>4. CASE PlaceOrder
  <2>1. engine' = [engine EXCEPT !.placed = engine.seq] /\ engine.state = "OPEN" /\ engine \in Data
    BY <1>0, <1>4 DEF PlaceOrder, Sound, SoundOn
  <2>2. engine'.state = "OPEN"
    BY <2>1 DEF Data
  <2> QED  BY <2>2 DEF ArmedThesisStands
<1>5. CASE ProcessDies \/ ProcessStarts
  BY <1>5 DEF ProcessDies, ProcessStarts, ArmedThesisStands
<1>6. CASE BarCloses \/ CutoffPasses \/ TickEnds \/ UNCHANGED orbVars
  BY <1>6 DEF BarCloses, CutoffPasses, TickEnds, orbVars, ArmedThesisStands
<1> QED  BY <1>1, <1>2, <1>3, <1>4, <1>5, <1>6 DEF OrbNext

\* However often the process dies and replays, and whatever file it finds: nothing has closed back
\* inside the range since the breakout whose retest an armed engine waits for, unless a trade was
\* opened and gone within one minute since.
THEOREM ThesisAlwaysStands == OrbSpec => []ArmedThesisStands
<1>1. OrbInit => ArmedThesisStands
  BY DEF OrbInit, Fresh, ArmedThesisStands
<1> QED  BY <1>1, TapeAlways, ThesisStep, PTL DEF OrbSpec

-----------------------------------------------------------------------------
(***************************************************************************)
(* The orders.                                                             *)
(***************************************************************************)
\* What is open was seen to confirm: in the engine, in the file, and in every order.
SeenInv ==
  /\ ordered \in Seq(Nat) /\ \A k \in 1..Len(ordered) : ordered[k] <= Newest
  /\ engine.state = "OPEN" => engine.confirmed \in witnessed
  /\ orbFile.state = "OPEN" => orbFile.confirmed \in witnessed
  /\ OrdersAreSeen

\* An engine that a tick finds open was open before the tick, or confirmed on the newest bar.
LEMMA OpenedLaw ==
  ASSUME TapeInv, AnalysisTick
  PROVE  /\ engine'.state = "OPEN" =>
              \/ /\ engine.state = "OPEN" /\ Setup(engine') = Setup(engine)
                 /\ witnessed \subseteq witnessed'
              \/ /\ engine'.confirmed = Newest /\ Newest \in witnessed' /\ engine.state # "OPEN"
                 /\ engine.state = "ARMED" /\ (engine.aged \/ engine.readTs # Newest)
                 /\ Retests(engine.dir, tape[Newest])
         /\ engine'.state = "ARMED" => HasRead(engine', Newest)
         /\ orbFile' = Saved(engine') \/ ("save" \in Glitches /\ orbFile' = orbFile)
         /\ witnessed \subseteq witnessed' /\ engine' \in Data
<1>1. PICK d0 : \E done \in BOOLEAN :
        /\ Analyse(d0, done) /\ Sound(d0) /\ Sound(Update(d0, Newest))
        /\ tape' = tape /\ Newest > 1 /\ tape \in Seq(Bars)
        /\ done => rebuilt \/ d0 = RebuildFromTape(engine)
        /\ done /\ rebuilt => d0 = engine
        /\ d0 \in {engine, RebuildFromTape(engine)}
  BY TickLaw
<1> DEFINE r == Update(d0, Newest)
<1>2. /\ engine' = r
      /\ orbFile' = Saved(r) \/ ("save" \in Glitches /\ orbFile' = orbFile)
      /\ witnessed' = IF r.state = "OPEN" /\ d0.state # "OPEN" THEN witnessed \cup {Newest}
                      ELSE witnessed
  BY <1>1 DEF Analyse
<1>3. r \in Data /\ (ReadsBar(d0, r, Newest) \/ (late /\ Rests(d0, r)))
  BY <1>1, UpdateReads
<1> HIDE DEF r
<1>4. r.state = "ARMED" => HasRead(r, Newest)
  BY <1>3 DEF ReadsBar, Opens, Stays, Breaks, Rests
<1>5. /\ d0.state = "OPEN" => engine.state = "OPEN" /\ Setup(d0) = Setup(engine)
      /\ d0 # engine /\ d0.state = "ARMED" => HasRead(d0, Newest)
  <2>1. CASE d0 = engine
    BY <2>1
  <2>2. CASE d0 = RebuildFromTape(engine)
    BY <1>1, <2>2, RebuildingIsSound DEF TapeInv
  <2> QED  BY <1>1, <2>1, <2>2
<1>6. CASE r.state = "OPEN" /\ d0.state = "OPEN"
  <2>1. Setup(r) = Setup(d0)
    BY <1>3, <1>6 DEF ReadsBar, Opens, Stays, Breaks, Rests
  <2> QED  BY <1>2, <1>3, <1>4, <1>5, <1>6, <2>1
<1>7. CASE r.state = "OPEN" /\ d0.state # "OPEN"
  <2>1. Opens(d0, r, Newest)
    BY <1>3, <1>7 DEF ReadsBar, Stays, Breaks, Rests
  <2>2. d0 = engine
    BY <1>5, <2>1 DEF Opens, HasRead
  <2>3. Newest \in witnessed' /\ witnessed \subseteq witnessed'
    BY <1>2, <1>7
  <2> QED  BY <1>2, <1>3, <1>4, <1>7, <2>1, <2>2, <2>3 DEF Opens
<1>8. CASE r.state # "OPEN"
  BY <1>2, <1>3, <1>4, <1>8
<1> QED  BY <1>6, <1>7, <1>8

LEMMA OrderingLaw ==
  ASSUME TapeInv, PlaceOrder, ordered \in Seq(Nat)
  PROVE  /\ engine \in Data /\ engine.state = "OPEN" /\ engine.placed < engine.seq
         /\ engine.confirmed \in Nat /\ engine.confirmed <= Newest
         /\ engine' \in Data /\ engine'.state = "OPEN" /\ engine'.placed = engine'.seq
         /\ engine'.confirmed = engine.confirmed
         /\ ordered' \in Seq(Nat) /\ Len(ordered') = Len(ordered) + 1
         /\ \A k \in 1..Len(ordered) : ordered'[k] = ordered[k]
         /\ ordered'[Len(ordered) + 1] = engine.confirmed
<1>1. /\ engine.state = "OPEN" /\ engine' = [engine EXCEPT !.placed = engine.seq] /\ ~Spent
      /\ ordered' = Append(ordered, engine.confirmed) /\ engine \in Data
  BY DEF PlaceOrder, TapeInv, Sound, SoundOn
<1>2. engine.confirmed \in Nat /\ engine.seq \in Nat /\ engine.placed \in Nat
  BY <1>1 DEF Data
<1>3. engine.confirmed <= Newest /\ engine.seq > 0
  <2>1. engine.born \in Nat /\ Newest \in Nat
    BY <1>1 DEF Data, TapeInv, Newest
  <2> QED  BY <1>1, <2>1 DEF TapeInv, Sound, SoundOn, Newest
<1>4. engine.placed < engine.seq
  BY <1>1, <1>2, <1>3 DEF Spent
<1>5. engine' \in Data /\ engine'.state = "OPEN" /\ engine'.placed = engine.seq
      /\ engine'.seq = engine.seq /\ engine'.confirmed = engine.confirmed
  BY <1>1 DEF Data
<1>6. /\ ordered' \in Seq(Nat) /\ Len(ordered') = Len(ordered) + 1
      /\ \A k \in 1..Len(ordered) : ordered'[k] = ordered[k]
      /\ ordered'[Len(ordered) + 1] = engine.confirmed
  BY <1>1, <1>2
<1> QED  BY <1>1, <1>2, <1>3, <1>4, <1>5, <1>6

LEMMA SeenStep ==
  ASSUME TapeInv, SeenInv, [OrbNext]_orbVars
  PROVE  SeenInv'
<1>0. Newest \in Nat /\ ordered \in Seq(Nat) /\ Len(ordered) \in Nat
  BY DEF Newest, TapeInv, SeenInv
<1>1. CASE AnalysisTick
  <2>1. Newest' = Newest /\ ordered' = ordered
    BY <1>1 DEF AnalysisTick, Newest
  <2>2. engine'.state = "OPEN" => engine'.confirmed \in witnessed'
    <3>1. CASE engine.state = "OPEN" /\ Setup(engine') = Setup(engine) /\ witnessed \subseteq witnessed'
      <4>1. engine'.confirmed = engine.confirmed
        BY <3>1 DEF Setup
      <4> QED  BY <3>1, <4>1 DEF SeenInv
    <3> QED  BY <1>1, <3>1, OpenedLaw
  <2>3. witnessed \subseteq witnessed' /\ engine' \in Data /\ orbFile' \in {Saved(engine'), orbFile}
    BY <1>1, OpenedLaw
  <2>4. \A d \in Data : Saved(d).state = d.state /\ Saved(d).confirmed = d.confirmed
    BY SavedLaw
  <2>5. Saved(engine').state = engine'.state /\ Saved(engine').confirmed = engine'.confirmed
    BY <2>3, <2>4
  <2>6. orbFile'.state = "OPEN" => orbFile'.confirmed \in witnessed'
    BY <2>2, <2>3, <2>5 DEF SeenInv
  <2> QED  BY <2>1, <2>2, <2>3, <2>6 DEF SeenInv, OrdersAreSeen
<1>2. CASE PlaceOrder
  <2>1. Newest' = Newest /\ orbFile' = orbFile /\ witnessed' = witnessed
    BY <1>2 DEF PlaceOrder, Newest
  <2>2. /\ engine.state = "OPEN" /\ engine.confirmed <= Newest /\ engine'.confirmed = engine.confirmed
        /\ ordered' \in Seq(Nat) /\ Len(ordered') = Len(ordered) + 1
        /\ \A k \in 1..Len(ordered) : ordered'[k] = ordered[k]
        /\ ordered'[Len(ordered) + 1] = engine.confirmed
    BY <1>0, <1>2, OrderingLaw
  <2>3. engine.confirmed \in witnessed
    BY <2>2 DEF SeenInv
  <2>4. \A k \in 1..Len(ordered') : k \in 1..Len(ordered) \/ k = Len(ordered) + 1
    BY <1>0, <2>2
  <2>5. \A k \in 1..Len(ordered') : ordered'[k] <= Newest /\ ordered'[k] \in witnessed
    BY <2>2, <2>3, <2>4 DEF SeenInv, OrdersAreSeen
  <2> QED  BY <2>1, <2>2, <2>3, <2>5 DEF SeenInv, OrdersAreSeen
<1>3. CASE TradeEnds \/ RunawayFires
  <2>1. PositionClosed(engine).state # "OPEN"
    BY ClosedLaw DEF TapeInv
  <2>2. /\ engine' = PositionClosed(engine) /\ tape' = tape /\ orbFile' = orbFile
        /\ ordered' = ordered /\ witnessed' = witnessed
    BY <1>3 DEF TradeEnds, RunawayFires
  <2> QED  BY <2>1, <2>2 DEF SeenInv, OrdersAreSeen, Newest
<1>4. CASE BarCloses
  <2>1. Newest' = Newest + 1
    BY <1>4 DEF BarCloses, Newest, TapeInv
  <2>2. \A k \in 1..Len(ordered) : ordered[k] \in Nat
    BY <1>0
  <2>3. \A k \in 1..Len(ordered) : ordered[k] <= Newest + 1
    BY <1>0, <2>2 DEF SeenInv
  <2> QED  BY <1>4, <2>1, <2>3 DEF BarCloses, SeenInv, OrdersAreSeen
<1>5. CASE CutoffPasses \/ TickEnds \/ ProcessDies \/ ProcessStarts \/ UNCHANGED orbVars
  BY <1>5 DEF CutoffPasses, TickEnds, ProcessDies, ProcessStarts, orbVars, SeenInv, OrdersAreSeen, Newest
<1> QED  BY <1>1, <1>2, <1>3, <1>4, <1>5 DEF OrbNext

LEMMA SeenAlways == OrbSpec => []SeenInv
<1>1. OrbInit => SeenInv
  BY DEF OrbInit, Fresh, SeenInv, OrdersAreSeen
<1> QED  BY <1>1, TapeAlways, SeenStep, PTL DEF OrbSpec

\* Every order is for a confirmation that some engine saw with its bar the newest, so no replay of
\* old bars orders: for any number of deaths, and with every glitch.
THEOREM OrdersAreAlwaysSeen == OrbSpec => []OrdersAreSeen
<1>1. SeenInv => OrdersAreSeen
  BY DEF SeenInv
<1> QED  BY <1>1, SeenAlways, PTL

-----------------------------------------------------------------------------
\* A bar that was ordered on, and whose trade has not ended while the bar was the newest.
Taken(i) == (\E k \in 1..Len(ordered) : ordered[k] = i) /\ i \notin quick

\* A confirmation that would be ordered on a second time.
Doubles(d) == d.state = "OPEN" /\ d.placed < d.seq /\ Taken(d.confirmed)

\* With one death at most, and a file that saves: a confirmation that was ordered on is marked in
\* the engine, or its trade is on; and the file is behind only until the trade can end.
OnceInv ==
  /\ OrdersAreApart
  /\ ~alive => deaths = 1
  /\ Taken(Newest) => /\ engine.state = "ARMED" => HasRead(engine, Newest)
                      /\ orbFile.state = "ARMED" => HasRead(orbFile, Newest)
  /\ alive /\ turn = "trade" => orbFile = Saved(engine) \/ engine.state # "OPEN"
  /\ alive /\ Doubles(engine) => trading /\ deaths = 1
  /\ Doubles(orbFile) /\ (deaths = 0 \/ ~alive) => trading /\ (alive => turn # "trade")

LEMMA OnceStep ==
  ASSUME "save" \notin Glitches, MaxRestarts <= 1, TapeInv, SeenInv, OnceInv, [OrbNext]_orbVars
  PROVE  OnceInv'
<1>0. /\ Newest \in Nat /\ ordered \in Seq(Nat) /\ Len(ordered) \in Nat /\ deaths \in Nat
      /\ \A k \in 1..Len(ordered) : ordered[k] \in Nat /\ ordered[k] <= Newest
      /\ deaths \in {0, 1}
  BY DEF Newest, TapeInv, SeenInv
<1>1. CASE AnalysisTick
  <2>1. /\ Newest' = Newest /\ ordered' = ordered /\ quick' = quick /\ tape' = tape /\ alive /\ alive'
        /\ deaths' = deaths /\ trading' = trading /\ turn' = "trade"
    BY <1>1 DEF AnalysisTick, Newest
  <2>2. /\ engine'.state = "ARMED" => HasRead(engine', Newest)
        /\ orbFile' = Saved(engine') /\ engine' \in Data
    BY <1>1, OpenedLaw
  <2>3. \A d \in Data : /\ Saved(d).state = d.state /\ Saved(d).confirmed = d.confirmed
                        /\ Saved(d).placed = d.placed /\ Saved(d).seq = d.seq
                        /\ HasRead(Saved(d), Newest) = HasRead(d, Newest)
    BY SavedLaw DEF HasRead
  <2>4. /\ orbFile'.state = engine'.state /\ orbFile'.confirmed = engine'.confirmed
        /\ orbFile'.placed = engine'.placed /\ orbFile'.seq = engine'.seq
        /\ HasRead(orbFile', Newest) = HasRead(engine', Newest)
    BY <2>2, <2>3
  <2>5. \A i : Taken(i)' = Taken(i)
    BY <2>1 DEF Taken
  <2>6. Doubles(engine)' => Doubles(engine)
    <3> SUFFICES ASSUME engine'.state = "OPEN", engine'.placed < engine'.seq,
                        Taken(engine'.confirmed)
                 PROVE  Doubles(engine)
      BY <2>1 DEF Doubles, Taken
    <3>1. CASE engine.state = "OPEN" /\ Setup(engine') = Setup(engine)
      <4>1. /\ engine'.confirmed = engine.confirmed /\ engine'.placed = engine.placed
            /\ engine'.seq = engine.seq
        BY <3>1 DEF Setup
      <4> QED  BY <3>1, <4>1 DEF Doubles
    <3>2. CASE /\ engine'.confirmed = Newest /\ engine.state = "ARMED"
               /\ (engine.aged \/ engine.readTs # Newest) /\ Retests(engine.dir, tape[Newest])
      <4>1. HasRead(engine, Newest)
        BY <3>2 DEF OnceInv
      <4> QED  BY <3>2, <4>1 DEF HasRead
    <3> QED  BY <1>1, <3>1, <3>2, OpenedLaw
  <2>7. Doubles(orbFile)' => Doubles(engine)
    BY <2>1, <2>4, <2>6 DEF Doubles, Taken
  <2>8. /\ engine'.state = "ARMED" => HasRead(engine, Newest)'
        /\ orbFile'.state = "ARMED" => HasRead(orbFile, Newest)'
    BY <2>1, <2>2, <2>4 DEF HasRead
  <2>9. OrdersAreApart'
    BY <2>1 DEF OnceInv, OrdersAreApart
  <2>10. (orbFile = Saved(engine))'
    BY <2>2 DEF Saved
  <2> QED  BY <1>0, <2>1, <2>6, <2>7, <2>8, <2>9, <2>10 DEF OnceInv
<1>2. CASE PlaceOrder
  <2>1. /\ Newest' = Newest /\ quick' = quick /\ tape' = tape /\ orbFile' = orbFile /\ alive /\ alive'
        /\ deaths' = deaths /\ ~trading /\ trading' /\ turn = "trade" /\ turn' = "entries"
    BY <1>2 DEF PlaceOrder, Newest
  <2>2. /\ engine \in Data /\ engine.state = "OPEN" /\ engine.placed < engine.seq
        /\ engine' \in Data /\ engine'.state = "OPEN" /\ engine'.placed = engine'.seq
        /\ Len(ordered') = Len(ordered) + 1
        /\ \A k \in 1..Len(ordered) : ordered'[k] = ordered[k]
        /\ ordered'[Len(ordered) + 1] = engine.confirmed
    BY <1>0, <1>2, OrderingLaw
  <2>3. ~Taken(engine.confirmed)
    BY <2>1, <2>2 DEF OnceInv, Doubles
  <2>4. \A k \in 1..Len(ordered') : k \in 1..Len(ordered) \/ k = Len(ordered) + 1
    BY <1>0, <2>2
  <2>5. ASSUME NEW j \in 1..Len(ordered'), NEW k \in 1..Len(ordered'), j # k, ordered'[j] = ordered'[k]
        PROVE  ordered'[j] \in quick'
    <3>1. CASE j \in 1..Len(ordered) /\ k \in 1..Len(ordered)
      BY <2>1, <2>2, <2>5, <3>1 DEF OnceInv, OrdersAreApart
    <3>2. CASE j \in 1..Len(ordered) /\ k = Len(ordered) + 1
      BY <2>1, <2>2, <2>3, <2>5, <3>2 DEF Taken
    <3>3. CASE j = Len(ordered) + 1 /\ k \in 1..Len(ordered)
      BY <2>1, <2>2, <2>3, <2>5, <3>3 DEF Taken
    <3> QED  BY <2>4, <2>5, <3>1, <3>2, <3>3
  <2>6. OrdersAreApart'
    BY <2>5 DEF OrdersAreApart
  <2>7. ~Doubles(engine)'
    BY <2>2 DEF Doubles, Data
  <2>8. orbFile'.state = "OPEN"
    BY <2>1, <2>2, SavedLaw DEF OnceInv
  <2> QED  BY <2>1, <2>2, <2>6, <2>7, <2>8 DEF OnceInv
<1>3. CASE TradeEnds
  <2>1. /\ Newest' = Newest /\ quick' = quick \cup {Newest} /\ tape' = tape /\ orbFile' = orbFile
        /\ ordered' = ordered /\ alive /\ alive' /\ deaths' = deaths /\ turn = "trade"
        /\ turn' = turn /\ engine' = PositionClosed(engine)
    BY <1>3 DEF TradeEnds, Newest
  <2>2. PositionClosed(engine).state # "OPEN"
    BY ClosedLaw DEF TapeInv
  <2>3. ~Taken(Newest)' /\ \A i : Taken(i)' => Taken(i)
    BY <2>1 DEF Taken
  <2>4. ~Doubles(engine)' /\ engine'.state # "OPEN"
    BY <2>1, <2>2 DEF Doubles
  <2>5. Doubles(orbFile)' => Doubles(orbFile)
    BY <2>1 DEF Doubles, Taken
  <2>6. OrdersAreApart'
    BY <2>1 DEF OnceInv, OrdersAreApart
  <2>7. Doubles(orbFile)' /\ deaths = 0 => FALSE
    BY <2>1, <2>5 DEF OnceInv
  <2> QED  BY <2>1, <2>3, <2>4, <2>6, <2>7 DEF OnceInv
<1>4. CASE RunawayFires
  <2>1. /\ Newest' = Newest /\ quick' = quick /\ tape' = tape /\ orbFile' = orbFile
        /\ ordered' = ordered /\ alive /\ alive' /\ deaths' = deaths /\ trading' = trading
        /\ turn' = "analysis" /\ engine' = PositionClosed(engine) /\ engine.accepted
    BY <1>4 DEF RunawayFires, Newest
  <2>2. /\ PositionClosed(engine).state # "OPEN"
        /\ PositionClosed(engine).state = "ARMED" => PositionClosed(engine) = engine
    BY <2>1, ClosedLaw DEF TapeInv
  <2>3. Taken(Newest)' = Taken(Newest) /\ Doubles(orbFile)' = Doubles(orbFile)
    BY <2>1 DEF Taken, Doubles
  <2>4. ~Doubles(engine)' /\ (engine'.state = "ARMED" => engine' = engine)
    BY <2>1, <2>2 DEF Doubles
  <2>5. /\ (engine.state = "ARMED" => HasRead(engine, Newest)) /\ engine'.state = "ARMED"
             => HasRead(engine, Newest)'
        /\ HasRead(orbFile, Newest)' = HasRead(orbFile, Newest)
    BY <2>1, <2>4 DEF HasRead
  <2>6. OrdersAreApart'
    BY <2>1 DEF OnceInv, OrdersAreApart
  <2> QED  BY <2>1, <2>3, <2>4, <2>5, <2>6 DEF OnceInv
<1>5. CASE BarCloses
  <2>1. /\ Newest' = Newest + 1 /\ quick' = quick /\ engine' = engine /\ orbFile' = orbFile
        /\ ordered' = ordered /\ alive' = alive /\ deaths' = deaths /\ trading' = trading
        /\ turn' = turn
    BY <1>5 DEF BarCloses, Newest, TapeInv
  <2>2. ~Taken(Newest)'
    BY <1>0, <2>1 DEF Taken
  <2>3. Doubles(engine)' = Doubles(engine) /\ Doubles(orbFile)' = Doubles(orbFile)
    BY <2>1 DEF Doubles, Taken
  <2>4. OrdersAreApart' /\ (orbFile = Saved(engine))' = (orbFile = Saved(engine))
    BY <2>1 DEF OnceInv, OrdersAreApart, Saved
  <2> QED  BY <2>1, <2>2, <2>3, <2>4 DEF OnceInv
<1>6. CASE ProcessStarts
  <2>1. /\ Newest' = Newest /\ quick' = quick /\ tape' = tape /\ orbFile' = orbFile
        /\ ordered' = ordered /\ ~alive /\ alive' /\ deaths' = deaths /\ trading' = trading
        /\ turn' = "analysis" /\ engine' = orbFile
    BY <1>6 DEF ProcessStarts, Newest
  <2>2. /\ Doubles(engine)' = Doubles(orbFile) /\ Taken(Newest)' = Taken(Newest)
        /\ HasRead(engine, Newest)' = HasRead(orbFile, Newest)
        /\ HasRead(orbFile, Newest)' = HasRead(orbFile, Newest)
    BY <2>1 DEF Doubles, Taken, HasRead
  <2>3. OrdersAreApart'
    BY <2>1 DEF OnceInv, OrdersAreApart
  <2> QED  BY <2>1, <2>2, <2>3 DEF OnceInv
<1>7. CASE ProcessDies
  <2>1. /\ Newest' = Newest /\ quick' = quick /\ tape' = tape /\ orbFile' = orbFile
        /\ ordered' = ordered /\ alive /\ ~alive' /\ deaths' = deaths + 1 /\ deaths < MaxRestarts
        /\ trading' = trading /\ engine' = engine
    BY <1>7 DEF ProcessDies, Newest
  <2>2. deaths = 0 /\ deaths' = 1
    BY <1>0, <2>1
  <2>3. /\ Doubles(orbFile)' = Doubles(orbFile) /\ Taken(Newest)' = Taken(Newest)
        /\ HasRead(engine, Newest)' = HasRead(engine, Newest)
        /\ HasRead(orbFile, Newest)' = HasRead(orbFile, Newest)
    BY <2>1 DEF Doubles, Taken, HasRead
  <2>4. OrdersAreApart'
    BY <2>1 DEF OnceInv, OrdersAreApart
  <2> QED  BY <2>1, <2>2, <2>3, <2>4 DEF OnceInv
<1>8. CASE CutoffPasses \/ TickEnds \/ UNCHANGED orbVars
  <2>1. /\ Newest' = Newest /\ quick' = quick /\ tape' = tape /\ orbFile' = orbFile
        /\ ordered' = ordered /\ alive' = alive /\ deaths' = deaths /\ trading' = trading
        /\ turn' \in {turn, "analysis"} /\ engine' = engine
    BY <1>8 DEF CutoffPasses, TickEnds, orbVars, Newest
  <2>2. /\ Doubles(orbFile)' = Doubles(orbFile) /\ Doubles(engine)' = Doubles(engine)
        /\ Taken(Newest)' = Taken(Newest)
        /\ HasRead(engine, Newest)' = HasRead(engine, Newest)
        /\ HasRead(orbFile, Newest)' = HasRead(orbFile, Newest)
    BY <2>1 DEF Doubles, Taken, HasRead
  <2>3. OrdersAreApart' /\ (orbFile = Saved(engine))' = (orbFile = Saved(engine))
    BY <2>1 DEF OnceInv, OrdersAreApart, Saved
  <2> QED  BY <2>1, <2>2, <2>3 DEF OnceInv
<1> QED  BY <1>1, <1>2, <1>3, <1>4, <1>5, <1>6, <1>7, <1>8 DEF OrbNext

\* With one death at most and a file that saves, no confirmation is ordered on twice.  With a second
\* death, or a save that fails, one can be: the file still holds as unspent a confirmation whose
\* trade has already ended.
THEOREM OrdersStayFresh ==
  ASSUME "save" \notin Glitches, MaxRestarts <= 1
  PROVE  OrbSpec => []OrdersAreFresh
<1>1. OrbInit => OnceInv
  <2>1. OrbInit => Len(ordered) = 0
    BY DEF OrbInit
  <2> QED  BY <2>1 DEF OrbInit, Fresh, OnceInv, OrdersAreApart, Taken, Doubles
<1>2. TapeInv /\ SeenInv /\ OnceInv /\ [OrbNext]_orbVars => OnceInv'
  BY OnceStep
<1>3. SeenInv /\ OnceInv => OrdersAreFresh
  BY DEF SeenInv, OnceInv, OrdersAreFresh
<1> QED  BY <1>1, <1>2, <1>3, TapeAlways, SeenAlways, PTL DEF OrbSpec

-----------------------------------------------------------------------------
(***************************************************************************)
(* The replay forgets what the file held: an engine that holds no break is *)
(* as a new one, and a bar that closes inside the range drops every break. *)
(***************************************************************************)
\* What an engine may be besides holding a break: expired past the cutoff, invalidated for a reason
\* that re-arms it, or as new but for the last close.
Anew(s, x) ==
  [state |-> s, dir |-> 0, reason |-> "none", seq |-> 0, placed |-> 0, born |-> 0, readTs |-> 0,
   aged |-> FALSE, confirmed |-> 0, pending |-> FALSE, accepted |-> FALSE, inside |-> x]

Blank(d) == d = Anew(d.state, d.inside)

Plain(d) ==
  /\ d \in Data
  /\ d.state = "EXPIRED" => late
  /\ d.state = "INVALIDATED" => d.reason \in {"close_inside", "runaway"}
  /\ d.state \in {"WAITING", "REENTRY"} => Blank(d)

Fields == {"state", "dir", "reason", "seq", "placed", "born", "readTs", "aged", "confirmed",
           "pending", "accepted", "inside"}

LEMMA SameFields ==
  ASSUME NEW a, NEW b, a = [f \in Fields |-> a[f]], b = [f \in Fields |-> b[f]],
         /\ a.state = b.state /\ a.dir = b.dir /\ a.reason = b.reason /\ a.seq = b.seq
         /\ a.placed = b.placed /\ a.born = b.born /\ a.readTs = b.readTs /\ a.aged = b.aged
         /\ a.confirmed = b.confirmed /\ a.pending = b.pending /\ a.accepted = b.accepted
         /\ a.inside = b.inside
  PROVE  a = b
<1>1. \A f \in Fields : a[f] = b[f]
  BY DEF Fields
<1> QED  BY <1>1

LEMMA AnewFields ==
  \A s, x : /\ Anew(s, x).state = s /\ Anew(s, x).inside = x /\ Anew(s, x).dir = 0
            /\ Anew(s, x).accepted = FALSE /\ Anew(s, x).reason = "none"
  BY DEF Anew

LEMMA BlankLaw ==
  ASSUME NEW d, Blank(d)
  PROVE  /\ d.dir = 0 /\ d.accepted = FALSE /\ d.reason = "none"
         /\ \A s : Blank([d EXCEPT !.state = s])
         /\ \A x : Blank([d EXCEPT !.inside = x])
<1> DEFINE s0 == d.state
           x0 == d.inside
<1>1. d = Anew(s0, x0)
  BY DEF Blank
<1> HIDE DEF s0, x0
<1>2. d.dir = 0 /\ d.accepted = FALSE /\ d.reason = "none"
  BY <1>1, AnewFields
<1>3. ASSUME NEW s PROVE Blank([d EXCEPT !.state = s])
  <2>1. [d EXCEPT !.state = s] = Anew(s, x0)
    <3> DEFINE a == [d EXCEPT !.state = s]
               b == Anew(s, x0)
    <3>1. a = [f \in Fields |-> a[f]] /\ b = [f \in Fields |-> b[f]]
      BY <1>1 DEF Anew, Fields
    <3>2. /\ a.state = b.state /\ a.dir = b.dir /\ a.reason = b.reason /\ a.seq = b.seq
          /\ a.placed = b.placed /\ a.born = b.born /\ a.readTs = b.readTs /\ a.aged = b.aged
          /\ a.confirmed = b.confirmed /\ a.pending = b.pending /\ a.accepted = b.accepted
          /\ a.inside = b.inside
      BY <1>1 DEF Anew
    <3> HIDE DEF a, b
    <3>3. a = b
      BY <3>1, <3>2, SameFields
    <3> QED  BY <3>3 DEF a, b
  <2>2. Anew(s, x0).state = s /\ Anew(s, x0).inside = x0
    BY AnewFields
  <2> QED  BY <2>1, <2>2 DEF Blank
<1>4. ASSUME NEW x PROVE Blank([d EXCEPT !.inside = x])
  <2>1. [d EXCEPT !.inside = x] = Anew(s0, x)
    <3> DEFINE a == [d EXCEPT !.inside = x]
               b == Anew(s0, x)
    <3>1. a = [f \in Fields |-> a[f]] /\ b = [f \in Fields |-> b[f]]
      BY <1>1 DEF Anew, Fields
    <3>2. /\ a.state = b.state /\ a.dir = b.dir /\ a.reason = b.reason /\ a.seq = b.seq
          /\ a.placed = b.placed /\ a.born = b.born /\ a.readTs = b.readTs /\ a.aged = b.aged
          /\ a.confirmed = b.confirmed /\ a.pending = b.pending /\ a.accepted = b.accepted
          /\ a.inside = b.inside
      BY <1>1 DEF Anew
    <3> HIDE DEF a, b
    <3>3. a = b
      BY <3>1, <3>2, SameFields
    <3> QED  BY <3>3 DEF a, b
  <2>2. Anew(s0, x).state = s0 /\ Anew(s0, x).inside = x
    BY AnewFields
  <2> QED  BY <2>1, <2>2 DEF Blank
<1> QED  BY <1>2, <1>3, <1>4

LEMMA RearmIsBlank == \A r \in BOOLEAN : Plain(Rearm(r)) /\ Blank(Rearm(r))
<1>1. ASSUME NEW s PROVE [Fresh EXCEPT !.state = s] = Anew(s, FALSE)
  <2> DEFINE a == [Fresh EXCEPT !.state = s]
             b == Anew(s, FALSE)
  <2>1. a = [f \in Fields |-> a[f]] /\ b = [f \in Fields |-> b[f]]
    BY DEF Fresh, Anew, Fields
  <2>2. /\ a.state = b.state /\ a.dir = b.dir /\ a.reason = b.reason /\ a.seq = b.seq
        /\ a.placed = b.placed /\ a.born = b.born /\ a.readTs = b.readTs /\ a.aged = b.aged
        /\ a.confirmed = b.confirmed /\ a.pending = b.pending /\ a.accepted = b.accepted
        /\ a.inside = b.inside
    BY DEF Fresh, Anew
  <2> HIDE DEF a, b
  <2>3. a = b
    BY <2>1, <2>2, SameFields
  <2> QED  BY <2>3 DEF a, b
<1>2. \A r \in BOOLEAN : Rearm(r) \in Data /\ Rearm(r).state \in {"WAITING", "REENTRY"}
  BY RearmLaw
<1>3. \A s : Blank(Anew(s, FALSE))
  <2>1. \A s : Anew(s, FALSE).state = s /\ Anew(s, FALSE).inside = FALSE
    BY AnewFields
  <2> QED  BY <2>1 DEF Blank
<1>4. \A r \in BOOLEAN : Blank(Rearm(r))
  <2> SUFFICES ASSUME NEW r \in BOOLEAN PROVE Blank(Rearm(r))
    OBVIOUS
  <2> DEFINE s == IF r THEN "WAITING" ELSE "REENTRY"
  <2>1. Rearm(r) = [Fresh EXCEPT !.state = s]
    BY DEF Rearm
  <2> HIDE DEF s
  <2>2. Rearm(r) = Anew(s, FALSE)
    BY <1>1, <2>1, Zenon
  <2> QED  BY <1>3, <2>2
<1> QED  BY <1>2, <1>4 DEF Plain

LEMMA TrackIsPlain ==
  ASSUME NEW d, Plain(d), NEW b
  PROVE  Plain(TrackFifty(d, b))
<1> DEFINE e == TrackFifty(d, b)
<1>1. d \in Data /\ e \in Data /\ (e.state = d.state \/ (d.state = "ARMED" /\ e.state = "INVALIDATED"))
  BY TrackLaw DEF Plain
<1>2. CASE d.state \in {"WAITING", "REENTRY"}
  <2>1. d.dir = 0
    BY <1>1, <1>2, BlankLaw DEF Plain
  <2>2. e = d
    BY <2>1 DEF TrackFifty
  <2> QED  BY <2>2
<1>3. CASE d.state \notin {"WAITING", "REENTRY"}
  <2>1. e.state = "INVALIDATED" => e.reason = "runaway" \/ (d.state = "INVALIDATED" /\ e.reason = d.reason)
    BY <1>1 DEF TrackFifty, Runaway, Data
  <2> HIDE DEF e
  <2> QED  BY <1>1, <1>3, <2>1 DEF Plain, e
<1> QED  BY <1>2, <1>3

LEMMA LatchIsPlain ==
  ASSUME NEW d, Plain(d), NEW i
  PROVE  Plain(Latch(d, i))
<1> DEFINE in == Inside(tape[i].close)
           e == [d EXCEPT !.inside = in]
<1>1. in \in BOOLEAN
  BY DEF Inside
<1> HIDE DEF in
<1>2. d \in Data /\ e \in Data /\ e.state = d.state /\ e.reason = d.reason
  BY <1>1 DEF Plain, Data
<1>3. d.state \in {"WAITING", "REENTRY"} => Blank(e)
  BY <1>1, <1>2, BlankLaw DEF Plain
<1> HIDE DEF e
<1>4. Plain(e)
  BY <1>2, <1>3 DEF Plain
<1> QED  BY <1>4, TrackIsPlain DEF Latch, e, in

LEMMA AdvanceIsPlain ==
  ASSUME tape \in Seq(Bars), NEW i \in 1..Newest, NEW d, Plain(d)
  PROVE  Plain(Advance(d, i))
<1> DEFINE r == Advance(d, i)
           back == IF d.state = "REENTRY" /\ Inside(tape[i].close) THEN [d EXCEPT !.state = "WAITING"]
                   ELSE d
           armed == IF back.state = "WAITING" THEN CheckForBreak(back, i) ELSE back
           track == TrackFifty(armed, tape[i])
           judged == IF armed.state = "ARMED" THEN CheckForRetest(track, i) ELSE armed
<1>1. CASE d.state = "OPEN"
  BY <1>1 DEF Advance
<1>2. CASE d.state # "OPEN"
  <2>1. r = IF judged.state = "INVALIDATED"
                /\ (judged.reason = "close_inside" \/ (judged.reason = "runaway" /\ Inside(tape[i].close)))
            THEN Rearm(TRUE) ELSE judged
    BY <1>2 DEF Advance
  <2>2. Plain(back)
    <3>1. CASE d.state = "REENTRY"
      <4>1. \A s \in EngineStates : Blank([d EXCEPT !.state = s]) /\ [d EXCEPT !.state = s] \in Data
        BY <3>1, BlankLaw DEF Plain, Data
      <4>2. Blank([d EXCEPT !.state = "WAITING"]) /\ [d EXCEPT !.state = "WAITING"] \in Data
        BY <4>1 DEF EngineStates
      <4>3. [d EXCEPT !.state = "WAITING"].state = "WAITING"
        BY DEF Plain, Data
      <4> QED  BY <4>2, <4>3 DEF Plain
    <3>2. CASE d.state # "REENTRY"
      BY <3>2
    <3> QED  BY <3>1, <3>2
  <2> HIDE DEF back
  <2>3. Plain(armed)
    <3>1. CASE back.state = "WAITING"
      <4>1. armed = CheckForBreak(back, i)
        BY <3>1 DEF armed
      <4>2. armed = back \/ (armed \in Data /\ armed.state = "ARMED")
        BY <2>2, <4>1, BreakLaw DEF Plain
      <4> HIDE DEF armed
      <4> QED  BY <2>2, <4>2 DEF Plain
    <3>2. CASE back.state # "WAITING"
      BY <2>2, <3>2
    <3> QED  BY <3>1, <3>2
  <2> HIDE DEF armed
  <2>4. Plain(judged)
    <3>1. CASE armed.state # "ARMED"
      BY <2>3, <3>1
    <3>2. CASE armed.state = "ARMED"
      <4>1. Plain(track)
        BY <2>3, TrackIsPlain
      <4>2. /\ judged = CheckForRetest(track, i) /\ judged \in Data
            /\ judged.state \in {"ARMED", "OPEN", "INVALIDATED"}
        <5>1. /\ judged = CheckForRetest(track, i) /\ judged \in Data
              /\ Opens(armed, judged, i) \/ Stays(armed, judged, i) \/ judged.state = "INVALIDATED"
          BY <2>3, <3>2, JudgeLaw DEF Plain
        <5> HIDE DEF judged
        <5> QED  BY <5>1 DEF Opens, Stays
      <4>3. track.state \in {"ARMED", "INVALIDATED"} /\ track \in Data
        BY <2>3, <3>2, TrackLaw DEF Plain
      <4> HIDE DEF track
      <4>4. CheckForRetest(track, i).state = "INVALIDATED"
              => CheckForRetest(track, i).reason \in {"close_inside", "runaway"}
        <5> DEFINE e == IF i = track.readTs THEN track ELSE [track EXCEPT !.readTs = i, !.aged = TRUE]
        <5>1. e.state = track.state /\ e.reason = track.reason /\ e \in Data
          <6>1. i \in Nat
            BY BarIsShaped
          <6> QED  BY <4>3, <6>1 DEF Data
        <5>2. \/ CheckForRetest(track, i) = e
              \/ CheckForRetest(track, i) = Runaway(e)
              \/ CheckForRetest(track, i) = [e EXCEPT !.state = "OPEN", !.confirmed = i, !.seq = @ + 1]
              \/ CheckForRetest(track, i) = [e EXCEPT !.state = "INVALIDATED", !.reason = "close_inside"]
          BY DEF CheckForRetest
        <5> HIDE DEF e
        <5>3. [e EXCEPT !.state = "OPEN", !.confirmed = i, !.seq = @ + 1].state # "INVALIDATED"
          BY <5>1 DEF Data
        <5>4. Runaway(e).reason = "runaway"
          BY <5>1 DEF Data, Runaway
        <5>5. [e EXCEPT !.state = "INVALIDATED", !.reason = "close_inside"].reason = "close_inside"
          BY <5>1 DEF Data
        <5> QED  BY <4>1, <4>3, <5>1, <5>2, <5>3, <5>4, <5>5 DEF Plain
      <4> HIDE DEF judged
      <4> QED  BY <4>2, <4>4 DEF Plain
    <3> QED  BY <3>1, <3>2
  <2> HIDE DEF judged, r
  <2>5. Plain(r)
    BY <2>1, <2>4, RearmIsBlank
  <2> QED  BY <2>5 DEF r
<1> QED  BY <1>1, <1>2

LEMMA UpdateIsPlain ==
  ASSUME tape \in Seq(Bars), NEW i \in 1..Newest, NEW d, Plain(d)
  PROVE  Plain(Update(d, i))
<1>1. CASE ~late
  BY <1>1, LatchIsPlain, AdvanceIsPlain DEF Update
<1>2. CASE late
  <2> DEFINE e == Latch(d, i)
  <2>1. Update(d, i) = [e EXCEPT !.state = "EXPIRED"]
    BY <1>2 DEF Update
  <2>2. e \in Data
    BY LatchIsPlain DEF Plain
  <2> HIDE DEF e
  <2>3. [e EXCEPT !.state = "EXPIRED"] \in Data /\ [e EXCEPT !.state = "EXPIRED"].state = "EXPIRED"
    BY <2>2 DEF Data, EngineStates
  <2> QED  BY <1>2, <2>1, <2>3 DEF Plain
<1> QED  BY <1>1, <1>2

LEMMA ReplayIsPlain ==
  ASSUME tape \in Seq(Bars), NEW d, Plain(d)
  PROVE  Plain(Replay(d))
<1>0. Newest \in Nat
  BY DEF Newest
<1>1. PICK w : /\ w[0] = d /\ Replay(d) = w[Newest]
               /\ \A i \in 1..Newest : w[i] = Advance(Latch(w[i - 1], i), i)
  BY <1>0, ReplayWalks
<1> DEFINE S == {n \in Nat : n <= Newest => Plain(w[n])}
<1>2. 0 \in S
  BY <1>1
<1>3. ASSUME NEW n \in Nat, n \in S PROVE n + 1 \in S
  <2> SUFFICES ASSUME n + 1 <= Newest PROVE Plain(w[n + 1])
    OBVIOUS
  <2>1. n + 1 \in 1..Newest /\ n + 1 - 1 = n /\ n <= Newest
    BY <1>0
  <2>2. Plain(w[n]) /\ w[n + 1] = Advance(Latch(w[n], n + 1), n + 1)
    BY <1>1, <1>3, <2>1
  <2> QED  BY <2>1, <2>2, LatchIsPlain, AdvanceIsPlain
<1> HIDE DEF S
<1>4. Newest \in S /\ Newest <= Newest
  BY <1>0, <1>2, <1>3, Upward
<1> QED  BY <1>1, <1>4 DEF S

LEMMA RebuildIsPlain ==
  ASSUME tape \in Seq(Bars), NEW d, Plain(d)
  PROVE  Plain(RebuildFromTape(d))
<1> DEFINE r == Replay(d)
           x == [r EXCEPT !.state = "EXPIRED", !.reason = "missed_while_down"]
<1>1. Plain(r)
  BY ReplayIsPlain
<1> HIDE DEF r
<1>2. late => Plain(x)
  <2>1. x \in Data /\ x.state = "EXPIRED"
    BY <1>1 DEF Plain, Data, EngineStates, Reasons
  <2> HIDE DEF x
  <2> QED  BY <2>1 DEF Plain
<1> QED  BY <1>1, <1>2, RearmIsBlank DEF RebuildFromTape, r

LEMMA SavedIsPlain == ASSUME NEW d, Plain(d) PROVE Plain(Saved(d))
<1> DEFINE e == Saved(d)
<1>1. d \in Data /\ e \in Data /\ e.state = d.state /\ e.reason = d.reason
  BY DEF Plain, Saved, Data
<1>2. CASE d.state \in {"WAITING", "REENTRY"}
  <2> DEFINE s0 == d.state
             x0 == d.inside
             b == Anew(s0, FALSE)
  <2>1. d = Anew(s0, x0)
    BY <1>2 DEF Plain, Blank
  <2> HIDE DEF s0, x0
  <2>2. e = [f \in Fields |-> e[f]] /\ b = [f \in Fields |-> b[f]]
    BY <2>1 DEF Anew, Fields, Saved
  <2>3. /\ e.state = b.state /\ e.dir = b.dir /\ e.reason = b.reason /\ e.seq = b.seq
        /\ e.placed = b.placed /\ e.born = b.born /\ e.readTs = b.readTs /\ e.aged = b.aged
        /\ e.confirmed = b.confirmed /\ e.pending = b.pending /\ e.accepted = b.accepted
        /\ e.inside = b.inside
    BY <2>1 DEF Anew, Saved
  <2> HIDE DEF e, b
  <2>4. e = b
    BY <2>2, <2>3, SameFields
  <2>5. b.state = s0 /\ b.inside = FALSE
    BY AnewFields DEF b
  <2>6. Blank(e)
    BY <2>4, <2>5 DEF Blank, b
  <2> QED  BY <1>1, <1>2, <2>6 DEF Plain, e
<1>3. CASE d.state \notin {"WAITING", "REENTRY"}
  <2> HIDE DEF e
  <2> QED  BY <1>1, <1>3 DEF Plain, e
<1> QED  BY <1>2, <1>3

LEMMA ClosedIsPlain == ASSUME NEW d, Plain(d) PROVE Plain(PositionClosed(d))
<1> DEFINE x == [d EXCEPT !.state = "EXPIRED"]
           y == [d EXCEPT !.state = "ARMED", !.aged = FALSE, !.readTs = 0, !.confirmed = 0]
<1>1. d \in Data
  BY DEF Plain
<1>2. x \in Data /\ x.state = "EXPIRED" /\ y \in Data /\ y.state = "ARMED"
  BY <1>1 DEF Data, EngineStates
<1>3. Runaway(d).reason = "runaway"
  BY <1>1 DEF Runaway, Data
<1>4. PositionClosed(d) \in {d, Runaway(d), Rearm(TRUE), y} \/ (late /\ PositionClosed(d) = x)
  BY DEF PositionClosed
<1> HIDE DEF x, y
<1>5. Plain(Runaway(d)) /\ Plain(y) /\ (late => Plain(x))
  BY <1>1, <1>2, <1>3, RunawayLaw DEF Plain
<1> QED  BY <1>4, <1>5, RearmIsBlank

PlainInv == Plain(engine) /\ Plain(orbFile)

LEMMA PlainStep ==
  ASSUME TapeInv, PlainInv, [OrbNext]_orbVars
  PROVE  PlainInv'
<1>1. ASSUME late' = late, Plain(engine'), Plain(orbFile') PROVE PlainInv'
  BY <1>1 DEF PlainInv, Plain
<1>2. CASE BarCloses \/ TickEnds \/ ProcessDies \/ UNCHANGED orbVars
  BY <1>1, <1>2 DEF BarCloses, TickEnds, ProcessDies, orbVars, PlainInv
<1>3. CASE CutoffPasses
  BY <1>3 DEF CutoffPasses, PlainInv, Plain
<1>4. CASE AnalysisTick
  <2>1. tape \in Seq(Bars) /\ Newest \in 1..Newest
    BY <1>4 DEF TapeInv, AnalysisTick, Newest
  <2>2. Plain(Update(engine, Newest)) /\ Plain(Update(RebuildFromTape(engine), Newest))
    BY <2>1, RebuildIsPlain, UpdateIsPlain DEF PlainInv
  <2>3. /\ engine' \in {Update(engine, Newest), Update(RebuildFromTape(engine), Newest)}
        /\ orbFile' \in {Saved(engine'), orbFile} /\ late' = late
    BY <1>4 DEF AnalysisTick, Analyse
  <2>4. Plain(engine') /\ Plain(Saved(engine'))
    BY <2>2, <2>3, SavedIsPlain
  <2> QED  BY <1>1, <2>3, <2>4 DEF PlainInv
<1>5. CASE PlaceOrder
  <2>1. engine' = [engine EXCEPT !.placed = engine.seq] /\ engine.state = "OPEN" /\ UNCHANGED <<late, orbFile>>
    BY <1>5 DEF PlaceOrder
  <2>2. engine' \in Data /\ engine'.state = "OPEN"
    BY <2>1 DEF PlainInv, Plain, Data
  <2> QED  BY <1>1, <2>1, <2>2 DEF PlainInv, Plain
<1>6. CASE TradeEnds \/ RunawayFires
  BY <1>1, <1>6, ClosedIsPlain DEF TradeEnds, RunawayFires, PlainInv
<1>7. CASE ProcessStarts
  BY <1>1, <1>7 DEF ProcessStarts, PlainInv
<1> QED  BY <1>2, <1>3, <1>4, <1>5, <1>6, <1>7 DEF OrbNext

LEMMA PlainAlways == OrbSpec => []PlainInv
<1>1. OrbInit => PlainInv
  <2>1. Blank(Fresh) /\ Fresh.state = "WAITING"
    BY DEF Blank, Fresh, Anew
  <2> QED  BY <2>1, FreshIsData DEF OrbInit, PlainInv, Plain
<1> QED  BY <1>1, PlainStep, TapeAlways, PTL DEF OrbSpec

-----------------------------------------------------------------------------
\* A bar that closes inside leaves nothing of what was known before it.
LEMMA InsideForgets ==
  ASSUME tape \in Seq(Bars), Newest > 1, ~late, NEW d, Plain(d), Sound(d), d.state # "OPEN",
         Inside(tape[1].close)
  PROVE  LET r == Advance(Latch(d, 1), 1) IN Blank(r) /\ r.state = "WAITING"
<1> DEFINE b == tape[1]
           v == Inside(tape[1].close)
           e == [d EXCEPT !.inside = v]
           l == Latch(d, 1)
           r == Advance(l, 1)
<1>1. b.close = 0 /\ v = TRUE /\ 1 \in 1..Newest
  BY DEF Inside, Newest
<1> HIDE DEF b, v
<1>2. d \in Data /\ e \in Data /\ e.state = d.state /\ e.reason = d.reason /\ e.readTs = d.readTs /\ e.dir = d.dir
  BY <1>1 DEF Plain, Data
<1>3. \A x \in Data : x.dir * b.close = 0
  BY <1>1 DEF Data
<1>4. ASSUME NEW x \in Data
      PROVE  /\ TrackFifty(x, b) \in Data /\ TrackFifty(x, b).state = x.state
             /\ TrackFifty(x, b).reason = x.reason /\ TrackFifty(x, b).readTs = x.readTs
             /\ TrackFifty(x, b).dir = x.dir
             /\ x.dir = 0 => TrackFifty(x, b) = x
  <2>1. x.dir * b.close < 3
    BY <1>3
  <2>2. TrackFifty(x, b) = IF x.accepted \/ x.dir = 0 THEN x ELSE [x EXCEPT !.pending = FALSE]
    BY <2>1 DEF TrackFifty
  <2>3. LET y == [x EXCEPT !.pending = FALSE]
        IN y \in Data /\ y.state = x.state /\ y.reason = x.reason /\ y.readTs = x.readTs /\ y.dir = x.dir
    BY DEF Data
  <2> QED  BY <2>2, <2>3
<1>5. l = TrackFifty(e, b)
  BY DEF Latch, v, b
<1> HIDE DEF e, l
<1>6. /\ l \in Data /\ l.state = d.state /\ l.reason = d.reason /\ l.readTs = d.readTs /\ l.dir = d.dir
      /\ e.dir = 0 => l = e
  BY <1>2, <1>4, <1>5
<1>7. Blank(Rearm(TRUE)) /\ Rearm(TRUE).state = "WAITING"
  BY RearmIsBlank DEF Rearm, Fresh
<1>8. \A x : CheckForBreak(x, 1) = x
  BY DEF CheckForBreak
<1>9. CASE d.state \in {"WAITING", "REENTRY"}
  <2>1. Blank(d) /\ e.dir = 0 /\ Blank(e)
    BY <1>2, <1>9, BlankLaw DEF Plain, e
  <2>2. l = e /\ l.state \in {"WAITING", "REENTRY"}
    BY <1>6, <1>9, <2>1
  <2> DEFINE x == [l EXCEPT !.state = "WAITING"]
  <2>3. Blank(x) /\ x.state = "WAITING" /\ (l.state = "WAITING" => Blank(l))
    BY <1>6, <2>1, <2>2, BlankLaw DEF Data
  <2>4. r = IF l.state = "REENTRY" THEN x ELSE l
    <3>1. x.state = "WAITING"
      BY <2>3
    <3> HIDE DEF x
    <3> QED  BY <1>8, <2>2, <3>1 DEF Advance, x
  <2> QED  BY <2>2, <2>3, <2>4 DEF l
<1>10. CASE d.state = "INVALIDATED"
  <2>1. l.state = "INVALIDATED" /\ l.reason \in {"close_inside", "runaway"}
    BY <1>6, <1>10 DEF Plain
  <2>2. r = Rearm(TRUE)
    BY <2>1 DEF Advance
  <2> QED  BY <1>7, <2>2 DEF l
<1>11. CASE d.state = "ARMED"
  <2> DEFINE k == TrackFifty(l, b)
             q == [k EXCEPT !.readTs = 1, !.aged = TRUE]
             c == CheckForRetest(k, 1)
             z == [q EXCEPT !.state = "INVALIDATED", !.reason = "close_inside"]
  <2>1. k \in Data /\ k.state = "ARMED" /\ k.readTs # 1 /\ l.state = "ARMED"
    BY <1>4, <1>6, <1>11 DEF Sound, SoundOn
  <2> HIDE DEF k
  <2>2. q \in Data /\ q.aged /\ q.dir * b.close = 0
    <3>1. q \in Data /\ q.aged
      BY <2>1 DEF Data
    <3> QED  BY <1>3, <3>1
  <2>3. c \in {Runaway(q), z}
    <3>1. c = IF ~q.aged THEN q
              ELSE IF q.accepted THEN Runaway(q)
              ELSE IF q.dir * b.open > 1 /\ q.dir * b.close > 1 /\ Wick(q.dir, b) <= 1
                THEN [q EXCEPT !.state = "OPEN", !.confirmed = 1, !.seq = @ + 1]
              ELSE IF q.dir * b.close < 1 THEN z ELSE q
      BY <2>1 DEF CheckForRetest, b
    <3> HIDE DEF c, q, z
    <3> QED  BY <2>2, <3>1
  <2>4. /\ Runaway(q).state = "INVALIDATED" /\ Runaway(q).reason = "runaway"
        /\ z.state = "INVALIDATED" /\ z.reason = "close_inside"
    <3> HIDE DEF q
    <3> QED  BY <2>2 DEF Runaway, Data
  <2> HIDE DEF c, q, z
  <2>5. r = Rearm(TRUE)
    <3>1. c.state = "INVALIDATED" /\ c.reason \in {"close_inside", "runaway"}
      BY <2>3, <2>4
    <3> QED  BY <1>8, <2>1, <3>1 DEF Advance, c, k, b
  <2> QED  BY <1>7, <2>5 DEF l
<1> QED  BY <1>2, <1>9, <1>10, <1>11 DEF Plain, Data, EngineStates

LEMMA SameLatch ==
  ASSUME NEW d, Blank(d), d.state = "WAITING", NEW i
  PROVE  Latch(d, i) = Latch(Fresh, i)
<1> DEFINE v == Inside(tape[i].close)
           x0 == d.inside
           a == [d EXCEPT !.inside = v]
           b == [Fresh EXCEPT !.inside = v]
<1>1. d = Anew("WAITING", x0)
  BY DEF Blank
<1> HIDE DEF v, x0
<1>2. a = [f \in Fields |-> a[f]] /\ b = [f \in Fields |-> b[f]]
  BY <1>1 DEF Anew, Fresh, Fields
<1>3. /\ a.state = b.state /\ a.dir = b.dir /\ a.reason = b.reason /\ a.seq = b.seq
      /\ a.placed = b.placed /\ a.born = b.born /\ a.readTs = b.readTs /\ a.aged = b.aged
      /\ a.confirmed = b.confirmed /\ a.pending = b.pending /\ a.accepted = b.accepted
      /\ a.inside = b.inside
  BY <1>1 DEF Anew, Fresh
<1> HIDE DEF a, b
<1>4. a = b
  BY <1>2, <1>3, SameFields
<1> QED  BY <1>4 DEF Latch, a, b, v

\* The engines a process that reads each bar once passes through.
Reading(g, n) == g = [j \in 1..n |-> IF j = 1 THEN Fresh ELSE Update(g[j - 1], j)]

LEMMA ReplayIsOnce ==
  ASSUME tape \in Seq(Bars), Newest > 1, ~late, NEW d, Plain(d), Sound(d), d.state # "OPEN",
         Inside(tape[1].close)
  PROVE  Once[Newest] = Update(Replay(d), Newest)
<1>0. Newest \in Nat
  BY DEF Newest
<1>1. PICK w : /\ w[0] = d /\ Replay(d) = w[Newest]
               /\ \A i \in 1..Newest : w[i] = Advance(Latch(w[i - 1], i), i)
  BY <1>0, ReplayWalks
<1>2. Blank(w[1]) /\ w[1].state = "WAITING"
  <2>1. w[1] = Advance(Latch(d, 1), 1)
    BY <1>0, <1>1
  <2> QED  BY <2>1, InsideForgets
<1>3. w[2] = Update(Fresh, 2)
  <2>1. w[2] = Advance(Latch(w[1], 2), 2)
    BY <1>0, <1>1
  <2>2. Latch(w[1], 2) = Latch(Fresh, 2)
    BY <1>2, SameLatch
  <2> QED  BY <2>1, <2>2 DEF Update
<1>4. \A j \in 3..Newest : w[j] = Update(w[j - 1], j)
  BY <1>0, <1>1 DEF Update
<1> DEFINE h == [j \in 1..Newest |-> IF j = 1 THEN Fresh ELSE w[j]]
<1>5. Reading(h, Newest)
  <2>1. \A j \in 1..Newest : h[j] = IF j = 1 THEN Fresh ELSE Update(h[j - 1], j)
    <3> SUFFICES ASSUME NEW j \in 1..Newest PROVE h[j] = IF j = 1 THEN Fresh ELSE Update(h[j - 1], j)
      OBVIOUS
    <3>1. CASE j = 1
      BY <3>1
    <3>2. CASE j = 2
      BY <1>0, <1>3, <3>2
    <3>3. CASE j \notin {1, 2}
      <4>1. j \in 3..Newest /\ j - 1 \in 1..Newest /\ j - 1 # 1 /\ j # 1
        BY <1>0, <3>3
      <4>2. h[j] = w[j] /\ h[j - 1] = w[j - 1]
        BY <4>1
      <4> HIDE DEF h
      <4> QED  BY <1>4, <4>1, <4>2
    <3> QED  BY <3>1, <3>2, <3>3
  <2>2. h = [j \in 1..Newest |-> h[j]]
    OBVIOUS
  <2> HIDE DEF h
  <2> QED  BY <2>1, <2>2 DEF Reading
<1> DEFINE g == CHOOSE f : Reading(f, Newest)
<1>6. Reading(g, Newest)
  <2> HIDE DEF h
  <2> QED  BY <1>5
<1>7. Once[Newest] = Update(g[Newest], Newest)
  <2>1. Newest \in 1..Newest
    BY <1>0
  <2> QED  BY <2>1 DEF Once, Reading
<1> HIDE DEF g, h
<1>8. g[1] = Fresh /\ \A j \in 2..Newest : g[j] = Update(g[j - 1], j)
  <2>1. \A j \in 1..Newest : g[j] = IF j = 1 THEN Fresh ELSE Update(g[j - 1], j)
    BY <1>6 DEF Reading
  <2>2. 1 \in 1..Newest /\ \A j \in 2..Newest : j \in 1..Newest /\ j # 1
    BY <1>0
  <2> QED  BY <2>1, <2>2
<1> DEFINE S == {j \in Nat : j + 2 <= Newest => g[j + 2] = w[j + 2]}
<1>9. 0 \in S
  BY <1>0, <1>3, <1>8
<1>10. ASSUME NEW j \in Nat, j \in S PROVE j + 1 \in S
  <2> SUFFICES ASSUME j + 1 + 2 <= Newest PROVE g[j + 1 + 2] = w[j + 1 + 2]
    OBVIOUS
  <2>1. j + 2 <= Newest /\ j + 1 + 2 \in 3..Newest /\ j + 1 + 2 \in 2..Newest /\ j + 1 + 2 - 1 = j + 2
    BY <1>0
  <2>2. g[j + 2] = w[j + 2]
    BY <1>10, <2>1
  <2> QED  BY <1>4, <1>8, <2>1, <2>2
<1> HIDE DEF S
<1>11. \A j \in Nat : j \in S
  BY <1>9, <1>10, Upward
<1>12. g[Newest] = w[Newest]
  <2>1. Newest - 2 \in Nat /\ Newest - 2 + 2 = Newest /\ Newest <= Newest
    BY <1>0
  <2>2. Newest - 2 \in S
    BY <1>11, <2>1
  <2> QED  BY <2>1, <2>2 DEF S
<1> QED  BY <1>1, <1>7, <1>12

\* As long as nothing has been confirmed, whatever the file of the process before held, the replay of
\* a start ends where a process that read each bar once would be, on every tape whose first minute,
\* the range's own, closed inside it.
THEOREM ReplayForgetsTheFile == OrbSpec => ResumeIsForgotten
<1>1. ASSUME TapeInv, SeenInv, PlainInv, [OrbNext]_orbVars, Rebuilds, Inside(tape[1].close)
      PROVE  Agrees(engine', Once)
  <2>1. AnalysisTick
    <3>1. ~rebuilt /\ rebuilt'
      BY <1>1 DEF Rebuilds
    <3> QED  BY <1>1, <3>1 DEF OrbNext, BarCloses, CutoffPasses, PlaceOrder, TradeEnds, RunawayFires,
                 TickEnds, ProcessDies, ProcessStarts, orbVars
  <2>2. Newest > 1 /\ engine' = Update(RebuildFromTape(engine), Newest)
    BY <1>1, <2>1 DEF AnalysisTick, Analyse, Rebuilds
  <2>3. /\ tape \in Seq(Bars) /\ ~late /\ Plain(engine) /\ Sound(engine) /\ engine.state # "OPEN"
        /\ Newest \in 1..Newest
    BY <1>1, <2>2 DEF TapeInv, SeenInv, PlainInv, Rebuilds, Newest
  <2> DEFINE r == Replay(engine)
  <2>4. Once[Newest] = Update(r, Newest)
    BY <1>1, <2>2, <2>3, ReplayIsOnce
  <2>5. r \in Data
    BY <2>3, ReplayIsPlain DEF Plain
  <2>6. RebuildFromTape(engine) = r \/ r.state = "OPEN"
    BY DEF RebuildFromTape
  <2> HIDE DEF r
  <2>7. r.state = "OPEN" => Update(r, Newest).state = "OPEN"
    BY <2>3, <2>5, StepLaw DEF Update, ReadsBar, Opens, Stays, Breaks
  <2> QED  BY <2>2, <2>3, <2>4, <2>6, <2>7 DEF Agrees
<1>2. TapeInv /\ SeenInv /\ PlainInv /\ [OrbNext]_orbVars =>
        [Rebuilds /\ Inside(tape[1].close) => Agrees(engine', Once)]_orbVars
  BY <1>1
<1> QED  BY <1>2, TapeAlways, SeenAlways, PlainAlways, PTL DEF OrbSpec, ResumeIsForgotten
=============================================================================
