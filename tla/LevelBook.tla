------------------------------ MODULE LevelBook ------------------------------
(***************************************************************************)
(* The level book (derived/level_book.py) and the engine that publishes it *)
(* (LevelEngine of derived/levels.py): levels of closed sessions, grouped  *)
(* into zones, judged minute by minute, and the two tables every plan that *)
(* trades levels reads, level_ledger and level_event.                      *)
(*                                                                         *)
(* build replays the whole tape at each sync.  The same tape and width     *)
(* give the same book, so the model carries the book forward a minute at a *)
(* time and replays it when the width, the median wick of the closed       *)
(* hours, becomes another.                                                 *)
(***************************************************************************)
EXTENDS LevelRules, Sequences, FiniteSets, Functions

CONSTANTS
    SessionEnds,     \* level -> the minute from which its session has closed
    Prints,     \* bars that may print
    Widths,     \* zone widths the hours may give
    RangeEnd,   \* the opening range is minutes 1..RangeEnd, or 0
    MaxMinutes, \* length of the tape, at most
    FreshBars,  \* BOOK_FRESH_S, in minutes
    MaxUpsets   \* changes of the width, restarts, missed minutes, failed syncs, lost writes, at most

Formed == DOMAIN SessionEnds

ASSUME BookAssumption ==
    /\ IsFiniteSet(Formed)
    /\ \A l \in Formed : l \in [side : SidesOfLevel, price : Int, flip : {FALSE}] /\ SessionEnds[l] \in Nat
    /\ Widths \subseteq Nat /\ RangeEnd \in Nat /\ MaxMinutes \in Nat /\ MaxUpsets \in Nat
    /\ \A bar \in Prints : /\ bar \in [open : Int, high : Int, low : Int, close : Int]
                           /\ bar.low <= bar.close /\ bar.close <= bar.high

VARIABLES
    minutes,       \* the tape: the closed minutes
    zoneWidth,     \* zone_width of the closed hours
    levels,        \* build(minutes): live, dead, traversed, episodes, flipped, flip_dead, events
    ledger,        \* level_ledger: level -> "none", "live" or why it is retired
    published,     \* level_event
    synced,        \* _book_bar
    bookLive,      \* _book_live
    emitted,       \* _book_emitted
    flipsWritten,  \* _flip_written
    swallowed,     \* levels whose row the store did not take: at the last sync, or since they are live
                   \* (history)
    upsets

engineVars == <<synced, bookLive, emitted, flipsWritten>>
lbVars == <<minutes, zoneWidth, levels, ledger, published, engineVars, swallowed, upsets>>

FlipOf(l, side) == [side |-> Opposite(side), price |-> l.price, flip |-> TRUE]

AllLevels == Formed \cup {FlipOf(l, l.side) : l \in Formed}

LevelTypeOK ==
    /\ Len(minutes) <= MaxMinutes /\ zoneWidth \in Widths /\ upsets \in 0..MaxUpsets
    /\ synced \in 0..Len(minutes) /\ levels.live \subseteq Formed /\ levels.live \cap levels.dead = {}
    /\ \A z \in DOMAIN levels.episodes : z # {} /\ z \subseteq levels.live /\ ~levels.episodes[z].ep.dead
    /\ DOMAIN levels.flipped \cap levels.flipDead = {}
    /\ ledger \in [AllLevels -> {"none", "live", "TRAVERSED", "BREACHED", "NOT_A_LEVEL"}]
    /\ swallowed \subseteq AllLevels

EmptyBook == [live |-> {}, dead |-> {}, traversed |-> {}, episodes |-> <<>>,
              flipped |-> <<>>, flipDead |-> {}, said |-> {}]

(***************************************************************************)
(* Zones: levels, each within the width of the next, however they came.    *)
(***************************************************************************)
Linked(a, b, live, w) ==
    LET lo == IF a.price <= b.price THEN a.price ELSE b.price
        hi == IF a.price <= b.price THEN b.price ELSE a.price
    IN \A x \in live : lo <= x.price /\ x.price < hi =>
         \E y \in live : x.price < y.price /\ y.price <= x.price + w

Zones(live, w) ==
    IF w = 0 THEN {{l} : l \in live}
    ELSE {{m \in live : Linked(l, m, live, w)} : l \in live}

LowOf(z)  == CHOOSE p \in {l.price : l \in z} : \A l \in z : p <= l.price
HighOf(z) == CHOOSE p \in {l.price : l \in z} : \A l \in z : p >= l.price

\* _zone_side: a mixed zone is judged from the side price is on, and not while price is in it.
ZoneSide(z, price) ==
    IF \E s \in SidesOfLevel : \A l \in z : l.side = s THEN {(CHOOSE l \in z : TRUE).side}
    ELSE IF price < LowOf(z) THEN {"resistance"}
    ELSE IF price > HighOf(z) THEN {"support"} ELSE {}

(***************************************************************************)
(* build, one minute.                                                      *)
(***************************************************************************)
Event(z, side, near, far, born, at, what) ==
    [of |-> z, side |-> side, near |-> near, far |-> far, born |-> born, at |-> at, what |-> what]

\* After the opening range every level inside it is retired, flipped ones too.
Traverse(b, bars, t) ==
    LET inside(l) == \E i, j \in 1..RangeEnd : bars[i].low <= l.price /\ l.price <= bars[j].high
        gone  == {l \in b.live : inside(l)}
        fgone == {f \in DOMAIN b.flipped : inside(f)}
    IN IF t # RangeEnd + 1 THEN b
       ELSE [b EXCEPT !.live = @ \ gone, !.dead = @ \cup gone,
                      !.flipped = Restrict(@, DOMAIN @ \ fgone), !.flipDead = @ \cup fgone,
                      !.traversed = @ \cup gone \cup fgone]

\* The flipped levels, each alone.
JudgeFlips(b, bar, t) ==
    LET now(f) == Step(b.flipped[f].ep, bar, f.price, f.price, f.side)
        died == {f \in DOMAIN b.flipped : now(f).dead}
    IN [b EXCEPT
          !.flipped = [f \in DOMAIN @ \ died |-> [@[f] EXCEPT !.ep = now(f)]],
          !.flipDead = @ \cup died,
          !.said = @ \cup UNION {{Event({f}, f.side, f.price, f.price, b.flipped[f].born, t, what) :
                                   what \in EventsOf(b.flipped[f].ep, bar, f.price, f.price, f.side)} :
                                   f \in DOMAIN b.flipped}]

\* Levels of sessions that have closed; a zone of other members is a new object.
Rezone(b, bar, t, w) ==
    LET live == b.live \cup {l \in Formed : SessionEnds[l] <= t /\ l \notin b.dead}
        judged == {z \in Zones(live, w) : z \in DOMAIN b.episodes \/ ZoneSide(z, bar.open) # {}}
    IN [b EXCEPT
          !.live = live,
          !.episodes = [z \in judged |->
                          IF z \in DOMAIN @ THEN @[z]
                          ELSE [side |-> CHOOSE s \in ZoneSide(z, bar.open) : TRUE,
                                ep |-> NewEpisode, born |-> t]]]

\* Each zone; a breach retires every member, and a lone level flips.
JudgeZones(b, bar, t) ==
    LET E == b.episodes
        near(z) == NearEdge(LowOf(z), HighOf(z), E[z].side)
        far(z)  == FarEdge(LowOf(z), HighOf(z), E[z].side)
        now(z)  == Step(E[z].ep, bar, near(z), far(z), E[z].side)
        broken  == {z \in DOMAIN E : now(z).dead}
        flips   == {f \in {FlipOf(CHOOSE l \in z : TRUE, E[z].side) :
                             z \in {y \in broken : Cardinality(y) = 1}} :
                      f \notin DOMAIN b.flipped \cup b.flipDead}
    IN [b EXCEPT
          !.episodes = [z \in DOMAIN E \ broken |-> [E[z] EXCEPT !.ep = now(z)]],
          !.live = @ \ UNION broken, !.dead = @ \cup UNION broken,
          !.flipped = [f \in DOMAIN @ \cup flips |->
                         IF f \in flips THEN [ep |-> NewEpisode, born |-> t + 1] ELSE @[f]],
          !.said = @ \cup (UNION {{Event(z, E[z].side, near(z), far(z), E[z].born, t, what) :
                                    what \in EventsOf(E[z].ep, bar, near(z), far(z), E[z].side)} :
                                    z \in DOMAIN E})
                     \cup {Event({f}, f.side, f.price, f.price, t + 1, t, "FLIPPED") : f \in flips}]

JudgeMinute(b, bars, t, w) ==
    JudgeZones(Rezone(JudgeFlips(Traverse(b, bars, t), bars[t], t), bars[t], t, w), bars[t], t)

Build(bars, w) ==
    LET upTo[t \in 0..Len(bars)] == IF t = 0 THEN EmptyBook ELSE JudgeMinute(upTo[t - 1], bars, t, w)
    IN upTo[Len(bars)]

(***************************************************************************)
(* The minutes.                                                               *)
(***************************************************************************)
LevelInit ==
    /\ minutes = <<>> /\ zoneWidth \in Widths /\ levels = EmptyBook
    /\ ledger = [l \in AllLevels |-> "none"] /\ published = {}
    /\ synced = 0 /\ bookLive = {} /\ emitted = {} /\ flipsWritten = {} /\ swallowed = {}
    /\ upsets = 0

MinuteCloses ==
    /\ Len(minutes) < MaxMinutes
    /\ \E bar \in Prints :
         /\ minutes' = Append(minutes, bar)
         /\ levels' = JudgeMinute(levels, minutes', Len(minutes'), zoneWidth)
    /\ IF synced = Len(minutes) THEN UNCHANGED upsets     \* else a minute goes by without a sync
       ELSE upsets < MaxUpsets /\ upsets' = upsets + 1
    /\ UNCHANGED <<zoneWidth, ledger, published, engineVars, swallowed>>

\* An hour closes with the minute, and the median with it.
HourCloses ==
    /\ Len(minutes) < MaxMinutes /\ upsets < MaxUpsets /\ upsets' = upsets + 1
    /\ \E bar \in Prints :
         /\ minutes' = Append(minutes, bar)
         /\ zoneWidth' \in Widths \ {zoneWidth}
         /\ levels' = Build(minutes', zoneWidth')
    /\ UNCHANGED <<ledger, published, engineVars, swallowed>>

(***************************************************************************)
(* LevelEngine._book_sync, once per closed minute.                         *)
(***************************************************************************)
Why(l) ==
    IF l \in levels.traversed THEN "TRAVERSED"
    ELSE IF l \in levels.dead \cup levels.flipDead THEN "BREACHED" ELSE "NOT_A_LEVEL"

\* Every flip the book knows is written once for each state it is found in.
FlipStates ==
    {<<f, f \in levels.flipDead>> : f \in {g \in AllLevels : \E e \in levels.said :
                                          e.what = "FLIPPED" /\ e.of = {g}}}

\* The member of the zone at its near edge.
Speaker(e) == CHOOSE l \in e.of : l.price = e.near

ToPublish ==
    {e \in levels.said : /\ e.what # "TESTED" /\ e.at > Len(minutes) - FreshBars
                       /\ <<e.of, e.at, e.what>> \notin emitted}

\* Mutant: only what this process has seen live is retired.
RetiresSeen(known) == bookLive

\* Every live row of the ledger is looked at.
RetiresFrom(known) == {l \in AllLevels : known[l] = "live"}

\* The ledger as a sync means to leave it: the levels that have come live, then every flip in its
\* state, then what is live and not the book's retired.
LedgerDue ==
    LET flips == {s[1] : s \in FlipStates \ flipsWritten}
        after == [l \in AllLevels |-> IF l \in levels.live \ bookLive THEN "live" ELSE ledger[l]]
        gone  == RetiresFrom(after) \ (levels.live \cup DOMAIN levels.flipped)
    IN [l \in AllLevels |->
          IF l \in gone THEN Why(l)
          ELSE IF l \in flips THEN IF l \in levels.flipDead THEN Why(l) ELSE "live"
          ELSE after[l]]

\* DerivedStore._write swallows what it cannot write, and a ledger that cannot be read retires none of
\* its rows: any of a sync's writes may be lost, and it goes on as if they had landed.  An event may
\* raise when it is put into words: it is marked already, and the later ones wait for the next sync.
Sync ==
    /\ synced # Len(minutes) /\ synced' = Len(minutes)
    /\ bookLive' = levels.live \cup DOMAIN levels.flipped
    /\ flipsWritten' = flipsWritten \cup FlipStates
    /\ LET due == LedgerDue
           fresh == ToPublish
       IN \E lost \in SUBSET {l \in AllLevels : due[l] # ledger[l]}, unsaid \in SUBSET fresh :
            /\ upsets' = upsets + Cardinality(lost) + Cardinality(unsaid) /\ upsets' \in upsets..MaxUpsets
            /\ ledger' = [l \in AllLevels |-> IF l \in lost THEN ledger[l] ELSE due[l]]
            /\ swallowed' = lost \cup (swallowed \cap levels.live \cap bookLive)
            /\ \E tried \in IF unsaid = {} THEN {fresh} ELSE SUBSET fresh :
                 /\ unsaid \subseteq tried /\ \A e \in tried, later \in fresh \ tried : e.at <= later.at
                 /\ published' = published \cup {[level |-> Speaker(e), at |-> e.at, what |-> e.what] :
                                                   e \in tried \ unsaid}
                 /\ emitted' = emitted \cup {<<e.of, e.at, e.what>> : e \in tried}
    /\ UNCHANGED <<minutes, zoneWidth, levels>>

\* No tape, or an exception before anything is written: the bar counts as synced.
SyncFails ==
    /\ synced # Len(minutes) /\ upsets < MaxUpsets /\ upsets' = upsets + 1
    /\ synced' = Len(minutes)
    /\ UNCHANGED <<minutes, zoneWidth, levels, ledger, published, bookLive, emitted, flipsWritten, swallowed>>

EngineRestarts ==
    /\ upsets < MaxUpsets /\ upsets' = upsets + 1
    /\ synced' = 0 /\ bookLive' = {} /\ emitted' = {} /\ flipsWritten' = {} /\ swallowed' = {}
    /\ UNCHANGED <<minutes, zoneWidth, levels, ledger, published>>

LevelNext == MinuteCloses \/ HourCloses \/ Sync \/ SyncFails \/ EngineRestarts

LevelSpec == LevelInit /\ [][LevelNext]_lbVars

(***************************************************************************)
(* Properties.                                                             *)
(***************************************************************************)
\* The objects under judgement: what they are, since when, and their edges.
Objects ==
    {Event(z, levels.episodes[z].side, NearEdge(LowOf(z), HighOf(z), levels.episodes[z].side),
           FarEdge(LowOf(z), HighOf(z), levels.episodes[z].side), levels.episodes[z].born, 0, "") :
       z \in DOMAIN levels.episodes}
    \cup {Event({f}, f.side, f.price, f.price, levels.flipped[f].born, 0, "") : f \in DOMAIN levels.flipped}

\* What is said was so.
SaidAsRuled ==
    \A e \in levels.said :
      /\ e.what = "HELD" => HeldAt(minutes, e.born, e.at, e.near, e.side)
      /\ e.what = "BREACHED" => BreachedAt(minutes, e.born, e.at, e.far, e.side)

\* What was so of an object still judged was said, and it is not broken.
RuledIsSaid ==
    \A x \in Objects : \A i \in x.born..Len(minutes) :
      /\ ~BreachedAt(minutes, x.born, i, x.far, x.side)
      /\ HeldAt(minutes, x.born, i, x.near, x.side) =>
           Event(x.of, x.side, x.near, x.far, x.born, i, "HELD") \in levels.said

\* A level that was broken says no more.
DeadIsSilent ==
    \A d, e \in levels.said : d.what = "BREACHED" /\ d.of \cap e.of # {} => e.at <= d.at

\* The book says of every level and zone what the ruling says of the tape, no more and no less,
\* through sessions that close, zones that re-form, flips and the opening range.
BookIsAsRuled == SaidAsRuled /\ RuledIsSaid /\ DeadIsSilent

\* After each sync "the ledger holds exactly the book's live levels", whatever was missed before, by
\* this process or an earlier one, and however the zones were redrawn, but for what the store has
\* swallowed: a retirement, of this very sync, for the next one retires again all that is live and
\* should not be; the row of a level, for as long as the process has had it live, for it is not
\* written again.  Of flipped levels, only that none stays live which is not.
LedgerIsTheBook ==
    [][Sync => \A l \in AllLevels \ swallowed' :
                 /\ ledger'[l] = "live" => l \in levels'.live \cup DOMAIN levels'.flipped
                 /\ l \in levels'.live => ledger'[l] = "live"]_lbVars
=============================================================================
