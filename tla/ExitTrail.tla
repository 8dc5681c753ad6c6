----------------------------- MODULE ExitTrail -----------------------------
(***************************************************************************)
(* The trailing stop of one open position: what each pass of the position  *)
(* manager makes of a mark, what it writes to the trade's row, and what an *)
(* engine that restarts in the middle of the trade takes up from the row.  *)
(*                                                                         *)
(* A "debit" trails a share of its gain once it is half-way to its target, *)
(* a "structure" trade trails a share of its premium from the entry on, an *)
(* "adopted" one keeps its own ratchet, and "volt" trails the underlying.  *)
(***************************************************************************)
EXTENDS Integers, FiniteSetsExt

CONSTANTS
    Kinds,        \* which of "debit", "structure", "adopted", "volt" are held
    Premiums,        \* the marks a pass may read (of volt, the underlying's last close)
    Gaps,         \* the floors a fair value gap may set, 0 where there is none
    EntryPrice, StopPrice, TargetPrice

ASSUMPTION TrailAssumption ==
    /\ Kinds \subseteq {"debit", "structure", "adopted", "volt"}
    /\ Premiums \subseteq Nat \ {0} /\ Gaps \subseteq Nat
    /\ EntryPrice \in Nat /\ EntryPrice > 1     \* the unit of the prices is finer than an entry
    /\ TargetPrice \in Nat /\ TargetPrice > EntryPrice /\ StopPrice \in 1..EntryPrice

VARIABLES
    trailKind,
    riding,       \* the position is still managed
    trailing,     \* the engine's _trail_stops and _trail_active: stop (0 when absent), armed
    peak,         \* the record's _volt_peak, which no row keeps
    loaded,       \* the record in memory: its trail_stop and the best mark it knows
    saved,        \* the trade's row: trail_stop and max_premium_seen
    steady        \* the engine as it would be had it never restarted

trailVars == <<trailKind, riding, trailing, peak, loaded, saved, steady>>

NoTrail == [stop |-> 0, armed |-> FALSE]

-----------------------------------------------------------------------------
\* The mark at which the percentage trail arms: entry for a structure trade, else +50%.
Activation == IF trailKind = "structure" THEN EntryPrice ELSE (3 * EntryPrice) \div 2

\* Where an arming trail starts: the stop of a structure trade, else a quarter above the entry.
FirstStop == IF trailKind = "structure" THEN StopPrice ELSE (5 * EntryPrice) \div 4

\* Half of the gain, never below the entry.
GainFloor(mark) == IF mark <= EntryPrice THEN EntryPrice ELSE EntryPrice + (mark - EntryPrice) \div 2

Raised(e, floor) ==
    IF floor > (IF e.stop = 0 THEN EntryPrice ELSE e.stop) THEN [e EXCEPT !.stop = floor] ELSE e

\* No floor taken from a gap is tighter than nine tenths of the mark.
GapTrail(e, mark, gap, share) == Raised(e, Min({Max({gap, share}), (9 * mark) \div 10}))

PostTargetTrail(e, mark, gap) == GapTrail(e, mark, gap, (3 * mark) \div 4)

FvgTrail(e, mark, gap) ==
    IF 5 * (mark - EntryPrice) >= EntryPrice THEN GapTrail(e, mark, gap, GainFloor(mark)) ELSE e

\* Arming sets the stop, whatever it was.
Armed(e) == IF e.armed THEN e ELSE [stop |-> FirstStop, armed |-> TRUE]

PercentTrail(e, mark) ==
    LET share == IF trailKind = "structure" THEN (3 * mark) \div 4 ELSE GainFloor(mark)
    IN IF mark < Activation THEN e ELSE [Armed(e) EXCEPT !.stop = Max({@, share})]

\* An adopted position's trail, once armed, goes on below the activation.
AdoptedTrail(e, mark) ==
    IF mark < Activation /\ ~e.armed THEN e ELSE [Armed(e) EXCEPT !.stop = Max({@, (3 * mark) \div 4})]

Trailed(e, mark, gap) ==
    IF trailKind = "adopted" THEN AdoptedTrail(e, mark)
    ELSE IF mark >= TargetPrice THEN PostTargetTrail(e, mark, gap)
    ELSE PercentTrail(FvgTrail(e, mark, gap), mark)

\* Mutant: only an adopted position's trail is armed again.
NeverArmed(r) == FALSE

\* Would an engine that never restarted hold this trail armed?
WasArmed(r) == IF r.best > 0 THEN r.best >= Activation ELSE r.trail >= (5 * EntryPrice) \div 4

Seed(e, r) ==
    IF e.stop = 0 /\ r.trail > 0
    THEN [stop |-> r.trail, armed |-> trailKind = "adopted" \/ WasArmed(r)]
    ELSE e

-----------------------------------------------------------------------------
TrailInit ==
    /\ trailKind \in Kinds
    /\ riding = TRUE
    /\ trailing = NoTrail /\ steady = NoTrail
    /\ peak = EntryPrice
    /\ loaded = [trail |-> 0, best |-> 0]
    /\ saved = loaded

\* update_current_premium: every pass writes the mark first.
Marked(mark) == [saved EXCEPT !.best = Max({@, mark})]

\* The hard stop, or volt's structure stop, is read before the trail.
HitsStop(mark) == IF trailKind = "volt" THEN mark < StopPrice ELSE mark <= StopPrice

\* A decided exit ends the trade when its order fills; a refused one leaves it held.
Leaves(exit) == \E filled \in BOOLEAN : riding' = ~(exit /\ filled)

\* A pass that comes to the trail: it ratchets, writes the stop it holds, or decides to exit on it.
TrailPass(mark, gap) ==
    /\ riding /\ trailKind # "volt" /\ ~HitsStop(mark)
    /\ LET e == Trailed(Seed(trailing, loaded), mark, gap)
           exit == e.stop > 0 /\ mark <= e.stop
           writes == ~exit \/ trailKind = "adopted"
       IN /\ trailing' = e
          /\ saved' = [Marked(mark) EXCEPT !.trail = IF writes THEN e.stop ELSE @]
          /\ Leaves(exit)
    /\ loaded' = saved'
    /\ steady' = Trailed(steady, mark, gap)
    /\ UNCHANGED <<trailKind, peak>>

\* Volt's: it looks at the floor only while the close is half a risk beyond the entry.
VoltPass(mark) ==
    /\ riding /\ trailKind = "volt" /\ ~HitsStop(mark)
    /\ peak' = Max({peak, mark})
    /\ trailing' = Seed(trailing, loaded)
    /\ LET far == 2 * (mark - EntryPrice) >= TargetPrice - EntryPrice
           floor == EntryPrice + (peak' - EntryPrice) \div 2
       IN /\ saved' = [Marked(mark) EXCEPT !.trail = IF far THEN floor ELSE @]
          /\ Leaves(far /\ mark < floor)
    /\ loaded' = saved'
    /\ UNCHANGED <<trailKind, steady>>

\* A pass decided by something else, before the trail: the plan, the clock, a stop, a stall.
OtherDecision(mark) ==
    /\ riding
    /\ saved' = Marked(mark)
    /\ trailing' \in {trailing, Seed(trailing, loaded)}
    /\ Leaves(TRUE)
    /\ UNCHANGED <<trailKind, peak, loaded, steady>>

\* The process dies between two passes, or in one once the mark is written.
RestartTrail ==
    /\ riding
    /\ \/ saved' = saved
       \/ \E mark \in Premiums : saved' = Marked(mark)
    /\ trailing' = NoTrail /\ peak' = EntryPrice
    /\ loaded' = saved'
    /\ UNCHANGED <<trailKind, riding, steady>>

TrailNext ==
    \/ \E mark \in Premiums : VoltPass(mark) \/ OtherDecision(mark) \/ \E gap \in Gaps : TrailPass(mark, gap)
    \/ RestartTrail

TrailSpec == TrailInit /\ [][TrailNext]_trailVars

-----------------------------------------------------------------------------
Trails == [stop : Nat, armed : BOOLEAN]
TrailRows == [trail : Nat, best : {0} \cup Premiums]

\* The engine's trail, the record's and the row's are levels; the best mark is one that was read.
TrailTypeOK ==
    /\ trailKind \in Kinds /\ riding \in BOOLEAN
    /\ trailing \in Trails /\ steady \in Trails
    /\ loaded \in TrailRows /\ saved \in TrailRows
    /\ peak \in {EntryPrice} \cup Premiums

\* A restart in the middle of a trade, or of a pass of it, never loosens the stop: what the next
\* pass goes by is at least the stop of an engine that saw the same marks and never restarted.
RestartKeepsTheStop ==
    trailKind # "volt" /\ riding => Seed(trailing, loaded).stop >= steady.stop

\* "Writes to the shared _trail_stops (highest trail wins)": the stop a trade is held on never falls.
TrailOnlyRises == [][saved'.trail >= saved.trail]_trailVars
=============================================================================
