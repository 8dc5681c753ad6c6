----------------------------- MODULE OrbEngine -----------------------------
(***************************************************************************)
(* The opening-range breakout engine: analysis/orb_engine.py, the file it  *)
(* resumes from (orb_state.json) and the tape it replays at a restart, as  *)
(* run_analysis (main.py) calls them, with the orders its confirmations    *)
(* produce and the news that a trade has ended.                            *)
(*                                                                         *)
(* A price is its place relative to the range: 0 strictly inside, 1 on the *)
(* high, 2 above it, 3 beyond the 50% target, and the negatives below.     *)
(* A long is s = 1 and a short is s = -1, so that s * p is "how far out".  *)
(* The loop reads the newest closed bar on every tick: a bar is read many  *)
(* times, or not at all when a tick takes longer than a minute.            *)
(***************************************************************************)
EXTENDS Integers, Sequences

CONSTANTS
    Bars,          \* the shapes a closed 1m bar may have
    MaxBars,       \* closed bars of the session, at most
    MaxTrades,     \* orders constructed, at most
    MaxRestarts,   \* deaths of the process, at most
    Glitches       \* what may fail: "fetch" the deep frame, "save" the state file

Places == -3..3
BarShapes == [open: Places, close: Places, low: Places, high: Places]

ASSUME BarsAssumption ==
    /\ Bars \subseteq BarShapes
    /\ \A b \in Bars : b.low <= b.open /\ b.low <= b.close /\ b.open <= b.high /\ b.close <= b.high
ASSUME SessionAssumption == MaxBars \in Nat /\ MaxTrades \in Nat /\ MaxRestarts \in Nat

VARIABLES
    tape,      \* the closed bars; the first is of the range's own five minutes
    late,      \* past ORB_NO_ENTRY_AFTER_ET
    alive,     \* the process runs
    rebuilt,   \* _rebuilt_date: this process has replayed the tape
    engine,    \* ORBData
    orbFile,  \* orb_state.json
    trading,   \* an offer works, or a position is open, for the engine's setup
    ordered,   \* the bars whose confirmation produced an order, in order (history)
    witnessed, \* the bars a tick confirmed on, as against a replay (history)
    quick,     \* the bars that were newest when a trade ended (history)
    lastIn,    \* the last bar read that closed inside (history)
    turn,      \* where the tick is: analysis, then the open trade, then the entries
    deaths

orbVars == <<tape, late, alive, rebuilt, engine, orbFile, trading, ordered, witnessed, quick,
             lastIn, turn, deaths>>

Fresh ==
    [state |-> "WAITING", dir |-> 0, reason |-> "none", seq |-> 0, placed |-> 0,
     born |-> 0, readTs |-> 0, aged |-> FALSE, confirmed |-> 0,
     pending |-> FALSE, accepted |-> FALSE, inside |-> FALSE]

EngineStates == {"WAITING", "REENTRY", "ARMED", "OPEN", "INVALIDATED", "EXPIRED"}

OrbTypeOK ==
    /\ tape \in Seq(Bars) /\ late \in BOOLEAN /\ alive \in BOOLEAN /\ rebuilt \in BOOLEAN
    /\ trading \in BOOLEAN /\ deaths \in 0..MaxRestarts
    /\ turn \in {"analysis", "trade", "entries"}
    /\ \A d \in {engine, orbFile} :
         /\ d.state \in EngineStates /\ d.dir \in {-1, 0, 1}
         /\ d.state \in {"ARMED", "OPEN"} => d.dir # 0 /\ d.born \in 1..Len(tape)
         /\ d.state = "OPEN" => d.confirmed \in d.born + 1..Len(tape) /\ d.seq > 0
         /\ d.placed <= d.seq

OrbInit ==
    /\ tape \in {<<b>> : b \in {x \in Bars : -1 <= x.low /\ x.high <= 1}}
    /\ late = FALSE /\ alive = TRUE /\ rebuilt = FALSE /\ engine = Fresh /\ orbFile = Fresh
    /\ trading = FALSE /\ ordered = <<>> /\ witnessed = {} /\ quick = {} /\ lastIn = 0
    /\ turn = "analysis" /\ deaths = 0

(***************************************************************************)
(* One closed bar, the i-th, read by an engine in state d.                 *)
(***************************************************************************)
Inside(p) == p = 0
Newest == Len(tape)

\* How far toward the range the bar's wick came, seen from side s.
Wick(s, b) == IF s = 1 THEN b.low ELSE -b.high

Rearm(reentered) == [Fresh EXCEPT !.state = IF reentered THEN "WAITING" ELSE "REENTRY"]

Runaway(d) == [d EXCEPT !.state = "INVALIDATED", !.reason = "runaway"]

\* _track_fifty_acceptance: a close beyond the 50, and another reading of one.
TrackFifty(d, b) ==
    IF d.accepted \/ d.dir = 0 THEN d
    ELSE IF d.dir * b.close < 3 THEN [d EXCEPT !.pending = FALSE]
    ELSE IF ~d.pending THEN [d EXCEPT !.pending = TRUE]
    ELSE IF d.state = "ARMED" THEN Runaway([d EXCEPT !.accepted = TRUE])
    ELSE [d EXCEPT !.accepted = TRUE]

\* _update_break_latches, but for the latches of the sweep.
Latch(d, i) == TrackFifty([d EXCEPT !.inside = Inside(tape[i].close)], tape[i])

\* _check_for_break: a bar that starts inside and closes on or over a line, its stop in the range.
\* Bars of the range's own minutes are not judged.
CheckForBreak(d, i) ==
    LET b == tape[i]
        s == IF b.close >= 1 THEN 1 ELSE -1
        startsInside == Inside(b.open) \/ Inside(tape[i - 1].close)
    IN IF i > 1 /\ ~Inside(b.close) /\ startsInside /\ Wick(s, b) <= 1
       THEN [d EXCEPT !.state = "ARMED", !.dir = s, !.born = i, !.readTs = i, !.aged = FALSE]
       ELSE d

\* _check_for_retest: never the break bar itself; a wick to the line with the body outside
\* confirms, a close inside ends the thesis.
CheckForRetest(d0, i) ==
    LET b == tape[i]
        d == IF i = d0.readTs THEN d0 ELSE [d0 EXCEPT !.readTs = i, !.aged = TRUE]
        isBreakBar == ~d.aged
        bodyOut == d.dir * b.open > 1 /\ d.dir * b.close > 1
    IN IF isBreakBar THEN d
       ELSE IF d.accepted THEN Runaway(d)
       ELSE IF bodyOut /\ Wick(d.dir, b) <= 1
         THEN [d EXCEPT !.state = "OPEN", !.confirmed = i, !.seq = @ + 1]
       ELSE IF d.dir * b.close < 1 THEN [d EXCEPT !.state = "INVALIDATED", !.reason = "close_inside"]
       ELSE d

\* Mutant: while armed, only a retest is looked for.
AdvanceToRetest(d, i) ==
    IF d.state = "WAITING" THEN CheckForBreak(d, i)
    ELSE IF d.state = "ARMED" /\ CheckForRetest(d, i).state = "OPEN" THEN CheckForRetest(d, i)
    ELSE d

\* _advance_state.
Advance(d, i) ==
    LET close == tape[i].close
        back == IF d.state = "REENTRY" /\ Inside(close) THEN [d EXCEPT !.state = "WAITING"] ELSE d
        armed == IF back.state = "WAITING" THEN CheckForBreak(back, i) ELSE back
        judged == IF armed.state = "ARMED" THEN CheckForRetest(TrackFifty(armed, tape[i]), i) ELSE armed
    IN IF d.state = "OPEN" THEN d
       ELSE IF judged.state = "INVALIDATED"
               /\ (judged.reason = "close_inside" \/ (judged.reason = "runaway" /\ Inside(close)))
         THEN Rearm(TRUE)
       ELSE judged

\* update.
Update(d, i) ==
    IF late THEN [Latch(d, i) EXCEPT !.state = "EXPIRED"] ELSE Advance(Latch(d, i), i)

(***************************************************************************)
(* The restart: the file, then the tape.                                   *)
(***************************************************************************)
\* state_snapshot and load_state_file: the 50's latches and the last close are not in the file.
Saved(d) == [d EXCEPT !.pending = FALSE, !.accepted = FALSE, !.inside = FALSE]

Replay(d) ==
    LET walk[i \in 0..Newest] == IF i = 0 THEN d ELSE Advance(Latch(walk[i - 1], i), i)
    IN walk[Newest]

\* Mutant: the file is trusted and only the newest bar is looked at.
RebuildFromFile(d) == d

\* rebuild_from_tape: every bar of the session, and a confirmation the replay made is consumed.
RebuildFromTape(d) ==
    LET r == Replay(d)
    IN IF d.state = "OPEN" \/ r.state # "OPEN" THEN r
       ELSE IF late THEN [r EXCEPT !.state = "EXPIRED", !.reason = "missed_while_down"]
       ELSE Rearm(FALSE)

(***************************************************************************)
(* Actions.                                                                *)
(***************************************************************************)
BarCloses ==
    /\ Len(tape) < MaxBars
    /\ \E b \in Bars : tape' = Append(tape, b)
    /\ UNCHANGED <<late, alive, rebuilt, engine, orbFile, trading, ordered, witnessed, quick, lastIn,
                   turn, deaths>>

CutoffPasses ==
    /\ ~late /\ late' = TRUE
    /\ UNCHANGED <<tape, alive, rebuilt, engine, orbFile, trading, ordered, witnessed, quick, lastIn,
                   turn, deaths>>

InsideBars == {i \in 1..Newest : Inside(tape[i].close)}
LatestOf(S) == IF S = {} THEN lastIn ELSE CHOOSE i \in S : \A j \in S : j <= i

\* run_analysis: the replay this process owes, then update, then the file.
Analyse(d0, done) ==
    LET d == Update(d0, Newest)
    IN /\ engine' = d /\ rebuilt' = done
       /\ \/ orbFile' = Saved(d)
          \/ "save" \in Glitches /\ UNCHANGED orbFile
       /\ witnessed' = IF d.state = "OPEN" /\ d0.state # "OPEN" THEN witnessed \cup {Newest} ELSE witnessed
       /\ lastIn' = LatestOf(IF done /\ ~rebuilt THEN InsideBars ELSE InsideBars \cap {Newest})

AnalysisTick ==
    /\ alive /\ turn = "analysis" /\ Newest > 1
    /\ turn' = "trade"
    /\ \/ rebuilt /\ Analyse(engine, TRUE)
       \/ ~rebuilt /\ Analyse(RebuildFromTape(engine), TRUE)
       \/ ~rebuilt /\ "fetch" \in Glitches /\ Analyse(engine, FALSE)
    /\ UNCHANGED <<tape, late, alive, trading, ordered, quick, deaths>>

\* confirmation_spent.
Spent == engine.seq > 0 /\ engine.placed >= engine.seq

\* Mutant: the order is noted in the engine only as long as its trade is on.
PlaceUnmarked ==
    /\ alive /\ turn = "trade" /\ turn' = "entries" /\ engine.state = "OPEN" /\ ~trading
    /\ Len(ordered) < MaxTrades
    /\ trading' = TRUE
    /\ ordered' = Append(ordered, engine.confirmed)
    /\ UNCHANGED <<tape, late, alive, rebuilt, engine, orbFile, witnessed, quick, lastIn, deaths>>

\* The plan takes an unspent confirmation when no offer works and none of its type is open.
PlaceOrder ==
    /\ alive /\ turn = "trade" /\ turn' = "entries" /\ engine.state = "OPEN" /\ ~Spent /\ ~trading
    /\ Len(ordered) < MaxTrades
    /\ trading' = TRUE
    /\ engine' = [engine EXCEPT !.placed = engine.seq]
    /\ ordered' = Append(ordered, engine.confirmed)
    /\ UNCHANGED <<tape, late, alive, rebuilt, orbFile, witnessed, quick, lastIn, deaths>>

\* notify_position_closed: the setup outlives its trade while price is outside.
PositionClosed(d) ==
    IF d.state # "OPEN" THEN d
    ELSE IF d.accepted THEN Runaway(d)
    ELSE IF late THEN [d EXCEPT !.state = "EXPIRED"]
    ELSE IF d.inside THEN Rearm(TRUE)
    ELSE [d EXCEPT !.state = "ARMED", !.aged = FALSE, !.readTs = 0, !.confirmed = 0]

\* The manager closes the position, or the supervisor ends the offer.
TradeEnds ==
    /\ alive /\ turn = "trade" /\ trading /\ trading' = FALSE
    /\ engine' = PositionClosed(engine)
    /\ quick' = quick \cup {Newest}
    /\ UNCHANGED <<tape, late, alive, rebuilt, orbFile, ordered, witnessed, lastIn, turn, deaths>>

\* mark_triggered: the runaway fired on the accepted 50.
RunawayFires ==
    /\ alive /\ turn # "analysis" /\ turn' = "analysis" /\ engine.accepted
    /\ engine' = PositionClosed(engine)
    /\ UNCHANGED <<tape, late, alive, rebuilt, orbFile, trading, ordered, witnessed, quick, lastIn,
                   deaths>>

TickEnds ==
    /\ alive /\ turn # "analysis" /\ turn' = "analysis"
    /\ UNCHANGED <<tape, late, alive, rebuilt, engine, orbFile, trading, ordered, witnessed, quick,
                   lastIn, deaths>>

ProcessDies ==
    /\ alive /\ deaths < MaxRestarts
    /\ alive' = FALSE /\ deaths' = deaths + 1
    /\ UNCHANGED <<tape, late, rebuilt, engine, orbFile, trading, ordered, witnessed, quick, lastIn, turn>>

ProcessStarts ==
    /\ ~alive /\ alive' = TRUE
    /\ engine' = orbFile /\ rebuilt' = FALSE /\ turn' = "analysis"
    /\ UNCHANGED <<tape, late, orbFile, trading, ordered, witnessed, quick, lastIn, deaths>>

OrbNext ==
    \/ BarCloses \/ CutoffPasses \/ AnalysisTick \/ PlaceOrder \/ TradeEnds \/ RunawayFires
    \/ TickEnds \/ ProcessDies \/ ProcessStarts

OrbSpec == OrbInit /\ [][OrbNext]_orbVars

(***************************************************************************)
(* Properties.                                                             *)
(***************************************************************************)
\* "no path from this function to a late entry": an order stands on a confirmation that a tick saw
\* on its own bar, in this process or in one before it, never on a replayed one.
OrdersAreSeen == \A k \in 1..Len(ordered) : ordered[k] \in witnessed

\* "ONE CONFIRMATION, ONE ORDER", through resolved trades: a bar is ordered on again only when its
\* own trade ended before the next bar closed.
OrdersAreApart ==
    \A j, k \in 1..Len(ordered) : j # k /\ ordered[j] = ordered[k] => ordered[j] \in quick

\* Both, through a restart that finds a file saved before the order was placed. A second death, or
\* a file that does not save, is outside it: the file may then still hold a confirmation as unspent
\* when its trade has ended.
OrdersAreFresh == OrdersAreSeen /\ OrdersAreApart

\* ... and "the next order needs a fresh qualifying retest": never twice on the same bar.
OneOrderPerRetest ==
    \A j, k \in 1..Len(ordered) : ordered[j] = ordered[k] => j = k

\* A close inside the range kills the impulsive candle: an engine armed on a break since which no
\* trade was opened and gone within a minute (such a trade arms it on its own break again) has
\* read no bar since that closed inside.
ArmedThesisStands ==
    /\ engine.state = "ARMED" /\ alive /\ rebuilt
    /\ \A q \in quick : q <= engine.born
    => lastIn < engine.born

\* Where a process that was never down, and never traded, is after the i-th bar: it has read every
\* bar as it closed, once, or (four times a minute) again, and the newest as often as the tick of
\* a replay reads it.
Twice(d, i) == Update(Update(d, i), i)

Once == [i \in 1..Newest |->
    LET read[j \in 1..i] == IF j = 1 THEN Fresh ELSE Update(read[j - 1], j)
    IN IF i = Newest THEN Update(read[i], i) ELSE read[i]]

Again == [i \in 1..Newest |->
    LET read[j \in 1..i] == IF j = 1 THEN Fresh ELSE Twice(read[j - 1], j)
    IN read[i]]

Agrees(d, continuous) ==
    (\A i \in 1..Newest : continuous[i].state # "OPEN") =>
      d.state = continuous[Newest].state /\ d.dir = continuous[Newest].dir

Rebuilds == ~rebuilt /\ rebuilt' /\ ~late /\ witnessed = {}

\* Whatever the file held, the replay ends where a process that read each bar once would be, as
\* long as nothing was confirmed on the way and the range's own minutes closed inside it.
ResumeIsForgotten ==
    [][Rebuilds /\ Inside(tape[1].close) => Agrees(engine', Once)]_orbVars

\* "A continuously-running process and a restarted one therefore reach an IDENTICAL state from an
\* identical tape": a live process reads a bar more than once.
RestartAgrees == [][Rebuilds => Agrees(engine', Again)]_orbVars
=============================================================================
