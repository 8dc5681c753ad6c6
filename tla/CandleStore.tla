---------------------------- MODULE CandleStore ----------------------------
(***************************************************************************)
(* What the candle store keeps of one wide bar (5m, 15m or 1h) and of its  *)
(* minutes: FeedStore of data/candle_feed.py.  The vendor sends a bar live *)
(* while it forms, and again, in any version, after every reconnect; the   *)
(* rule and the 1m referee decide between the version stored and the one   *)
(* replayed.                                                               *)
(*                                                                         *)
(* A version is known by its volume (for an index without volume, by its   *)
(* range, for which the rule reads alike).                                 *)
(***************************************************************************)
EXTENDS Integers, FiniteSetsExt

CONSTANTS
    Span,       \* the minutes the wide bar must hold
    Traded,     \* what trades in each of them
    MaxErrors   \* times the referee may fail

ASSUME SpanAssumption == Span \in Nat \ {0}
ASSUME TradedAssumption == Traded \in Nat \ {0} /\ MaxErrors \in Nat

Wide == 0
Minutes == 1..Span
Slots == {Wide} \cup Minutes

\* No row; a row of NULL prices, which an earlier version of the feed stored.
NoBar == -1
Null == 0

Truth(b) == IF b = Wide THEN Span * Traded ELSE Traded

VARIABLES
    now,     \* minutes since the wide bar began; Span + 1 is its close and the grace
    kept,    \* the store
    errors   \* failures of the referee so far

tapeVars == <<now, kept, errors>>

TapeTypeOK ==
    /\ now \in 0..(Span + 1) /\ errors \in 0..MaxErrors
    /\ kept \in [Slots -> {NoBar, Null} \cup 1..(2 * Span * Traded)]

TapeInit == now = 0 /\ errors = 0 /\ kept \in [Slots -> {NoBar, Null}]

Begun(b) == b = Wide \/ b <= now + 1
Ended(b) == (IF b = Wide THEN Span ELSE b) <= now

\* What the vendor sends: a forming bar, the bar, a slice of it, or, for a wide
\* bar, one inflated up to twice.  A minute is never inflated (BACKLOG FEED.10
\* leaves that open).
Versions(b) == 1..(IF b = Wide /\ Ended(b) THEN 2 * Truth(b) ELSE Truth(b))

\* _UPSERT_CANDLE_SQL: a NULL yields, and a bar to a version with 95% of its volume.
Yields(old, new) == old = Null \/ 100 * new >= 95 * old

\* The referee sits once the bar is closed for a minute and every minute is there.
Sits == now > Span /\ \A k \in Minutes : kept[k] \notin {NoBar, Null}

Gap(a, b) == IF a > b THEN a - b ELSE b - a
Aggregate == MapThenSumSet(LAMBDA k : kept[k], Minutes)

\* A version no nearer to the minutes than the stored one is refused, whatever the rule says.
Nearer(old, new) == Gap(new, Aggregate) < Gap(old, Aggregate)

\* Mutant: v4.14, the rule without the referee.
ChosenByRule(b, new, fails) ==
    IF kept[b] = NoBar \/ Yields(kept[b], new) THEN new ELSE kept[b]

Chosen(b, new, fails) ==
    IF b = Wide /\ Sits /\ ~fails /\ kept[b] \notin {NoBar, Null}
      THEN IF Nearer(kept[b], new) THEN new ELSE kept[b]
      ELSE IF kept[b] = NoBar \/ Yields(kept[b], new) THEN new ELSE kept[b]

\* One row of a flush: rows are judged one by one, each against what the last left.
Take(b, new, fails) ==
    /\ Begun(b) /\ new \in Versions(b)
    /\ fails => errors < MaxErrors
    /\ kept' = [kept EXCEPT ![b] = Chosen(b, new, fails)]
    /\ errors' = IF fails THEN errors + 1 ELSE errors
    /\ UNCHANGED now

MinuteEnds == now <= Span /\ now' = now + 1 /\ UNCHANGED <<kept, errors>>

TapeNext ==
    \/ MinuteEnds
    \/ \E b \in Slots, fails \in BOOLEAN : \E new \in Versions(b) : Take(b, new, fails)

\* A vendor that goes on replaying sends the true bar again and again, between whatever else it sends.
RepeatsTheTruth(b) == Ended(b) /\ Take(b, Truth(b), FALSE)

TapeSpec ==
    /\ TapeInit /\ [][TapeNext]_tapeVars
    /\ WF_tapeVars(MinuteEnds) /\ \A b \in Slots : SF_tapeVars(RepeatsTheTruth(b))

(***************************************************************************)
(* Property                                                                *)
(***************************************************************************)
\* Whatever slices and inflated bars come between, in whatever order the minutes and the wide bar
\* are replayed, and although the referee may fail for a time, the store ends with the true bars and
\* keeps them (candle_feed.py:767-778, the header of the referee), as long as every slice lacks more
\* than the twentieth that Yields forgives: one that lacks less replaces a true minute.
TruthPrevails == <>[](\A b \in Slots : kept[b] = Truth(b))

\* What that rests on besides the vendor. A true minute is not lost again; with true minutes the wide
\* bar, once closed, is never further from the truth than it was, but for a failure of the referee;
\* and a true bar that is replayed then is kept.
MinutesAreTrue == \A k \in Minutes : kept[k] = Truth(k)

TruthOnlyNears ==
    [][/\ \A k \in Minutes : kept[k] = Truth(k) => kept'[k] = Truth(k)
       /\ now > Span /\ MinutesAreTrue /\ errors' = errors =>
            Gap(kept'[Wide], Truth(Wide)) <= Gap(kept[Wide], Truth(Wide))]_tapeVars

TruthIsTaken ==
    [][\A b \in Slots : RepeatsTheTruth(b) /\ (b = Wide => now > Span /\ MinutesAreTrue) =>
         kept'[b] = Truth(b)]_tapeVars
=============================================================================
