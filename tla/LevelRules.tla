----------------------------- MODULE LevelRules -----------------------------
(***************************************************************************)
(* The definitions of TESTED, HELD and BREACHED (derived/level_rules.py):  *)
(* how the code steps one object - a level, or a zone of levels - through  *)
(* the closed minutes, and what the ruling in the file's header says of a  *)
(* tape.  A bar has an open, a high, a low and a close.                    *)
(***************************************************************************)
EXTENDS Integers

SidesOfLevel == {"resistance", "support"}

Opposite(side) == IF side = "resistance" THEN "support" ELSE "resistance"

\* edges_of.
NearEdge(lo, hi, side) == IF side = "resistance" THEN lo ELSE hi
FarEdge(lo, hi, side) == IF side = "resistance" THEN hi ELSE lo

Reaches(bar, near, side) == IF side = "resistance" THEN bar.high >= near ELSE bar.low <= near

Beyond(price, far, side) == IF side = "resistance" THEN price > far ELSE price < far

HeldSide(close, near, side) == IF side = "resistance" THEN close <= near ELSE close >= near

(***************************************************************************)
(* Episode.step.                                                           *)
(***************************************************************************)
NewEpisode == [open |-> FALSE, pending |-> FALSE, dead |-> FALSE]

Accepts(e, bar, far, side) == e.pending /\ Beyond(bar.open, far, side)

InEpisode(e, bar, near, side) == e.open \/ Reaches(bar, near, side)

Holds(e, bar, near, far, side) ==
    /\ InEpisode(e, bar, near, side)
    /\ ~Beyond(bar.close, far, side) /\ HeldSide(bar.close, near, side)

\* Mutant: an open inside does not clear the pending breach.
StepPending(e, bar, near, far, side) ==
    IF e.dead THEN e
    ELSE IF Accepts(e, bar, far, side) THEN [e EXCEPT !.pending = FALSE, !.dead = TRUE]
    ELSE [open    |-> \/ Beyond(bar.close, far, side)
                      \/ InEpisode(e, bar, near, side) /\ ~Holds(e, bar, near, far, side),
          pending |-> e.pending \/ Beyond(bar.close, far, side),
          dead    |-> FALSE]

Step(e, bar, near, far, side) ==
    IF e.dead THEN e
    ELSE IF Accepts(e, bar, far, side) THEN [e EXCEPT !.pending = FALSE, !.dead = TRUE]
    ELSE [open    |-> \/ Beyond(bar.close, far, side)
                      \/ InEpisode(e, bar, near, side) /\ ~Holds(e, bar, near, far, side),
          pending |-> Beyond(bar.close, far, side),
          dead    |-> FALSE]

\* The events of the step.
EventsOf(e, bar, near, far, side) ==
    IF e.dead THEN {}
    ELSE IF Accepts(e, bar, far, side) THEN {"BREACHED"}
    ELSE (IF ~e.open /\ Reaches(bar, near, side) THEN {"TESTED"} ELSE {})
           \cup (IF Holds(e, bar, near, far, side) THEN {"HELD"} ELSE {})

(***************************************************************************)
(* The ruling, of a tape and an object judged on it since minute born.     *)
(***************************************************************************)
\* "the closure of a 1-min candle beyond [and the] start of a one minute candle on the pierced side".
BreachedAt(bars, born, i, far, side) ==
    /\ i - 1 >= born
    /\ Beyond(bars[i - 1].close, far, side) /\ Beyond(bars[i].open, far, side)

\* A test that has not closed back outside on the near side up to minute i.
WorkedTo(bars, born, i, near, side) ==
    \E j \in born..i : /\ Reaches(bars[j], near, side)
                       /\ \A k \in j..i : ~HeldSide(bars[k].close, near, side)

\* "wicked into the Level or zone and failed to claim beyond it": the first close back outside.
HeldAt(bars, born, i, near, side) ==
    /\ HeldSide(bars[i].close, near, side)
    /\ \E j \in born..i : /\ Reaches(bars[j], near, side)
                          /\ \A k \in j..(i - 1) : ~HeldSide(bars[k].close, near, side)
=============================================================================
