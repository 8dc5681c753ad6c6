----------------------------- MODULE LadderWalk -----------------------------
(***************************************************************************)
(* The price of a live limit: entry_ladder.py (the rungs of one quote and  *)
(* the walk down them), ladder_registry.py (who owns a walk between ticks) *)
(* and the callers that price, refuse and end it in entry_engine.py,       *)
(* main.py and exit_engine.py.  One attempt of one intent is one step: the *)
(* loop is single-threaded and the order is over before the next attempt.  *)
(*                                                                         *)
(* Quotes are in cents.  Prices are in quarter-cents, in which the mark    *)
(* and the opener a quarter of the spread in from the best price are whole. *)
(***************************************************************************)
EXTENDS Integers, FiniteSets

CONSTANTS
    Intents,      \* the keys of the registry, of the four kinds below
    Quotes,       \* <<bid, ask>> in cents
    Fine, Coarse, \* the venue's increment below and from Boundary, in cents
    Boundary,     \* a mark, in cents
    MaxRungs,     \* MAX_RUNGS
    StaleAfter,   \* STALE_AFTER_S, in spells between attempts
    MaxRefusals   \* refusals of one walk, at most

Sells == {"open_vertical", "close_long"}
Closes == {"close_long", "close_short"}

ASSUME LadderAssumption ==
    /\ Intents \subseteq Sells \cup Closes \cup {"open_single"}
    /\ Quotes \subseteq (Nat \X Nat)
    /\ {Fine, Coarse} \subseteq Nat \ {0} /\ Boundary \in Nat
    /\ {MaxRungs, StaleAfter, MaxRefusals} \subseteq Nat

VARIABLES
    intent,  \* the key: keys share nothing, and each has a side of its own
    walk,    \* its LadderState: rung, best_refused, structure; or NoWalk
    idle,    \* spells since the walk was touched
    asked,   \* prices refused since the ratchet began (history)
    posted   \* the last price a walk gave: quote, price, what was refused before

lwVars == <<intent, walk, idle, asked, posted>>

NoPrice == 0     \* no refusal yet: no order is priced at zero
NewWalk == [rung |-> 0, refused |-> NoPrice, structure |-> "any"]
NoWalk == [NewWalk EXCEPT !.rung = -1]
NoPost == [quote |-> <<0, 0>>, price |-> NoPrice, after |-> {}]
Structures == IF intent = "open_vertical" THEN {"a", "b"} ELSE {"any"}

(***************************************************************************)
(* entry_ladder.py and tick_size.resolve.                                  *)
(***************************************************************************)
Mark(q) == 2 * (q[1] + q[2])
Usable(q) == q[2] > 0 /\ q[1] <= q[2]

\* An off-nickel quote proves a penny grid, whatever the venue's rule says.
Increment(q) ==
    IF \E p \in {q[1], q[2]} : p % 5 # 0 THEN 4
    ELSE IF Mark(q) < 4 * Boundary THEN 4 * Fine ELSE 4 * Coarse

Up(p, n) == ((p + n - 1) \div n) * n
Down(p, n) == (p \div n) * n

\* _snap_in_our_favour: up selling, down buying.
InOurFavour(i, p, n) == IF i \in Sells THEN Up(p, n) ELSE Down(p, n)

Better(i, p, m) == IF i \in Sells THEN p > m ELSE p < m
StepIn(i, p, n) == IF i \in Sells THEN p - n ELSE p + n

MarkOnGrid(i, q) == InOurFavour(i, Mark(q), Increment(q))

\* No order is priced at zero: one increment instead.
NeverZero(p, q) == IF p <= 0 THEN Increment(q) ELSE p

\* rungs: the k-th price of the table, the mark's when the table is shorter.
Rung(i, q, k) ==
    LET n == Increment(q)
        quarter == IF i \in Sells THEN 4 * q[2] - (q[2] - q[1]) ELSE 4 * q[1] + (q[2] - q[1])
        start == InOurFavour(i, quarter, n)
        skipped == IF start <= 0 THEN 1 ELSE 0
        rung == IF i \in Sells THEN start - (k + skipped) * n ELSE start + (k + skipped) * n
    IN  IF q[1] = q[2] THEN Mark(q)
        ELSE IF k + skipped < MaxRungs /\ Better(i, rung, Mark(q)) THEN rung
        ELSE NeverZero(MarkOnGrid(i, q), q)

\* next_price, rule 1: a refused price never returns.
Ratchet(i, q, w) ==
    LET p == Rung(i, q, w.rung)
    IN  IF w.refused # NoPrice /\ ~Better(i, w.refused, p)
        THEN StepIn(i, w.refused, Increment(q)) ELSE p

\* Rule 3: never worse than mark, unless mark's price would be zero.
NextPrice(i, q, w) ==
    LET p == Ratchet(i, q, w)
    IN  NeverZero(IF Better(i, Mark(q), p) THEN MarkOnGrid(i, q) ELSE p, q)

(***************************************************************************)
(* ladder_registry.py and its callers.                                     *)
(***************************************************************************)
LadderTypeOK ==
    /\ intent \in Intents
    /\ walk \in [rung: -1..MaxRefusals, refused: Nat, structure: {"any", "a", "b"}]
    /\ idle \in 0..(StaleAfter + 1)
    /\ asked \subseteq Nat \ {NoPrice}
    /\ posted = NoPost \/ posted \in [quote: Quotes, price: Nat \ {NoPrice}, after: SUBSET (Nat \ {NoPrice})]

LadderInit ==
    /\ intent \in Intents /\ walk = NoWalk /\ idle = 0
    /\ asked = {} /\ posted = NoPost

\* get, and next_price's structure: a new structure keeps the rung and drops the ratchet.
Resumed(s) ==
    IF walk = NoWalk \/ idle > StaleAfter THEN [NewWalk EXCEPT !.structure = s]
    ELSE IF walk.structure = s THEN walk
    ELSE [walk EXCEPT !.refused = NoPrice, !.structure = s]

\* A bug: refuse keeps the last refusal instead of the worst.
RefuseLast(w, p) == [w EXCEPT !.rung = @ + 1, !.refused = p]

\* refuse: the rung advances, the worst price refused is kept - the lowest
\* selling, the highest buying.
Refuse(w, p) ==
    [rung |-> w.rung + 1,
     refused |-> IF w.refused = NoPrice \/ Better(intent, w.refused, p) THEN p ELSE w.refused,
     structure |-> w.structure]

\* One attempt: priced from the walk, then filled, refused, or neither - turned
\* away by the guard or the broker, or a close that filled in part.
Attempt(q, s) ==
    LET w == Resumed(s)
        p == NextPrice(intent, q, w)
        before == IF walk # NoWalk /\ idle <= StaleAfter /\ walk.structure = s THEN asked ELSE {}
    IN  /\ Usable(q)
        /\ posted' = [quote |-> q, price |-> p, after |-> before]
        /\ \/ walk' = NoWalk /\ asked' = {}
           \/ w.rung < MaxRefusals /\ walk' = Refuse(w, p) /\ asked' = before \cup {p}
           \/ walk' = w /\ asked' = before
        /\ idle' = 0
        /\ UNCHANGED intent

\* No usable quote, or an exit that does not walk: posted at some mark, and
\* refused on the walk if there is one.
PostAtMark(q) ==
    LET p == NeverZero(MarkOnGrid(intent, q), q)
    IN  /\ Usable(q) /\ walk # NoWalk
        /\ \/ walk' = NoWalk /\ asked' = {} /\ idle' = idle
           \/ /\ walk.rung < MaxRefusals
              /\ walk' = Refuse(walk, p) /\ asked' = asked \cup {p} /\ idle' = 0
        /\ UNCHANGED <<intent, posted>>

\* No attempt for a while: the signal is gone, the exit is not due.
Lull ==
    /\ idle <= StaleAfter /\ idle' = idle + 1
    /\ UNCHANGED <<intent, walk, asked, posted>>

\* sweep_stale by another key's get; a restart.
Lost ==
    /\ walk' = NoWalk /\ asked' = {}
    /\ UNCHANGED <<intent, idle, posted>>

LadderNext ==
    \/ \E q \in Quotes : PostAtMark(q) \/ \E s \in Structures : Attempt(q, s)
    \/ Lull \/ Lost

LadderSpec == LadderInit /\ [][LadderNext]_lwVars

(***************************************************************************)
(* Properties                                                              *)
(***************************************************************************)
\* At mark: its price on the grid, or one increment where that is zero.
AtMark(i, q, p) == p \in {Mark(q), NeverZero(MarkOnGrid(i, q), q)}

\* Every price a walk posts is the mark's, or better than the mark and further
\* in than everything this walk was refused before, however the quote, the
\* increment or the strikes moved between (entry_ladder.py:81-104).
RefusedNeverReturns ==
    posted # NoPost =>
      \/ AtMark(intent, posted.quote, posted.price)
      \/ /\ Better(intent, posted.price, Mark(posted.quote))
         /\ \A r \in posted.after : Better(intent, r, posted.price)
=============================================================================
