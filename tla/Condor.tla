------------------------------- MODULE Condor -------------------------------
(***************************************************************************)
(* The credit verticals of a live session and what the bot does to them:   *)
(* the entry of a leg (_execute_condor_leg), the remainder of a partial    *)
(* fill that walks on (credit_remainder.py), the roll of the untested side *)
(* (strategy/condor_roll.py), the exits of the manager, the reconcile that *)
(* replaces its records, and restarts.                                     *)
(*                                                                         *)
(* Three places say how many contracts a vertical has: the broker (owned), *)
(* the row of trades.db (rows), and the record in memory (book), which a   *)
(* remainder may share with the manager.  What one order does at the       *)
(* broker is GuardedEntry's and LiveExit's; here it fills some of what it  *)
(* asked and its call returns.                                             *)
(***************************************************************************)
EXTENDS Integers, Sequences, FiniteSets

CONSTANTS
    Lots,         \* contracts a vertical is sized to
    MaxVerticals, \* verticals opened, at most
    Upsets       \* subset of {"reconcile", "restart", "light"}

Sides == {"call", "put"}

ASSUME LotsAssumption == Lots \in Nat \ {0} /\ MaxVerticals \in Nat

VARIABLES
    owned,    \* vertical -> contracts at the broker
    rows,     \* vertical -> its row: side, qty, wing (is_broken_wing), open
    book,     \* the manager's records: vertical -> qty, wing
    rem,      \* side -> the Remainder registered under the side's key, or Nothing
    over,     \* the strategy's entry window has closed
    pc,       \* where the tick is
    deal,     \* the roll between its close and its open
    formed    \* rolls announced as final form: the pair of them (history)

cdVars == <<owned, rows, book, rem, over, pc, deal, formed>>

Nothing == [id |-> 0, left |-> 0, qty |-> 0, shared |-> FALSE]
NoDeal == [tested |-> 0, side |-> "call", qty |-> 0]

Verticals == 1..Len(rows)
Counts == 0..Lots

CondorTypeOK ==
    /\ Len(rows) <= MaxVerticals /\ owned \in [Verticals -> Counts]
    /\ \A v \in Verticals :
         rows[v] \in [side: Sides, qty: 1..Lots, wing: BOOLEAN, open: BOOLEAN]
    /\ DOMAIN book \subseteq Verticals
    /\ \A v \in DOMAIN book : book[v] \in [qty: 1..Lots, wing: BOOLEAN]
    /\ rem \in [Sides -> [id: 0..Len(rows), left: Counts, qty: Counts, shared: BOOLEAN]]
    /\ pc \in {"supervise", "roll", "reopen", "manage", "enter"} /\ over \in BOOLEAN
    /\ deal \in [tested: 0..Len(rows), side: Sides, qty: Counts]

CondorInit ==
    /\ owned = <<>> /\ rows = <<>> /\ book = <<>>
    /\ rem = [s \in Sides |-> Nothing]
    /\ over = FALSE /\ pc = "supervise" /\ deal = NoDeal /\ formed = {}

OpenRows == {v \in Verticals : rows[v].open}

\* _open_credit_sides: by the rows, not by the manager.
OpenSides == {rows[v].side : v \in OpenRows}

Only(f, S) == [v \in S |-> f[v]]

\* set_open_positions(get_open_trades_live()): new objects, from the rows rs.
FromRows(rs) == [v \in {x \in Verticals : rs[x].open} |-> [qty |-> rs[v].qty, wing |-> rs[v].wing]]

(***************************************************************************)
(* The remainder of a partial fill.                                        *)
(***************************************************************************)
\* The contracts the next rung asks for: the parent's row is open and so is the window.
Asks(s) == IF rem[s].id # 0 /\ rows[rem[s].id].open /\ ~over THEN rem[s].left ELSE 0

\* accrete.
Accrete(r, n) ==
    [id |-> r.id, left |-> IF r.left > n THEN r.left - n ELSE 0, qty |-> r.qty + n,
     shared |-> r.shared]

\* What a tick's fills got (side -> contracts) are to the record and the row of vertical v.
Growing(got, v) == {s \in Sides : got[s] > 0 /\ rem[s].id = v}
Gain(got, v) == IF Growing(got, v) = {} THEN 0 ELSE got[CHOOSE s \in Growing(got, v) : TRUE]
Sized(got, v, r) ==
    IF Growing(got, v) = {} THEN r
    ELSE LET s == CHOOSE x \in Growing(got, v) : TRUE
         IN [r EXCEPT !.qty = Accrete(rem[s], got[s]).qty]

\* supervise: a rung for each remainder; what filled joins the record and the row.
Supervise ==
    /\ pc = "supervise" /\ pc' = "roll"
    /\ \E got \in [Sides -> Counts] :
         /\ \A s \in Sides : got[s] <= Asks(s)
         /\ owned' = [v \in Verticals |-> owned[v] + Gain(got, v)]
         /\ rows' = [v \in Verticals |-> Sized(got, v, rows[v])]
         /\ book' = [v \in DOMAIN book |->
                       IF \E s \in Growing(got, v) : rem[s].shared
                       THEN Sized(got, v, book[v]) ELSE book[v]]
         /\ rem' = [s \in Sides |->
                      IF Asks(s) = 0 \/ got[s] = rem[s].left THEN Nothing
                      ELSE Accrete(rem[s], got[s])]
    /\ UNCHANGED <<over, deal, formed>>

WindowCloses ==
    /\ ~over /\ over' = TRUE
    /\ UNCHANGED <<owned, rows, book, rem, pc, deal, formed>>

(***************************************************************************)
(* The roll: the untested vertical is bought back, a nearer one is sold.   *)
(***************************************************************************)
\* check_and_execute_roll: a pair, neither of it rolled.  The plan's marks say risk-free.
MayRoll(t, u) ==
    /\ DOMAIN book = {t, u} /\ rows[t].side # rows[u].side
    /\ \A v \in {t, u} : ~book[v].wing

RollCloses ==
    /\ pc = "roll" /\ pc' = "reopen"
    /\ \E t, u \in DOMAIN book :
         /\ MayRoll(t, u)
         /\ deal' = [tested |-> t, side |-> rows[u].side, qty |-> book[u].qty]
         /\ owned' = [owned EXCEPT ![u] = @ - book[u].qty]
         /\ rows' = [rows EXCEPT ![u].open = FALSE]
         /\ book' = Only(book, {t})
    /\ UNCHANGED <<rem, over, formed>>

\* No pair, no test of a side, no risk-free plan, or a close that was not confirmed.
NoRoll ==
    /\ pc = "roll" /\ pc' = "manage"
    /\ UNCHANGED <<owned, rows, book, rem, over, deal, formed>>

\* Mutant: the mark of the tested leg is kept in memory only.
MarksInMemory(rs, t) == rs

\* update_fields(is_broken_wing=1) of the tested row.
Marks(rs, t) == [rs EXCEPT ![t].wing = TRUE]

\* Mutant: the rolled row is written for the planned contracts.
RolledAsPlanned(got) == deal.qty

\* The row of the rolled vertical: the confirmed quantity.
RolledQty(got) == got

\* The rungs are walked in line; what filled is booked with the mark of the final form.  If the
\* credit that came in is lighter than the tested width needs, the tested leg is not marked.
RollReopens ==
    /\ pc = "reopen" /\ pc' = "manage" /\ deal' = NoDeal /\ Len(rows) < MaxVerticals
    /\ \E got \in 1..deal.qty, light \in {FALSE} \cup {"light" \in Upsets} :
         LET new == Len(rows) + 1
             t == deal.tested
             grown == Append(rows, [side |-> deal.side, qty |-> RolledQty(got), wing |-> TRUE,
                                    open |-> TRUE])
             both == [v \in DOMAIN book \cup {new} |->
                        IF v = new THEN [qty |-> RolledQty(got), wing |-> TRUE] ELSE book[v]]
         IN /\ owned' = Append(owned, got)
            /\ IF light
               THEN /\ rows' = grown /\ book' = both
                    /\ UNCHANGED formed
               ELSE /\ rows' = Marks(grown, t)
                    /\ book' = [both EXCEPT ![t] = [qty |-> both[t].qty, wing |-> TRUE]]
                    /\ formed' = formed \cup {{t, new}}
    /\ UNCHANGED <<rem, over>>

\* Rejected, or no rung filled: the roll is half complete and a page says so.
RollHalts ==
    /\ pc = "reopen" /\ pc' = "manage" /\ deal' = NoDeal
    /\ UNCHANGED <<owned, rows, book, rem, over, formed>>

(***************************************************************************)
(* The manager, the entries, the reconcile and a restart.                  *)
(***************************************************************************)
\* The verticals whose stop, target or close is confirmed this tick: the record's contracts are
\* bought back and the row is closed.
Manage ==
    /\ pc = "manage" /\ pc' = "enter"
    /\ \E done \in SUBSET DOMAIN book :
         /\ owned' = [v \in Verticals |-> IF v \in done THEN owned[v] - book[v].qty ELSE owned[v]]
         /\ rows' = [v \in Verticals |->
                       IF v \in done THEN [rows[v] EXCEPT !.open = FALSE] ELSE rows[v]]
         /\ book' = Only(book, DOMAIN book \ done)
    /\ UNCHANGED <<rem, over, deal, formed>>

\* Mutant: the sides are read from what the remainders walk for.
MayOpenUnwalked(s) == rem[s].id = 0

\* _can_open_credit_spread: the first leg, or the other side.
MayOpen(s) == s \notin OpenSides

\* _execute_condor_leg: what filled is booked, the rest is registered under the side's key.
Enter ==
    /\ pc = "enter" /\ pc' = "supervise" /\ ~over /\ Len(rows) < MaxVerticals
    /\ \E s \in Sides, got \in 1..Lots :
         LET new == Len(rows) + 1
         IN /\ MayOpen(s)
            /\ owned' = Append(owned, got)
            /\ rows' = Append(rows, [side |-> s, qty |-> got, wing |-> FALSE, open |-> TRUE])
            /\ book' = [v \in DOMAIN book \cup {new} |->
                          IF v = new THEN [qty |-> got, wing |-> FALSE] ELSE book[v]]
            /\ rem' = IF got = Lots THEN rem
                      ELSE [rem EXCEPT ![s] = [id |-> new, left |-> Lots - got, qty |-> got,
                                               shared |-> TRUE]]
    /\ UNCHANGED <<over, deal, formed>>

NoEntry ==
    /\ pc = "enter" /\ pc' = "supervise"
    /\ UNCHANGED <<owned, rows, book, rem, over, deal, formed>>

\* _intraday_reconcile: rows the broker no longer holds (or another strategy's) are closed and the
\* manager's records are replaced.
Reconcile ==
    /\ "reconcile" \in Upsets /\ pc = "supervise"
    /\ \E gone \in SUBSET OpenRows :
         /\ owned' = [v \in Verticals |-> IF v \in gone THEN 0 ELSE owned[v]]
         /\ rows' = [v \in Verticals |->
                       IF v \in gone THEN [rows[v] EXCEPT !.open = FALSE] ELSE rows[v]]
         /\ book' = FromRows(rows')
         /\ rem' = [s \in Sides |-> [id |-> rem[s].id, left |-> rem[s].left, qty |-> rem[s].qty,
                                     shared |-> FALSE]]
    /\ UNCHANGED <<over, pc, deal, formed>>

\* The remainders die with the process; the manager starts from the rows.
Restart ==
    /\ "restart" \in Upsets
    /\ book' = FromRows(rows) /\ rem' = [s \in Sides |-> Nothing]
    /\ pc' = "supervise" /\ deal' = NoDeal
    /\ UNCHANGED <<owned, rows, over, formed>>

CondorNext ==
    \/ Supervise \/ WindowCloses \/ RollCloses \/ NoRoll \/ RollReopens \/ RollHalts
    \/ Manage \/ Enter \/ NoEntry \/ Reconcile \/ Restart

CondorSpec == CondorInit /\ [][CondorNext]_cdVars

(***************************************************************************)
(* Properties.                                                             *)
(***************************************************************************)
\* "The DB never disagrees" with what is held: through partial fills, remainders, rolls, replaced
\* records and restarts an open row has the contracts the broker has, never more than were asked.
RowIsHeld == \A v \in OpenRows : rows[v].qty = owned[v] /\ owned[v] <= Lots

\* Never two of a side: no remainder, roll or restart leaves two open verticals of one side.
NeverTwoOfASide == \A v, w \in OpenRows : rows[v].side = rows[w].side => v = w

\* "Once rolled ... this module never touches it again": no leg of a final form is in a later
\* roll, also after its partner has closed, a new complement has opened and the process restarted.
FinalFormIsFinal ==
    [][pc = "roll" /\ pc' = "reopen" =>
         \A p \in formed : p \cap DOMAIN book = {}]_cdVars

\* "One position at the broker, one row in trades.db, one record under management": when the row
\* of a vertical closes nothing of it is left.
ClosedIsFlat == \A v \in Verticals : ~rows[v].open => owned[v] = 0
=============================================================================
