---------------------------- MODULE PositionBook ----------------------------
(***************************************************************************)
(* The position manager over a day: the records it manages in memory       *)
(* against the rows of trades.db.  An entry appends its record, the fill   *)
(* of a standing offer writes only its row, a close books the row and      *)
(* drops the record, the reconcile and a start take the rows, and an empty *)
(* list is read from the rows at its next use.                             *)
(***************************************************************************)
EXTENDS Naturals, FiniteSets

CONSTANTS
    DayTrades,    \* the trades there can be, records [type, n]
    TypeCap,      \* type -> how many of it admission lets be open
    OfferTypes,   \* types entered by a standing offer
    Assignable,   \* types with a short leg: due at 15:45, the others at 15:50
    Shocks,       \* subset of {"phantom", "assigned", "raise", "flatten", "restart"}
    MaxShocks     \* how many of them in a day

ASSUME DayAssumption == IsFiniteSet(DayTrades) /\ MaxShocks \in Nat

VARIABLES
    rowOf,      \* trade -> "none", "open" or "closed": its row
    managed,    \* _open_records
    closes,     \* trade -> how often its close was confirmed and booked (history)
    offered,    \* the types with a working offer
    hour,       \* "trading", "hold" (15:40), "short" (15:45), "ladder" (15:50)
    step,       \* where the tick is
    shocks

dayVars == <<rowOf, managed, closes, offered, hour, step, shocks>>

TypesOf(T) == {t.type : t \in T}
NoTrade == {t \in DayTrades : rowOf[t] = "none"}
OpenTrades == {t \in DayTrades : rowOf[t] = "open"}
RowsAre(T, s) == [t \in DayTrades |-> IF t \in T THEN s ELSE rowOf[t]]

DayTypeOK ==
    /\ rowOf \in [DayTrades -> {"none", "open", "closed"}] /\ managed \in SUBSET DayTrades
    /\ closes \in [DayTrades -> Nat] /\ offered \in SUBSET OfferTypes /\ shocks \in 0..MaxShocks
    /\ hour \in {"trading", "hold", "short", "ladder"}
    /\ step \in {"reconcile", "offers", "manage", "enter", "flatten"}

DayInit ==
    /\ rowOf = [t \in DayTrades |-> "none"] /\ managed = {} /\ closes = [t \in DayTrades |-> 0]
    /\ offered = {} /\ hour = "trading" /\ step = "reconcile" /\ shocks = 0

Shock(s) == s \in Shocks /\ shocks < MaxShocks /\ shocks' = shocks + 1

\* Mutant: only the boot reads the rows.
NeverReloaded(records, done) == records

\* has_open_position, and the same lines in manage_open_position and flatten_all: an empty list is
\* read from the rows, which by then are without those just closed.
Reloaded(records, done) == IF records = {} THEN OpenTrades \ done ELSE records

Hydrated == Reloaded(managed, {})

\* _execute_exit of the records whose close is confirmed; an ORB trade takes its offer with it.
BooksClosed(T) ==
    /\ rowOf' = RowsAre(T, "closed")
    /\ closes' = [t \in DayTrades |-> IF t \in T THEN closes[t] + 1 ELSE closes[t]]
    /\ offered' = offered \ TypesOf(T)

Goes(place) == step' = place /\ UNCHANGED hour

(***************************************************************************)
(* The tick.                                                               *)
(***************************************************************************)
AfterReconcile == IF hour = "trading" THEN "offers" ELSE "flatten"

\* _intraday_reconcile finds nothing, or it is not its half hour.
NothingGone ==
    /\ step = "reconcile" /\ Goes(AfterReconcile)
    /\ UNCHANGED <<rowOf, managed, closes, offered, shocks>>

\* Positions gone at the broker: their rows are closed, the records are replaced by the rows.
RowsReconciled ==
    /\ step = "reconcile" /\ Goes(AfterReconcile) /\ Shock("phantom")
    /\ \E gone \in SUBSET OpenTrades :
         /\ gone # {} /\ rowOf' = RowsAre(gone, "closed") /\ managed' = OpenTrades \ gone
    /\ UNCHANGED <<closes, offered>>

\* The short leg is gone and its long is left: the long is adopted in the row's place.
LongAdopted ==
    /\ step = "reconcile" /\ Goes(AfterReconcile) /\ Shock("assigned")
    /\ \E t \in OpenTrades, long \in NoTrade :
         /\ t.type \in Assignable /\ long.type = "ADOPTED"
         /\ rowOf' = [rowOf EXCEPT ![t] = "closed", ![long] = "open"]
         /\ managed' = (OpenTrades \ {t}) \cup {long}
    /\ UNCHANGED <<closes, offered>>

\* The supervisor: an offer fills and adopt_fill logs its row, or it is over, or it goes on working.
OffersSupervised ==
    /\ step = "offers" /\ Goes("manage")
    /\ \/ UNCHANGED <<rowOf, offered>>
       \/ \E type \in offered :
            /\ offered' = offered \ {type}
            /\ \/ UNCHANGED rowOf
               \/ \E t \in NoTrade : t.type = type /\ rowOf' = [rowOf EXCEPT ![t] = "open"]
    /\ UNCHANGED <<managed, closes, shocks>>

\* No market state this tick, or an exception before the manager: the tick ends.
TickCutShort ==
    /\ step \in {"offers", "manage", "enter"} /\ Goes("reconcile")
    /\ UNCHANGED <<rowOf, managed, closes, offered, shocks>>

\* manage_open_position: the records that close are dropped at the end of the pass.
ManagePass ==
    /\ step = "manage" /\ Goes("enter")
    /\ \E done \in SUBSET Hydrated : BooksClosed(done) /\ managed' = Hydrated \ done
    /\ UNCHANGED shocks

\* One record raises: those before it are closed and booked, and no record is dropped.
ManageRaises ==
    /\ step = "manage" /\ Goes("reconcile") /\ Shock("raise")
    /\ \E done \in SUBSET Hydrated : done # Hydrated /\ BooksClosed(done) /\ managed' = Hydrated

\* open_by_strategy and the admission table; a type without a rule is refused.
Admitted ==
    {type \in DOMAIN TypeCap : Cardinality({t \in Hydrated : t.type = type}) < TypeCap[type]}

\* Mutant: set_open_position, whatever is open.
KeepsLast(new) == IF new = {} THEN managed ELSE new

\* add_open_position.
Keeps(new) == managed \cup new

\* attempt_new_entry: every admitted strategy is asked on its own; a fill is logged and appended, an
\* offer is only placed, and not while the engine waits for the end of a trade of its own.
EntryPass ==
    /\ step = "enter" /\ Goes("reconcile")
    /\ \E new \in SUBSET {t \in NoTrade : t.type \in Admitted \ OfferTypes} :
         /\ Cardinality(TypesOf(new)) = Cardinality(new)
         /\ rowOf' = RowsAre(new, "open") /\ managed' = Keeps(new)
    /\ \E placed \in SUBSET ((Admitted \cap OfferTypes) \ TypesOf(OpenTrades)) :
         offered' = offered \cup placed
    /\ UNCHANGED <<closes, shocks>>

DueNow(T) == {t \in T : hour = "ladder" \/ (hour = "short" /\ t.type \in Assignable)}

\* handle_hard_close, and before 15:50 the pass over what is held: a record leaves the list as it
\* closes, and a list that is empty is read again.
HardClose ==
    /\ step = "flatten" /\ Goes("reconcile")
    /\ \E flat \in SUBSET DueNow(Hydrated) :
         LET again == Reloaded(Hydrated \ flat, flat)
         IN \E done \in SUBSET again :
              /\ hour = "ladder" => done = {}
              /\ BooksClosed(flat \cup done) /\ managed' = again \ done
    /\ UNCHANGED shocks

\* A record raises in flatten_all: those before it are closed and dropped.
HardCloseRaises ==
    /\ step = "flatten" /\ Goes("reconcile") /\ Shock("flatten")
    /\ \E flat \in SUBSET DueNow(Hydrated) : BooksClosed(flat) /\ managed' = Hydrated \ flat

\* One raises in the pass over what is held, which the loop catches.
HeldPassRaises ==
    /\ step = "flatten" /\ Goes("reconcile") /\ hour # "ladder" /\ Shock("raise")
    /\ \E flat \in SUBSET DueNow(Hydrated) :
         LET again == Reloaded(Hydrated \ flat, flat)
         IN \E done \in SUBSET again :
              done # again /\ BooksClosed(flat \cup done) /\ managed' = again

Later(h) == CASE h = "trading" -> "hold" [] h = "hold" -> "short" [] OTHER -> "ladder"

ClockMoves ==
    /\ step = "reconcile" /\ hour # "ladder" /\ hour' = Later(hour)
    /\ UNCHANGED <<rowOf, managed, closes, offered, step, shocks>>

\* The process dies anywhere in a tick; _recover_open_position manages every open row.
BootRecovers ==
    /\ Goes("reconcile") /\ Shock("restart") /\ managed' = OpenTrades
    /\ UNCHANGED <<rowOf, closes, offered>>

DayNext ==
    \/ NothingGone \/ RowsReconciled \/ LongAdopted \/ OffersSupervised \/ TickCutShort
    \/ ManagePass \/ ManageRaises \/ EntryPass \/ HardClose \/ HardCloseRaises \/ HeldPassRaises
    \/ ClockMoves \/ BootRecovers

DaySpec == DayInit /\ [][DayNext]_dayVars

(***************************************************************************)
(* Properties.                                                             *)
(***************************************************************************)
\* Nothing open is dropped from management: through entries beside each other, exits, exceptions,
\* reconciles, adoptions and restarts every open row that no offer wrote has its record.
NothingDropped == \A t \in OpenTrades : t.type \notin OfferTypes => t \in managed

\* "Force-close every open position": from 15:50 on the book comes to be flat and stays so, the rows
\* that were never under management among them.
EndsFlat == hour = "ladder" ~> [](OpenTrades = {})

\* Never "a second close against the same position": a record is exited once.
ClosedOnce == \A t \in DayTrades : closes[t] <= 1

(***************************************************************************)
(* What of EndsFlat needs no fairness.                                     *)
(***************************************************************************)
\* Once entries have ended the book only shrinks: the hours do not go back, a row is opened only in
\* the place of one an assignment closed, and what is closed is never reopened.
BookOnlyShrinks ==
    [][hour # "trading" =>
         /\ hour' # "trading" /\ (hour = "ladder" => hour' = "ladder")
         /\ OpenTrades' \subseteq OpenTrades \/ shocks' > shocks
         /\ Cardinality(OpenTrades') <= Cardinality(OpenTrades)
         /\ \A t \in DayTrades : rowOf[t] = "closed" => rowOf'[t] = "closed"]_dayVars

\* A hard close in which every record that was due, and all are, is confirmed and leaves the list.
CleanSweep == hour = "ladder" /\ HardClose /\ Hydrated \cap managed' = {}

\* Two clean sweeps flatten the book: the first leaves the list at what is still open, the rows
\* nobody managed, nothing but another sweep changes that, and the second closes them.
TwoSweepsFlatten ==
    [][hour = "ladder" =>
         /\ managed = OpenTrades => managed' = OpenTrades'
         /\ CleanSweep => managed' = OpenTrades'
         /\ CleanSweep /\ managed = OpenTrades => OpenTrades' = {}]_dayVars
=============================================================================
