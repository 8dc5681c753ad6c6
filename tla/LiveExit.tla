------------------------------ MODULE LiveExit ------------------------------
(***************************************************************************)
(* The live close of one position: ExitEngine._confirm_and_book_live_exit  *)
(* and its one-pass body, the broker that works the closing orders, the    *)
(* trade row that keeps the partial-exit memory (live_exit_state), and the *)
(* process that may die between two of its steps.                          *)
(*                                                                         *)
(* Prices are left out; a contract is a unit.  A pass is broken at every   *)
(* call to the broker and at every write of the row, so that fills,        *)
(* cancels and a kill can fall between any two of them.  What may go wrong *)
(* in the environment is the constant Faults; BenignFaults below are the   *)
(* ones the code absorbs, the rest are the ones it does not.               *)
(***************************************************************************)
EXTENDS Integers

CONSTANTS
  Total,      (* contracts of the position (record["contracts"])           *)
  MaxOrders,  (* bound: closing orders one behaviour may post              *)
  MaxPolls,   (* polls before the fill deadline, and before the grace one  *)
  Faults      (* what the environment may do to the bot                    *)

(* fetch    get_order raises when a pass resumes a prior order             *)
(* poll     get_order raises inside the poll loop                          *)
(* cancel   delete_order raises although the order still works             *)
(* refuse   the broker refuses a new order, or nothing is posted           *)
(* save     the write of live_exit_state to the row fails                  *)
(* crash    the process dies, outside the two windows below                *)
(* resync   reconcile replaces the manager's records with the rows         *)
(* fills    an order reads FILLED or dead but its fills are unreadable     *)
(* lost     place_order raises after the broker accepted the order         *)
(* posted   the process dies after the accept, before the id is saved      *)
(* booking  the process dies after the exit state is cleared, before the   *)
(*          row is closed                                                  *)
(* log      closing the row raises                                         *)
AllFaults == {"fetch", "poll", "cancel", "refuse", "save", "crash", "resync",
              "fills", "lost", "posted", "booking", "log"}
BenignFaults == {"poll", "cancel", "refuse", "crash", "resync"}

ASSUME TotalAssumption  == Total \in Nat \ {0}
ASSUME BoundsAssumption == MaxOrders \in Nat /\ MaxPolls \in Nat
ASSUME FaultsAssumption == Faults \subseteq AllFaults

OrderIds == 1 .. MaxOrders
NoOrder  == 0
(* The order with another status.                                          *)
WithStatus(order, st) == [st |-> st, qty |-> order.qty, filled |-> order.filled]

Live     == {"working", "cancelling"}
Statuses == Live \cup {"unused", "filled", "dead", "rejected"}

VARIABLES
  orders,     (* the broker's closing orders                               *)
  closed,     (* contracts of the position the broker has closed           *)
  row,        (* the trade row: open, and live_exit_state                  *)
  mem,        (* the record's exit memory (fills, working order id)        *)
  copy,       (* record["live_exit_state"]: what the bot thinks the row has*)
  pc,         (* where the pass is; "idle" between ticks, "down" = killed  *)
  seen,       (* status in the last snapshot of the order being polled     *)
  cancelled,  (* cancel_requested, local to the pass                       *)
  polls       (* polls since the deadline was last set                     *)

vars     == <<orders, closed, row, mem, copy, pc, seen, cancelled, polls>>
broker   == <<orders, closed>>
pollVars == <<seen, cancelled, polls>>

Blank    == [fills |-> 0, oid |-> NoOrder, last |-> NoOrder]
Unused   == [st |-> "unused", qty |-> 0, filled |-> 0]
ExitMem  == [fills : Nat, oid : OrderIds \cup {NoOrder}, last : OrderIds \cup {NoOrder}]
Places   == {"idle", "fetch", "submit", "posted", "poll", "waiting", "booking", "down"}

TypeOK ==
  /\ orders \in [OrderIds -> [st : Statuses, qty : Nat, filled : Nat]]
  /\ closed \in Nat
  /\ row \in [open : BOOLEAN, state : ExitMem]
  /\ mem \in ExitMem /\ copy \in ExitMem
  /\ pc \in Places
  /\ seen \in Statuses /\ cancelled \in BOOLEAN /\ polls \in 0 .. MaxPolls

Init ==
  /\ orders = [o \in OrderIds |-> Unused]
  /\ closed = 0
  /\ row = [open |-> TRUE, state |-> Blank]
  /\ mem = Blank /\ copy = Blank
  /\ pc = "idle"
  /\ seen = "unused" /\ cancelled = FALSE /\ polls = 0

-----------------------------------------------------------------------------
(* The broker, on its own clock.                                           *)

BrokerFills(o, n) ==
  /\ orders[o].st \in Live
  /\ n > 0 /\ orders[o].filled + n <= orders[o].qty
  /\ orders' = [orders EXCEPT ![o] =
       [st     |-> IF @.filled + n = @.qty THEN "filled" ELSE @.st,
        qty    |-> @.qty,
        filled |-> @.filled + n]]
  /\ closed' = closed + n
  /\ UNCHANGED <<row, mem, copy, pc, pollVars>>

(* A cancel carried out, or an order expired or removed on its own.        *)
BrokerKills(o) ==
  /\ orders[o].st \in Live
  /\ orders' = [orders EXCEPT ![o] = WithStatus(@, "dead")]
  /\ UNCHANGED <<closed, row, mem, copy, pc, pollVars>>

BrokerRejects(o) ==
  /\ orders[o].st = "working" /\ orders[o].filled = 0
  /\ orders' = [orders EXCEPT ![o] = WithStatus(@, "rejected")]
  /\ UNCHANGED <<closed, row, mem, copy, pc, pollVars>>

-----------------------------------------------------------------------------
(* Persistence: what is written when the memory is m.                      *)

(* The row keeps NULL once there is neither a fill nor a working order.    *)
Persisted(m) == IF m.fills > 0 \/ m.oid # NoOrder THEN m ELSE Blank

(* _exit_state_save: no write when the bot believes the row already holds  *)
(* this state; believed even when the write fails, so it is not repeated.  *)
Save(m) ==
  /\ copy' = Persisted(m)
  /\ \/ row' = IF Persisted(m) = copy THEN row ELSE [row EXCEPT !.state = Persisted(m)]
     \/ "save" \in Faults /\ row' = row

(* The `finally` of every pass: remember m, save it, wait for next tick.   *)
EndPass(m) == mem' = m /\ Save(m) /\ pc' = "idle"

(* _book_from_fills: the exit memory is cleared and saved as NULL before   *)
(* the caller closes the row.                                              *)
Book == mem' = Blank /\ Save(Blank) /\ pc' = "booking"

(* Mutant: the id of a harvested order stays on the record.                *)
HarvestKeepsId(n) == [fills |-> mem.fills + n, oid |-> mem.oid, last |-> mem.last]

(* The order is over: the n contracts read from it are added and its id is *)
(* forgotten, also when its fills could not be read (_net_fill_price).     *)
Harvest(n) == [fills |-> mem.fills + n, oid |-> NoOrder, last |-> mem.last]

ReadFills(o) == {orders[o].filled} \cup (IF "fills" \in Faults THEN {0} ELSE {})

-----------------------------------------------------------------------------
(* One pass.                                                               *)

(* The remaining quantity decides: book what is complete, resume the order *)
(* on the record, or submit.                                               *)
StartPass ==
  /\ pc = "idle" /\ row.open
  /\ IF mem.fills >= Total THEN Book
     ELSE /\ pc' = IF mem.oid # NoOrder THEN "fetch" ELSE "submit"
          /\ UNCHANGED <<row, mem, copy>>
  /\ UNCHANGED <<broker, pollVars>>

StartPolling ==
  /\ pc' = "poll" /\ cancelled' = FALSE /\ polls' = 0

(* Resume: a dead order is harvested and the remainder submitted in the    *)
(* same pass; any other is polled.                                         *)
FetchPrior ==
  /\ pc = "fetch"
  /\ LET o == mem.oid IN
     IF orders[o].st = "dead"
       THEN \E n \in ReadFills(o) :
              LET m == Harvest(n) IN
              /\ IF m.fills >= Total THEN Book
                 ELSE mem' = m /\ pc' = "submit" /\ UNCHANGED <<row, copy>>
              /\ UNCHANGED pollVars
       ELSE /\ seen' = orders[o].st
            /\ StartPolling
            /\ UNCHANGED <<row, mem, copy>>
  /\ UNCHANGED broker

(* The prior order cannot be read: it is dropped from the record and a     *)
(* fresh close is submitted.                                               *)
FetchFails ==
  /\ "fetch" \in Faults
  /\ pc = "fetch"
  /\ mem' = [mem EXCEPT !.oid = NoOrder]
  /\ pc' = "submit"
  /\ UNCHANGED <<broker, row, copy, pollVars>>

(* Mutant: a retry submits the full size again.                            *)
PlaceFullSize(o) ==
  /\ orders[o].st = "unused"
  /\ \A p \in OrderIds : p < o => orders[p].st # "unused"
  /\ orders' = [orders EXCEPT ![o] = [st |-> "working", qty |-> Total, filled |-> 0]]
  /\ UNCHANGED closed

Place(o) ==
  /\ orders[o].st = "unused"
  /\ \A p \in OrderIds : p < o => orders[p].st # "unused"
  /\ orders' = [orders EXCEPT ![o] = [st |-> "working", qty |-> Total - mem.fills, filled |-> 0]]
  /\ UNCHANGED closed

SubmitAccepted(o) ==
  /\ pc = "submit" /\ Place(o)
  /\ mem' = [fills |-> mem.fills, oid |-> o, last |-> o]
  /\ seen' = "working"
  /\ pc' = "posted"
  /\ UNCHANGED <<row, copy, cancelled, polls>>

(* The broker has the order, the bot has an exception (or no id): to the   *)
(* bot the submit failed.                                                  *)
SubmitLost(o) ==
  /\ "lost" \in Faults
  /\ pc = "submit" /\ Place(o)
  /\ EndPass(mem)
  /\ UNCHANGED pollVars

(* Order errors, no session, or no mark before the cross: nothing posted.  *)
SubmitRefused ==
  /\ "refuse" \in Faults
  /\ pc = "submit"
  /\ EndPass(mem)
  /\ UNCHANGED <<broker, pollVars>>

(* Mutant: the id is kept in memory only.                                  *)
SaveOrderInMemory ==
  /\ pc = "posted"
  /\ StartPolling
  /\ UNCHANGED <<broker, row, mem, copy, seen>>

(* The id is saved to the row, then the poll loop starts.                  *)
SaveOrder ==
  /\ pc = "posted"
  /\ Save(mem)
  /\ StartPolling
  /\ UNCHANGED <<broker, mem, seen>>

(* One turn of the poll loop.  A failed read keeps the previous snapshot.  *)
Poll ==
  /\ pc = "poll"
  /\ \E st \in {orders[mem.oid].st} \cup (IF "poll" \in Faults THEN {seen} ELSE {}) :
       /\ seen' = st
       /\ \/ /\ st \in {"filled", "dead"}
             /\ \E n \in ReadFills(mem.oid) :
                  LET m == Harvest(n) IN
                  IF m.fills >= Total THEN Book ELSE EndPass(m)
          \/ /\ st = "rejected"
             /\ EndPass([mem EXCEPT !.oid = NoOrder])
          \/ /\ st \in Live
             /\ pc' = "waiting" /\ UNCHANGED <<row, mem, copy>>
  /\ UNCHANGED <<broker, cancelled, polls>>

(* Still working, the deadline not reached: sleep and poll again.          *)
PollAgain ==
  /\ pc = "waiting" /\ polls < MaxPolls
  /\ polls' = polls + 1 /\ pc' = "poll"
  /\ UNCHANGED <<broker, row, mem, copy, seen, cancelled>>

(* The deadline: ask for a cancel and poll on through a grace period, in   *)
(* which either the cancel or a fill wins.                                 *)
DeadlineCancel ==
  /\ pc = "waiting" /\ polls >= MaxPolls /\ ~cancelled
  /\ orders[mem.oid].st \in Live
  /\ orders' = [orders EXCEPT ![mem.oid] = WithStatus(@, "cancelling")]
  /\ cancelled' = TRUE /\ polls' = 0 /\ pc' = "poll"
  /\ UNCHANGED <<closed, row, mem, copy, seen>>

(* Mutant: the id is dropped when the cancel fails.                        *)
DeadlineCancelForgets ==
  /\ pc = "waiting" /\ polls >= MaxPolls /\ ~cancelled
  /\ "cancel" \in Faults \/ orders[mem.oid].st \notin Live
  /\ EndPass([mem EXCEPT !.oid = NoOrder])
  /\ UNCHANGED <<broker, pollVars>>

(* delete_order raises: because the order is already over, or for a reason *)
(* of the broker's own.  The id stays on the record for the next tick.     *)
DeadlineCancelFails ==
  /\ pc = "waiting" /\ polls >= MaxPolls /\ ~cancelled
  /\ "cancel" \in Faults \/ orders[mem.oid].st \notin Live
  /\ EndPass(mem)
  /\ UNCHANGED <<broker, pollVars>>

GraceOver ==
  /\ pc = "waiting" /\ polls >= MaxPolls /\ cancelled
  /\ EndPass(mem)
  /\ UNCHANGED <<broker, pollVars>>

(* PositionManager._execute_exit on a confirmed fill: the row is closed.   *)
LogExit ==
  /\ pc = "booking"
  /\ row' = [row EXCEPT !.open = FALSE]
  /\ pc' = "idle"
  /\ UNCHANGED <<broker, mem, copy, pollVars>>

LogExitRaises ==
  /\ "log" \in Faults
  /\ pc = "booking"
  /\ pc' = "idle"
  /\ UNCHANGED <<broker, row, mem, copy, pollVars>>

-----------------------------------------------------------------------------
(* Reconcile and restart.                                                  *)

(* A readable, non-empty broker book without this position: a phantom, the *)
(* row is closed (close_phantom).                                          *)
Phantom == row.open /\ closed = Total

IntradayPhantom ==
  /\ pc = "idle" /\ Phantom
  /\ row' = [row EXCEPT !.open = FALSE]
  /\ UNCHANGED <<broker, mem, copy, pc, pollVars>>

(* Another row changed: the manager's records are replaced by the rows and *)
(* the exit memory is whatever the row kept (_exit_state_load).            *)
IntradayResync ==
  /\ "resync" \in Faults
  /\ pc = "idle" /\ row.open
  /\ mem' = row.state /\ copy' = row.state
  /\ UNCHANGED <<broker, row, pc, pollVars>>

Crash ==
  /\ pc # "down"
  /\ CASE pc = "posted"  -> "posted" \in Faults
       [] pc = "booking" -> "booking" \in Faults
       [] OTHER          -> "crash" \in Faults
  /\ pc' = "down"
  /\ mem' = Blank /\ copy' = Blank
  /\ UNCHANGED <<broker, row, pollVars>>

(* The boot sweep asks for a cancel of every working order the row does    *)
(* not name (a sweep that fails blocks entries only), reconcile drops a    *)
(* phantom row, and the rows are resumed.                                  *)
Kept == IF row.open THEN {row.state.oid, row.state.last} ELSE {}

Restart ==
  /\ pc = "down"
  /\ \/ orders' = [o \in OrderIds |->
            IF orders[o].st = "working" /\ o \notin Kept
            THEN WithStatus(orders[o], "cancelling") ELSE orders[o]]
     \/ "cancel" \in Faults /\ orders' = orders
  /\ \/ row' = row
     \/ Phantom /\ row' = [row EXCEPT !.open = FALSE]
  /\ mem' = row.state /\ copy' = row.state
  /\ pc' = "idle"
  /\ UNCHANGED <<closed, pollVars>>

-----------------------------------------------------------------------------
Pass ==
  \/ StartPass \/ FetchPrior \/ FetchFails
  \/ \E o \in OrderIds : SubmitAccepted(o) \/ SubmitLost(o)
  \/ SubmitRefused \/ SaveOrder
  \/ Poll \/ PollAgain \/ DeadlineCancel \/ DeadlineCancelFails \/ GraceOver
  \/ LogExit \/ LogExitRaises

Broker == \E o \in OrderIds :
  \/ \E n \in 1 .. Total : BrokerFills(o, n)
  \/ BrokerKills(o) \/ BrokerRejects(o)

Next == Pass \/ Broker \/ IntradayPhantom \/ IntradayResync \/ Crash \/ Restart

Spec == Init /\ [][Next]_vars

(* The loop ticks every few seconds while a position is open, and a pass   *)
(* is straight-line code with a bounded poll loop; the broker owes nothing.*)
FairSpec == Spec /\ WF_vars(Pass)

-----------------------------------------------------------------------------
(* Properties.                                                             *)

FilledBy(os, o) == IF o = NoOrder THEN 0 ELSE os[o].filled

(* "A partial is never booked as whole": whatever fails, a row is closed   *)
(* only when the broker has closed at least the whole position.            *)
BookedMeansClosed == ~row.open => closed >= Total

(* An order that may still fill is named by the record, or by the row when *)
(* the process is down: it is resumed, never forgotten.                    *)
LiveOrderIsTracked ==
  \A o \in OrderIds : orders[o].st \in Live =>
    o = (IF pc = "down" THEN row.state.oid ELSE mem.oid)

(* No second close is working against the same position.                   *)
OneLiveClose ==
  \A o, p \in OrderIds : {orders[o].st, orders[p].st} \subseteq Live => o = p

(* A kill loses no fill: outside the two windows the row alone accounts    *)
(* for every contract the broker has closed.                               *)
RowRemembersEveryFill ==
  row.open /\ pc \notin {"posted", "booking"} =>
    closed = row.state.fills + FilledBy(orders, row.state.oid)

(* A close is only ever submitted for what the position still holds, so a  *)
(* retry or a restart never sends the full size again.                     *)
SubmitsRemainderOnly ==
  [][\A o \in OrderIds :
       orders[o].st = "unused" /\ orders'[o].st # "unused" =>
         orders'[o].qty <= Total - closed]_vars

(* Closing through orders, cancels, restarts and retries implements         *)
(* closing once.                                                           *)
Abstract == INSTANCE CloseOnce WITH booked <- ~row.open
ClosesOnce == Abstract!Spec

(* Every pass returns to the loop, even when the order never resolves; and *)
(* a position the broker has closed is eventually booked closed, by this   *)
(* process or, if it dies first, by one that lives long enough.            *)
ExitReturns ==
  /\ (pc \notin {"idle", "down"}) ~> (pc \in {"idle", "down"})
  /\ (closed = Total) ~> (~row.open \/ pc = "down")

-----------------------------------------------------------------------------
(* What of ExitReturns needs no fairness: how far a pass, and the booking  *)
(* of a closed position, still have to go.                                 *)

(* The turns of the poll loop left before the grace period is over.        *)
TurnsLeft == (MaxPolls - polls) + (IF cancelled THEN 0 ELSE MaxPolls + 1)

(* The most steps of its own a pass has left.                              *)
PassLeft ==
  CASE pc = "fetch"   -> 4 * MaxPolls + 8
    [] pc = "submit"  -> 4 * MaxPolls + 7
    [] pc = "posted"  -> 4 * MaxPolls + 6
    [] pc = "poll"    -> 2 * TurnsLeft + 3
    [] pc = "waiting" -> 2 * TurnsLeft + 2
    [] pc = "booking" -> 1
    [] OTHER          -> 0

(* Every step of a pass brings its end nearer, and nothing the broker, a   *)
(* reconcile or a kill does puts it off: whatever fails, a tick is held up *)
(* by its close for at most 4 * MaxPolls + 8 calls.                        *)
PassRunsDown ==
  [][StartPass \/ PassLeft' < PassLeft \/ (~Pass /\ PassLeft' <= PassLeft)]_vars

(* The calls after which a position the broker has closed is booked.       *)
ToBook ==
  CASE pc = "booking" -> 1 [] pc = "poll" -> 2 [] pc = "fetch" -> 3
    [] pc = "idle" -> 4 [] pc = "waiting" -> 5 [] OTHER -> 6

(* A read that brings nothing: it fails, and the last snapshot stands.     *)
ReadsNothing == Poll /\ seen' # orders[mem.oid].st

(* Once the broker has closed the whole position every step of a pass that *)
(* reads what it asks for brings the row nearer to being booked closed, in *)
(* this tick or the next, and nothing but a kill puts it off.              *)
ClosedIsBookedSoon ==
  [][closed = Total /\ row.open /\ pc # "down" =>
       \/ ~row'.open \/ pc' = "down" \/ ReadsNothing
       \/ ToBook' < ToBook
       \/ ~Pass /\ ToBook' = ToBook]_vars

-----------------------------------------------------------------------------
(* The inductive invariants of the proofs in LiveExitProofs.               *)

(* Under every fault: neither the record, the row nor the row as the bot   *)
(* believes it ever claims a fill the broker did not make.                 *)
Claims(os, m) == m.fills + FilledBy(os, m.oid)

NothingInvented ==
  /\ TypeOK
  /\ \A m \in {mem, row.state, copy} : Claims(orders, m) <= closed
  /\ \A o \in OrderIds : orders[o].st = "unused" => orders[o].filled = 0
  /\ pc \in {"fetch", "posted", "poll", "waiting"} => mem.oid # NoOrder
  /\ pc \in {"fetch", "submit"} => mem.fills < Total
  /\ pc = "booking" \/ ~row.open => closed >= Total

(* Under the benign faults: a memory m accounts for every contract closed, *)
(* and the order it names was sent for exactly the rest.                   *)
Accounts(os, c, m) ==
  /\ Claims(os, m) = c
  /\ m.oid # NoOrder => os[m.oid].qty + m.fills = Total /\ os[m.oid].st # "unused"

OrdersSound ==
  \A o \in OrderIds :
    /\ orders[o].filled <= orders[o].qty
    /\ orders[o].st \in Live => orders[o].filled < orders[o].qty
    /\ orders[o].st \in {"unused", "rejected"} => orders[o].filled = 0

NothingForgotten ==
  /\ TypeOK /\ OrdersSound /\ LiveOrderIsTracked
  /\ closed <= Total
  /\ pc # "down" => copy = row.state
  /\ row.open /\ pc \notin {"posted", "booking"} => Accounts(orders, closed, row.state)
  /\ row.open /\ pc \notin {"booking", "down"} => Accounts(orders, closed, mem)
  /\ row.open /\ pc \in {"idle", "fetch", "poll", "waiting"} =>
       row.state.fills = mem.fills /\ row.state.oid = mem.oid
  /\ pc \in {"fetch", "posted", "poll", "waiting"} => mem.oid # NoOrder
  /\ pc = "submit" => mem.oid = NoOrder /\ mem.fills < Total
  /\ pc \in {"poll", "waiting", "posted"} /\ seen \notin Live => seen = orders[mem.oid].st
  /\ pc = "booking" => mem.oid = NoOrder /\ closed = Total
  /\ ~row.open => /\ closed = Total /\ pc \in {"idle", "down"}
                  /\ \A o \in OrderIds : orders[o].st \notin Live
=============================================================================
