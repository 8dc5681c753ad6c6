--------------------------- MODULE StandingOffer ---------------------------
(***************************************************************************)
(* The ORB standing offer over one session: _place_standing_offer rests a  *)
(* limit at the broker, resting_orders.supervise polls it every tick,      *)
(* adopts its fills into a trade row and fires the cancel triggers, and    *)
(* the position manager closes the row, ends the remainder and releases    *)
(* the ORB engine for the next attempt.                                    *)
(*                                                                         *)
(* Every offer of the session names the same contract, so the broker's     *)
(* position is one number.  The code is broken at its calls to the broker; *)
(* the close of a row is one step per tick here (LiveExit has the rest),   *)
(* and a boot's sweep comes back clean (GuardedEntry has the rest).        *)
(***************************************************************************)
EXTENDS Integers

CONSTANTS
  Size,       (* contracts of an offer (offered_qty)                       *)
  MaxOffers,  (* bound: offers one behaviour may place                     *)
  MaxCrashes, (* bound: times the process dies                             *)
  Faults      (* what the environment may do to the bot                    *)

(* poll       get_order raises                                             *)
(* positions  the broker's positions cannot be read, or omit the contract  *)
(* cancel     delete_order raises although the order still works           *)
(* log        the trade row cannot be written                              *)
(* store      the offer store cannot be read or written by the supervisor  *)
(* gate       the offer store cannot be read by _orb_offer_working         *)
(* record     the placement cannot be recorded                             *)
(* noid       the broker's response carries no order id                    *)
(* crash      the process dies and is started again                        *)
AllFaults == {"poll", "positions", "cancel", "log", "store", "gate", "record",
              "noid", "crash"}

ASSUME SizeAssumption   == Size \in Nat \ {0} /\ MaxOffers \in Nat /\ MaxCrashes \in Nat
ASSUME FaultsAssumption == Faults \subseteq AllFaults

Offers   == 1 .. MaxOffers
NoOffer  == 0
Live     == {"working", "cancelling"}
Statuses == Live \cup {"unused", "filled", "dead"}
Bound    == MaxOffers * Size

VARIABLES
  st,         (* the broker's status of every offer's order                *)
  filled,     (* contracts each order has filled                           *)
  held,       (* contracts of the symbol the broker holds                  *)
  state,      (* the store's state of every offer, "none": no row          *)
  seen,       (* last_seen_qty                                             *)
  booked,     (* the trade row orb-<id>: "none", "open" or "closed"        *)
  row,        (* contracts of the trade row                                *)
  adopted,    (* contracts of the row the boot's reconcile adopted         *)
  sold,       (* contracts of the row closed so far (live_exit_state)      *)
  mem,        (* contracts of the record the manager holds, 0: none        *)
  engine,     (* the ORB engine: "armed", or "open" after a confirmation   *)
  spent,      (* this confirmation has produced an order                   *)
  late,       (* the flatten window is open (is_hard_close_time)           *)
  pc, todo, rest, cur, got,
  missed,     (* history: offers with a fill whose adoption failed         *)
  unrecorded, (* history: offers whose placement was not recorded          *)
  crashes     (* history: times the process has died                       *)

broker  == <<st, filled, held>>
store   == <<state, seen>>
rows    == <<booked, row, adopted, sold>>
orb     == <<engine, spent>>
place   == <<pc, todo, rest, cur, got>>
history == <<missed, unrecorded, crashes>>
vars    == <<broker, store, rows, mem, orb, late, place, history>>

Places == {"idle", "offers", "adopt", "decide", "hydrate", "manage", "rest", "entry", "record"}

TypeOK ==
  /\ st \in [Offers -> Statuses] /\ filled \in [Offers -> 0 .. Size] /\ held \in Nat
  /\ state \in [Offers -> {"none", "WORKING", "FILLED", "CANCELLED"}]
  /\ seen \in [Offers -> 0 .. Size]
  /\ booked \in [Offers -> {"none", "open", "closed"}]
  /\ row \in [Offers -> Nat] /\ sold \in [Offers -> Nat] /\ mem \in [Offers -> Nat]
  /\ adopted \in Nat
  /\ engine \in {"armed", "open"} /\ spent \in BOOLEAN /\ late \in BOOLEAN
  /\ pc \in Places /\ todo \subseteq Offers /\ rest \subseteq Offers
  /\ cur \in Offers \cup {NoOffer} /\ got \in 0 .. Size
  /\ missed \subseteq Offers /\ unrecorded \subseteq Offers /\ crashes \in 0 .. MaxCrashes

Init ==
  /\ st = [o \in Offers |-> "unused"] /\ filled = [o \in Offers |-> 0] /\ held = 0
  /\ state = [o \in Offers |-> "none"] /\ seen = [o \in Offers |-> 0]
  /\ booked = [o \in Offers |-> "none"] /\ row = [o \in Offers |-> 0]
  /\ adopted = 0 /\ sold = [o \in Offers |-> 0] /\ mem = [o \in Offers |-> 0]
  /\ engine = "armed" /\ spent = FALSE /\ late = FALSE
  /\ pc = "idle" /\ todo = {} /\ rest = {} /\ cur = NoOffer /\ got = 0
  /\ missed = {} /\ unrecorded = {} /\ crashes = 0

-----------------------------------------------------------------------------
(* The broker and the clock.                                               *)

BrokerFills(o, n) ==
  /\ st[o] \in Live /\ filled[o] + n <= Size
  /\ filled' = [filled EXCEPT ![o] = @ + n]
  /\ held' = held + n
  /\ st' = IF filled[o] + n = Size THEN [st EXCEPT ![o] = "filled"] ELSE st
  /\ UNCHANGED <<store, rows, mem, orb, late, place, history>>

BrokerEnds(o) ==
  /\ st[o] \in Live
  /\ st' = [st EXCEPT ![o] = "dead"]
  /\ UNCHANGED <<filled, held, store, rows, mem, orb, late, place, history>>

CancelAccepted(o) == st[o] \in Live /\ st' = [st EXCEPT ![o] = "cancelling"]
CancelRaises(o)   == st[o] \notin Live \/ "cancel" \in Faults

FlattenWindow ==
  /\ ~late /\ late' = TRUE
  /\ UNCHANGED <<broker, store, rows, mem, orb, place, history>>

(* A qualifying retest confirms the armed setup; order_placed_seq is behind *)
(* confirmation_seq again.                                                 *)
Confirm ==
  /\ pc = "idle" /\ ~late
  /\ engine = "armed" /\ engine' = "open" /\ spent' = FALSE
  /\ UNCHANGED <<broker, store, rows, mem, late, place, history>>

-----------------------------------------------------------------------------
(* The supervisor.                                                         *)

Working == {o \in Offers : state[o] = "WORKING"}

(* A read of the store that fails reads as no offer ("Fail EMPTY").        *)
ReadStore(read) == read = Working \/ ("store" \in Faults /\ read = {})

(* A write of the store that fails leaves it as it was.                    *)
CloseOut(o, s) ==
  \/ state' = [state EXCEPT ![o] = s]
  \/ "store" \in Faults /\ UNCHANGED state

(* main_loop: in the flatten window the tick goes to handle_hard_close and *)
(* no further; before it, the offers are supervised first.                 *)
Tick ==
  /\ pc = "idle"
  /\ \/ late /\ pc' = "hydrate" /\ UNCHANGED todo
     \/ /\ ~late /\ pc' = "offers"
        /\ \E read \in SUBSET Offers : ReadStore(read) /\ todo' = read
  /\ UNCHANGED <<broker, store, rows, mem, orb, late, rest, cur, got, history>>

PollUnreadable(o) ==
  /\ "poll" \in Faults
  /\ pc = "offers" /\ o \in todo
  /\ todo' = todo \ {o}
  /\ UNCHANGED <<broker, store, rows, mem, orb, late, pc, rest, cur, got, history>>

(* Mutant: only a whole fill is adopted.                                   *)
PollAdoptsWhole(o) ==
  /\ pc = "offers" /\ o \in todo
  /\ todo' = todo \ {o} /\ cur' = o /\ got' = filled[o]
  /\ seen' = [seen EXCEPT ![o] = filled[o]]
  /\ pc' = IF filled[o] # seen[o] /\ filled[o] = Size THEN "adopt" ELSE "decide"
  /\ UNCHANGED <<broker, state, rows, mem, orb, late, rest, history>>

(* _filled_qty, and note_seen_qty before the fill is adopted.              *)
Poll(o) ==
  /\ pc = "offers" /\ o \in todo
  /\ todo' = todo \ {o} /\ cur' = o /\ got' = filled[o]
  /\ \/ seen' = [seen EXCEPT ![o] = filled[o]]
     \/ "store" \in Faults /\ UNCHANGED seen
  /\ pc' = IF filled[o] # seen[o] THEN "adopt" ELSE "decide"
  /\ UNCHANGED <<broker, state, rows, mem, orb, late, rest, history>>

(* Mutant: the fills are added to the row.                                 *)
AdoptAccretes ==
  /\ pc = "adopt" /\ held > 0
  /\ booked' = [booked EXCEPT ![cur] = "open"]
  /\ row' = [row EXCEPT ![cur] = @ + got]
  /\ sold' = IF booked[cur] = "open" THEN sold ELSE [sold EXCEPT ![cur] = 0]
  /\ pc' = "decide"
  /\ UNCHANGED <<broker, store, adopted, mem, orb, late, todo, rest, cur, got, history>>

(* adopt_fill: the broker's quantity of the contract becomes the row.  An  *)
(* open row is resized in place; otherwise the insert replaces whatever    *)
(* row carries the id, a closed one too.                                   *)
Adopt ==
  /\ pc = "adopt" /\ held > 0
  /\ booked' = [booked EXCEPT ![cur] = "open"]
  /\ row' = [row EXCEPT ![cur] = held]
  /\ sold' = IF booked[cur] = "open" THEN sold ELSE [sold EXCEPT ![cur] = 0]
  /\ pc' = "decide"
  /\ UNCHANGED <<broker, store, adopted, mem, orb, late, todo, rest, cur, got, history>>

AdoptFails ==
  /\ pc = "adopt"
  /\ held = 0 \/ "positions" \in Faults \/ "log" \in Faults
  /\ missed' = missed \cup {cur}
  /\ pc' = "decide"
  /\ UNCHANGED <<broker, store, rows, mem, orb, late, todo, rest, cur, got, unrecorded, crashes>>

NextOffer == pc' = "offers" /\ cur' = NoOffer /\ got' = 0

FullyFilled ==
  /\ pc = "decide" /\ got >= Size
  /\ CloseOut(cur, "FILLED")
  /\ NextOffer
  /\ UNCHANGED <<broker, seen, rows, mem, orb, late, todo, rest, history>>

(* No trigger: price is short of the 50% target, the structure holds.      *)
Stands ==
  /\ pc = "decide" /\ got < Size /\ ~late
  /\ NextOffer
  /\ UNCHANGED <<broker, store, rows, mem, orb, late, todo, rest, history>>

(* notify_position_closed: armed again (or done for the day, when nothing  *)
(* confirms it any more).                                                  *)
ReleaseEngine == engine' = "armed" /\ UNCHANGED spent

(* Mutant: the offer ends and the engine is not told.                      *)
TriggerKeepsEngine ==
  /\ pc = "decide" /\ got < Size
  /\ CancelAccepted(cur)
  /\ CloseOut(cur, "CANCELLED")
  /\ NextOffer
  /\ UNCHANGED <<filled, held, seen, rows, mem, orb, late, todo, rest, history>>

(* A trigger, and eod once the window has opened under the tick.           *)
TriggerCancels ==
  /\ pc = "decide" /\ got < Size
  /\ CancelAccepted(cur)
  /\ CloseOut(cur, "CANCELLED")
  /\ ReleaseEngine
  /\ NextOffer
  /\ UNCHANGED <<filled, held, seen, rows, mem, late, todo, rest, history>>

(* Mutant: the offer is closed out although its cancel failed.             *)
CancelFailedClosesOut ==
  /\ pc = "decide" /\ got < Size
  /\ CancelRaises(cur)
  /\ state' = [state EXCEPT ![cur] = "CANCELLED"]
  /\ NextOffer
  /\ UNCHANGED <<broker, seen, rows, mem, orb, late, todo, rest, history>>

TriggerCancelFails ==
  /\ pc = "decide" /\ got < Size
  /\ CancelRaises(cur)
  /\ NextOffer
  /\ UNCHANGED <<broker, store, rows, mem, orb, late, todo, rest, history>>

Supervised ==
  /\ pc = "offers" /\ todo = {}
  /\ pc' = "hydrate"
  /\ UNCHANGED <<broker, store, rows, mem, orb, late, todo, rest, cur, got, history>>

-----------------------------------------------------------------------------
(* The manager.                                                            *)

Open == {o \in Offers : booked[o] = "open"}

(* has_open_position: the rows are read only when no record is held.       *)
Hydrate ==
  /\ pc = "hydrate"
  /\ mem' = IF adopted = 0 /\ \A o \in Offers : mem[o] = 0
            THEN [o \in Offers |-> IF o \in Open THEN row[o] ELSE 0]
            ELSE mem
  /\ todo' = {o \in Offers : mem'[o] > 0}
  /\ pc' = "manage"
  /\ UNCHANGED <<broker, store, rows, orb, late, rest, cur, got, history>>

(* The row is closed and its record dropped; the working offers are read   *)
(* for cancel_all_working.                                                 *)
CloseRow(o) ==
  /\ booked' = [booked EXCEPT ![o] = "closed"]
  /\ mem' = [mem EXCEPT ![o] = 0]
  /\ \E read \in SUBSET Offers : ReadStore(read) /\ rest' = read
  /\ pc' = "rest"

(* Mutant: a close that goes on does not know what it has sold.            *)
ExitForgetsFills(o, n) ==
  /\ pc = "manage" /\ o \in todo
  /\ n <= mem[o] /\ n <= held
  /\ held' = held - n
  /\ sold' = [sold EXCEPT ![o] = n]
  /\ todo' = todo \ {o}
  /\ IF n >= mem[o] THEN CloseRow(o) ELSE UNCHANGED <<booked, mem, rest, pc>>
  /\ UNCHANGED <<st, filled, store, row, adopted, orb, late, cur, got, history>>

(* _manage_one and _execute_exit: n more contracts of the record are sold, *)
(* none while it is held; the record's own count decides when it is over.  *)
Exit(o, n) ==
  /\ pc = "manage" /\ o \in todo
  /\ n = 0 \/ sold[o] + n <= mem[o]
  /\ n <= held
  /\ held' = held - n
  /\ sold' = [sold EXCEPT ![o] = @ + n]
  /\ todo' = todo \ {o}
  /\ IF sold[o] + n >= mem[o] THEN CloseRow(o) ELSE UNCHANGED <<booked, mem, rest, pc>>
  /\ UNCHANGED <<st, filled, store, row, adopted, orb, late, cur, got, history>>

(* A row the boot adopted is managed like any other.                       *)
ExitAdopted ==
  /\ pc = "manage" /\ adopted > 0 /\ held >= adopted
  /\ held' = held - adopted /\ adopted' = 0
  /\ UNCHANGED <<st, filled, store, booked, row, sold, mem, orb, late, place, history>>

RestCancels(o) ==
  /\ pc = "rest" /\ o \in rest
  /\ CancelAccepted(o)
  /\ CloseOut(o, "CANCELLED")
  /\ rest' = rest \ {o}
  /\ UNCHANGED <<filled, held, seen, rows, mem, orb, late, pc, todo, cur, got, history>>

RestCancelFails(o) ==
  /\ pc = "rest" /\ o \in rest
  /\ CancelRaises(o)
  /\ rest' = rest \ {o}
  /\ UNCHANGED <<broker, store, rows, mem, orb, late, pc, todo, cur, got, history>>

Resolved ==
  /\ pc = "rest" /\ rest = {}
  /\ ReleaseEngine
  /\ pc' = "manage"
  /\ UNCHANGED <<broker, store, rows, mem, late, todo, rest, cur, got, history>>

Managed ==
  /\ pc = "manage" /\ todo = {}
  /\ pc' = IF late THEN "idle" ELSE "entry"
  /\ UNCHANGED <<broker, store, rows, mem, orb, late, todo, rest, cur, got, history>>

-----------------------------------------------------------------------------
(* The entry, and the boot.                                                *)

NoEntry ==
  /\ pc = "entry" /\ pc' = "idle"
  /\ UNCHANGED <<broker, store, rows, mem, orb, late, todo, rest, cur, got, history>>

(* max_open_of_type counts the records held, or the rows when none is.     *)
NoneOpen ==
  IF adopted = 0 /\ \A o \in Offers : mem[o] = 0 THEN Open = {}
  ELSE \A o \in Offers : mem[o] = 0

Post(o) ==
  /\ st[o] = "unused" /\ \A p \in Offers : p < o => st[p] # "unused"
  /\ st' = [st EXCEPT ![o] = "working"]
  /\ cur' = o /\ pc' = "record"
  /\ UNCHANGED <<filled, held, store, rows, mem, orb, late, todo, rest, got, history>>

(* Mutant: the plan does not ask whether an offer is working.              *)
PlaceUnasked(o) ==
  /\ pc = "entry" /\ engine = "open" /\ ~spent /\ NoneOpen
  /\ Post(o)

(* The plan's gates (order_already_placed, offer_working), admission, and  *)
(* the post.                                                               *)
Place(o) ==
  /\ pc = "entry" /\ engine = "open" /\ ~spent /\ NoneOpen
  /\ Working = {} \/ "gate" \in Faults
  /\ Post(o)

RecordPlacement ==
  /\ pc = "record"
  /\ state' = [state EXCEPT ![cur] = "WORKING"]
  /\ spent' = TRUE
  /\ pc' = "idle" /\ cur' = NoOffer
  /\ UNCHANGED <<broker, seen, rows, mem, engine, late, todo, rest, got, history>>

(* The order is live and nothing supervises it.  Without an id the         *)
(* confirmation is not spent either.                                       *)
PlacementLost ==
  /\ pc = "record"
  /\ \/ "record" \in Faults /\ spent' = TRUE
     \/ "noid" \in Faults /\ spent' = spent
  /\ unrecorded' = unrecorded \cup {cur}
  /\ pc' = "idle" /\ cur' = NoOffer
  /\ UNCHANGED <<broker, store, rows, mem, engine, late, todo, rest, got, missed, crashes>>

(* The process dies and is started again: orders the store does not list   *)
(* are cancelled, a position no open row explains is adopted, and the      *)
(* manager gets the rows.  The ORB engine resumes from orb_state.json.     *)
Crash ==
  /\ "crash" \in Faults /\ crashes < MaxCrashes
  /\ crashes' = crashes + 1
  /\ st' = [o \in Offers |-> IF st[o] = "working" /\ state[o] # "WORKING"
                             THEN "cancelling" ELSE st[o]]
  /\ adopted' = IF Open = {} /\ adopted = 0 THEN held ELSE adopted
  /\ mem' = [o \in Offers |-> IF o \in Open THEN row[o] ELSE 0]
  /\ pc' = "idle" /\ todo' = {} /\ rest' = {} /\ cur' = NoOffer /\ got' = 0
  /\ UNCHANGED <<filled, held, store, booked, row, sold, orb, late, missed, unrecorded>>

-----------------------------------------------------------------------------
Supervise ==
  \/ \E o \in Offers : PollUnreadable(o) \/ Poll(o)
  \/ Adopt \/ AdoptFails
  \/ FullyFilled \/ Stands \/ TriggerCancels \/ TriggerCancelFails
  \/ Supervised

Manage ==
  \/ Hydrate
  \/ \E o \in Offers : \E n \in 0 .. Bound : Exit(o, n)
  \/ ExitAdopted
  \/ \E o \in Offers : RestCancels(o) \/ RestCancelFails(o)
  \/ Resolved \/ Managed

Enter ==
  \/ NoEntry
  \/ \E o \in Offers : Place(o)
  \/ RecordPlacement \/ PlacementLost

Broker == \E o \in Offers :
  \/ \E n \in 1 .. Size : BrokerFills(o, n)
  \/ BrokerEnds(o)

Next == Tick \/ Supervise \/ Manage \/ Enter \/ Confirm \/ FlattenWindow \/ Crash \/ Broker

Spec == Init /\ [][Next]_vars

(* The loop ticks as long as the process lives.                            *)
FairSpec == Spec /\ WF_vars(Tick \/ Supervise \/ Manage \/ Enter) /\ WF_vars(FlattenWindow)

-----------------------------------------------------------------------------
(* Properties.                                                             *)

(* "An order that exists at the broker and not in our state is the orphan  *)
(* this whole module exists to prevent": a working order that could be     *)
(* recorded is WORKING in the store, through failed cancels and restarts.  *)
WorkingIsSupervised ==
  \A o \in Offers \ unrecorded :
    st[o] = "working" => state[o] = "WORKING" \/ (pc = "record" /\ cur = o)

(* "ONE STANDING OFFER PER SETUP": two recorded orders never work at once, *)
(* although the engine is released while a failed cancel leaves one.       *)
OneOffer ==
  \A o, p \in Offers \ unrecorded : st[o] = "working" /\ st[p] = "working" => o = p

(* A fill the supervisor has noted has a row before the next tick, unless  *)
(* its adoption failed (it is not tried again) or the process died.        *)
SeenIsBooked ==
  pc = "idle" /\ crashes = 0 =>
    \A o \in Offers \ missed : seen[o] > 0 => booked[o] # "none"

(* "Double-booking a position that exists once at the broker is worse than *)
(* not booking it at all": one open row, for no more than the broker holds.*)
RowWithinBroker ==
  crashes = 0 =>
    /\ \A o \in Open : row[o] - sold[o] <= held
    /\ \A o, p \in Open : o = p

(* What the manager still means to sell, the broker holds, although the    *)
(* row is resized under a close.                                           *)
NeverOversold ==
  crashes = 0 => \A o \in Offers : mem[o] > 0 => mem[o] - sold[o] <= held

(* "THE ENGINE IS WAITING ON THIS": after its order the engine waits only  *)
(* while an offer works or a row is open; else ORB is shut for the day.    *)
EngineWaits ==
  pc = "idle" /\ crashes = 0 /\ missed = {} /\ unrecorded = {} =>
    (engine = "open" /\ spent => Working # {} \/ Open # {})

(* "The second call must UPDATE the existing row's size": a row that grew  *)
(* is closed when all of its contracts are.                                *)
ClosedRowIsSold ==
  \A o \in Offers : booked[o] = "closed" => sold[o] >= row[o]

(* "EOD FLATTEN - backstop; nothing may be working overnight": once the    *)
(* flatten window is open, no offer is left to work.                       *)
EodEndsOffers == late ~> \A o \in Offers : st[o] # "working"
=============================================================================
