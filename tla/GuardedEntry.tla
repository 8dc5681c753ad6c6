---------------------------- MODULE GuardedEntry ----------------------------
(***************************************************************************)
(* The live entry of one intent (a single leg, or a butterfly with its     *)
(* second attempt): order_guard.clear_to_post and the working-order sweep, *)
(* the post, order_confirm.confirm_order_fill, order_guard.after_failure,  *)
(* the row that records the fill, and the boot of a process that died at   *)
(* any point: sweep, then reconcile with the broker.                       *)
(*                                                                         *)
(* Prices are left out; a contract is a unit and an order is for Size.     *)
(* The code is broken at its calls to the broker, so that fills and        *)
(* cancels fall between any two of them.  A position stays open: exits are *)
(* the subject of LiveExit.                                                *)
(***************************************************************************)
EXTENDS Integers, FiniteSets

CONSTANTS
  Size,       (* contracts of the entry (sizing.contracts)                 *)
  Attempts,   (* posts per call: 1 a single leg, 2 a butterfly             *)
  MaxOrders,  (* bound: orders one behaviour may post                      *)
  MaxPolls,   (* polls before the deadline, and before each grace period   *)
  MaxCrashes, (* bound: times the process dies                             *)
  Faults      (* what the environment may do to the bot                    *)

(* poll       get_order raises                                             *)
(* cancel     delete_order raises although the order still works           *)
(* refuse     errors in the response, or nothing affordable to post        *)
(* lost       place_order raises after the broker accepted the order       *)
(* noid       the response carries no order id                             *)
(* raise      an exception in the confirmation of a posted order           *)
(* fills      an order reads FILLED or dead but its fills are unreadable   *)
(* unresolved three cancels do not settle the order                        *)
(* list       get_live_orders, or the kept ids, cannot be read             *)
(* slow       a cancelled order is not read dead within CANCEL_CONFIRM_S   *)
(* read       the boot's read of the broker's positions fails              *)
(* log        log_entry raises                                             *)
(* crash      the process dies and is started again, outside the window    *)
(* dying      ... while a cancel of one of the orders pends                *)
AllFaults == {"poll", "cancel", "refuse", "lost", "noid", "raise", "fills",
              "unresolved", "list", "slow", "read", "log", "crash", "dying"}

ASSUME SizeAssumption   == Size \in Nat \ {0} /\ Attempts \in Nat \ {0}
ASSUME BoundsAssumption == MaxOrders \in Nat /\ MaxPolls \in Nat /\ MaxCrashes \in Nat
ASSUME FaultsAssumption == Faults \subseteq AllFaults

OrderIds   == 1 .. MaxOrders
NoOrder    == 0
MaxCancels == 3     (* cancel_attempts of confirm_order_fill               *)

Live     == {"working", "cancelling"}
DeadRead == {"dead", "rejected"}         (* order_guard's _DEAD             *)
Statuses == Live \cup DeadRead \cup {"unused", "filled"}

VARIABLES
  st,        (* the broker's status of every order                         *)
  filled,    (* the contracts each order has filled                        *)
  held,      (* the contracts the broker holds for this intent             *)
  own,       (* contracts of the row the entry recorded, 0: no row         *)
  adopted,   (* contracts of the row reconcile adopted, 0: no row          *)
  suspect,   (* _SUSPECT: the order an error followed                      *)
  boot,      (* _BOOT["state"]                                             *)
  pc,        (* where the bot is; "idle" between ticks                     *)
  cur,       (* the order of this call (placed, _fly_placed)               *)
  attempt,   (* the attempt of this call, from 1                           *)
  seen,      (* status in the last snapshot of cur                         *)
  cancels,   (* cancel_attempts                                            *)
  polls,     (* polls since the deadline was last set                      *)
  fill,      (* the confirmed quantity on its way to the row               *)
  todo,      (* the sweep: listed orders not cancelled yet                 *)
  asked,     (* the sweep: orders whose cancel was accepted                *)
  bad,       (* the sweep: a cancel failed or an order was pending         *)
  stale,     (* history: the orders posted by earlier processes            *)
  crashes    (* history: times the process has died                        *)

broker  == <<st, filled, held>>
rows    == <<own, adopted>>
call    == <<cur, attempt, seen, cancels, polls, fill>>
sweep   == <<todo, asked, bad>>
history == <<stale, crashes>>
vars    == <<broker, rows, suspect, boot, pc, call, sweep, history>>

Places == {"idle", "suspect", "submit", "poll", "waiting", "failed", "booking",
           "sweep", "cancel", "confirm", "reconcile"}

TypeOK ==
  /\ st \in [OrderIds -> Statuses] /\ filled \in [OrderIds -> 0 .. Size]
  /\ held \in Nat /\ own \in 0 .. Size /\ adopted \in Nat
  /\ suspect \in OrderIds \cup {NoOrder}
  /\ boot \in {"unswept", "clean", "blocked"}
  /\ pc \in Places
  /\ cur \in OrderIds \cup {NoOrder} /\ attempt \in 1 .. Attempts
  /\ seen \in Statuses /\ cancels \in 0 .. MaxCancels /\ polls \in 0 .. MaxPolls
  /\ fill \in 0 .. Size
  /\ todo \subseteq OrderIds /\ asked \subseteq OrderIds /\ bad \in BOOLEAN
  /\ stale \subseteq OrderIds /\ crashes \in 0 .. MaxCrashes

(* A process starts with the boot sweep (_recover_open_position).          *)
Init ==
  /\ st = [o \in OrderIds |-> "unused"] /\ filled = [o \in OrderIds |-> 0]
  /\ held = 0 /\ own = 0 /\ adopted = 0
  /\ suspect = NoOrder /\ boot = "unswept" /\ pc = "sweep"
  /\ cur = NoOrder /\ attempt = 1 /\ seen = "unused"
  /\ cancels = 0 /\ polls = 0 /\ fill = 0
  /\ todo = {} /\ asked = {} /\ bad = FALSE
  /\ stale = {} /\ crashes = 0

-----------------------------------------------------------------------------
(* The broker, on its own clock.                                           *)

BrokerFills(o, n) ==
  /\ st[o] \in Live /\ n > 0 /\ filled[o] + n <= Size
  /\ filled' = [filled EXCEPT ![o] = @ + n]
  /\ held' = held + n
  /\ st' = IF filled[o] + n = Size THEN [st EXCEPT ![o] = "filled"] ELSE st
  /\ UNCHANGED <<rows, suspect, boot, pc, call, sweep, history>>

BrokerEnds(o, how) ==
  /\ st[o] \in Live
  /\ how = "rejected" => st[o] = "working" /\ filled[o] = 0
  /\ st' = [st EXCEPT ![o] = how]
  /\ UNCHANGED <<filled, held, rows, suspect, boot, pc, call, sweep, history>>

(* delete_order: accepted while the order works; raises when the order is  *)
(* over, or for a reason of the broker's own.                              *)
CancelAccepted(o) == st[o] \in Live /\ st' = [st EXCEPT ![o] = "cancelling"]
CancelRaises(o)   == st[o] \notin Live \/ "cancel" \in Faults

-----------------------------------------------------------------------------
(* sweep_working: at boot, and from clear_to_post until it comes back clean.*)

(* A clean sweep lets the intent go on; at boot the reconcile follows      *)
(* whatever the sweep said.                                                *)
BootResult(ok) ==
  /\ boot' = IF ok THEN "clean" ELSE "blocked"
  /\ pc' = IF boot = "unswept" THEN "reconcile" ELSE IF ok THEN "suspect" ELSE "idle"
  /\ todo' = {} /\ asked' = {} /\ bad' = FALSE
  /\ UNCHANGED <<broker, rows, suspect, call, history>>

(* Mutant: an order already on its way out is no blocker.                  *)
SweepIgnoresPending ==
  /\ pc = "sweep"
  /\ todo' = {o \in OrderIds : st[o] = "working"}
  /\ pc' = "cancel"
  /\ UNCHANGED <<broker, rows, suspect, boot, call, asked, bad, history>>

(* None of this intent's orders is a tracked one (_kept_order_ids); one    *)
(* already being cancelled is not cancelled again but is no clean book.    *)
SweepLists ==
  /\ pc = "sweep"
  /\ todo' = {o \in OrderIds : st[o] = "working"}
  /\ bad' = (\E o \in OrderIds : st[o] = "cancelling")
  /\ pc' = "cancel"
  /\ UNCHANGED <<broker, rows, suspect, boot, call, asked, history>>

SweepUnread ==
  /\ "list" \in Faults
  /\ pc = "sweep" /\ BootResult(FALSE)

SweepCancels(o) ==
  /\ pc = "cancel" /\ o \in todo
  /\ todo' = todo \ {o}
  /\ \/ CancelAccepted(o) /\ asked' = asked \cup {o} /\ bad' = bad
     \/ CancelRaises(o) /\ bad' = TRUE /\ UNCHANGED <<st, asked>>
  /\ UNCHANGED <<filled, held, rows, suspect, boot, pc, call, history>>

(* A failed cancel returns at once; a pending order blocks after the same  *)
(* reads, which change nothing.                                            *)
SweepCancelled ==
  /\ pc = "cancel" /\ todo = {}
  /\ IF bad THEN BootResult(FALSE)
     ELSE /\ pc' = "confirm"
          /\ UNCHANGED <<broker, rows, suspect, boot, call, sweep, history>>

(* _confirm_dead: every cancelled order reads dead, or filled, which only  *)
(* pages: "Broker reconcile adopts it".                                    *)
SweepConfirms ==
  /\ pc = "confirm"
  /\ \A o \in asked : st[o] \notin Live
  /\ BootResult(TRUE)

SweepTimesOut ==
  /\ "slow" \in Faults
  /\ pc = "confirm"
  /\ \E o \in asked : st[o] \in Live \/ "poll" \in Faults
  /\ BootResult(FALSE)

(* Mutant: the broker's position is adopted although a row explains it.    *)
ReconcileAdoptsAgain ==
  /\ pc = "reconcile"
  /\ adopted' = held
  /\ pc' = "idle"
  /\ UNCHANGED <<broker, own, suspect, boot, call, sweep, history>>

(* build_plan adopts a position no row explains; a row with its symbols    *)
(* is kept as it is, and a wrong quantity reported.                        *)
Reconcile ==
  /\ pc = "reconcile"
  /\ \/ adopted' = IF own = 0 /\ adopted = 0 THEN held ELSE adopted
     \/ "read" \in Faults /\ adopted' = adopted
  /\ pc' = "idle"
  /\ UNCHANGED <<broker, own, suspect, boot, call, sweep, history>>

-----------------------------------------------------------------------------
(* The post and its confirmation.                                          *)

(* The strategy signals and admission lets it in: max_open_of_type is 1    *)
(* and counts the rows of its own name, not an ADOPTED one.                *)
Signal ==
  /\ pc = "idle" /\ own = 0
  /\ pc' = IF boot = "clean" THEN "suspect" ELSE "sweep"
  /\ cur' = NoOrder /\ attempt' = 1
  /\ seen' = "unused" /\ cancels' = 0 /\ polls' = 0 /\ fill' = 0
  /\ UNCHANGED <<broker, rows, suspect, boot, sweep, history>>

(* clear_to_post: no suspect, or one that reads dead and is forgotten.     *)
SuspectClear ==
  /\ pc = "suspect"
  /\ suspect # NoOrder => st[suspect] \in DeadRead
  /\ suspect' = NoOrder
  /\ pc' = "submit"
  /\ UNCHANGED <<broker, rows, boot, call, sweep, history>>

(* Still working, filled, or unreadable: nothing is posted.                *)
SuspectHolds ==
  /\ pc = "suspect" /\ suspect # NoOrder
  /\ st[suspect] \notin DeadRead \/ "poll" \in Faults
  /\ pc' = "idle"
  /\ UNCHANGED <<broker, rows, suspect, boot, call, sweep, history>>

(* A butterfly's second attempt follows a first that is over with nothing  *)
(* filled; an exception remembers the call's order, if it has one.         *)
Onward   == IF attempt < Attempts THEN "submit" ELSE "idle"
Excepted == IF cur # NoOrder THEN "failed" ELSE "idle"

TryAgain ==
  /\ pc' = Onward
  /\ attempt' = IF attempt < Attempts THEN attempt + 1 ELSE attempt

Place(o) ==
  /\ st[o] = "unused"
  /\ \A p \in OrderIds : p < o => st[p] # "unused"
  /\ st' = [st EXCEPT ![o] = "working"]
  /\ UNCHANGED <<filled, held>>

Post(o) ==
  /\ pc = "submit" /\ Place(o)
  /\ cur' = o /\ seen' = "working" /\ cancels' = 0 /\ polls' = 0
  /\ pc' = "poll"
  /\ UNCHANGED <<rows, suspect, boot, attempt, fill, sweep, history>>

PostLost(o) ==
  /\ "lost" \in Faults
  /\ pc = "submit" /\ Place(o)
  /\ pc' = Excepted
  /\ UNCHANGED <<rows, suspect, boot, call, sweep, history>>

(* confirm_order_fill reports an order without an id as not filled.        *)
PostNoId(o) ==
  /\ "noid" \in Faults
  /\ pc = "submit" /\ Place(o)
  /\ cur' = NoOrder
  /\ TryAgain
  /\ UNCHANGED <<rows, suspect, boot, seen, cancels, polls, fill, sweep, history>>

PostRefused ==
  /\ "refuse" \in Faults
  /\ pc = "submit"
  /\ \/ TryAgain
     \/ pc' \in {"idle", Excepted} /\ UNCHANGED attempt
  /\ UNCHANGED <<broker, rows, suspect, boot, cur, seen, cancels, polls, fill, sweep, history>>

(* Mutant: a partial fill under a dead order counts as nothing.            *)
WholeFillOnly(o) ==
  IF filled[o] = Size THEN {Size} ELSE {0}

(* What the fills of an order that is over read as.                        *)
ReadFills(o) == {filled[o]} \cup (IF "fills" \in Faults THEN {0} ELSE {})

(* One turn of the loop; a failed read keeps the previous snapshot.  Any   *)
(* fill is booked; FILLED without readable fills ends the call; an order   *)
(* that is over without fills lets a butterfly try again.                  *)
Poll ==
  /\ pc = "poll"
  /\ \E s \in {st[cur]} \cup (IF "poll" \in Faults THEN {seen} ELSE {}) :
       /\ seen' = s
       /\ \/ /\ s \in Live /\ pc' = "waiting"
             /\ UNCHANGED <<attempt, fill>>
          \/ /\ s \in {"filled", "dead"}
             /\ \E n \in ReadFills(cur) :
                  /\ fill' = n
                  /\ IF n > 0 THEN pc' = "booking" /\ UNCHANGED attempt
                     ELSE IF s = "filled" THEN pc' = "idle" /\ UNCHANGED attempt
                     ELSE TryAgain
          \/ /\ s = "rejected" /\ TryAgain
             /\ UNCHANGED fill
  /\ UNCHANGED <<broker, rows, suspect, boot, cur, cancels, polls, sweep, history>>

PollAgain ==
  /\ pc = "waiting" /\ polls < MaxPolls
  /\ polls' = polls + 1 /\ pc' = "poll"
  /\ UNCHANGED <<broker, rows, suspect, boot, cur, attempt, seen, cancels, fill, sweep, history>>

AtDeadline == pc = "waiting" /\ polls >= MaxPolls

(* Mutant: one cancel too many.                                            *)
DeadlineOnceMore ==
  /\ AtDeadline /\ cancels <= MaxCancels
  /\ CancelAccepted(cur)
  /\ cancels' = cancels + 1 /\ polls' = 0 /\ pc' = "poll"
  /\ UNCHANGED <<filled, held, rows, suspect, boot, cur, attempt, seen, fill, sweep, history>>

(* The deadline: a cancel is asked for and a grace period given, three     *)
(* times at most.                                                          *)
DeadlineCancels ==
  /\ AtDeadline /\ cancels < MaxCancels
  /\ CancelAccepted(cur)
  /\ cancels' = cancels + 1 /\ polls' = 0 /\ pc' = "poll"
  /\ UNCHANGED <<filled, held, rows, suspect, boot, cur, attempt, seen, fill, sweep, history>>

(* Mutant: a cancel that raised is not counted.                            *)
DeadlineNotCounted ==
  /\ AtDeadline /\ cancels < MaxCancels - 1
  /\ CancelRaises(cur)
  /\ polls' = 0 /\ pc' = "poll"
  /\ UNCHANGED <<broker, rows, suspect, boot, cur, attempt, seen, cancels, fill, sweep, history>>

DeadlineCancelRaises ==
  /\ AtDeadline /\ cancels < MaxCancels - 1
  /\ CancelRaises(cur)
  /\ cancels' = cancels + 1 /\ polls' = 0 /\ pc' = "poll"
  /\ UNCHANGED <<broker, rows, suspect, boot, cur, attempt, seen, fill, sweep, history>>

(* The third cancel raised, or its grace is over: reported as not filled,  *)
(* with the id in a page; the order is no suspect and may still fill.      *)
Unresolved ==
  /\ "unresolved" \in Faults
  /\ AtDeadline
  /\ cancels = MaxCancels \/ (cancels = MaxCancels - 1 /\ CancelRaises(cur))
  /\ pc' = "idle"
  /\ UNCHANGED <<broker, rows, suspect, boot, call, sweep, history>>

ConfirmRaises ==
  /\ "raise" \in Faults
  /\ pc \in {"poll", "waiting"}
  /\ pc' = "failed"
  /\ UNCHANGED <<broker, rows, suspect, boot, call, sweep, history>>

(* Mutant: the error is handled but the order is not remembered.           *)
ErrorForgets ==
  /\ pc = "failed"
  /\ \/ CancelAccepted(cur)
     \/ CancelRaises(cur) /\ UNCHANGED st
  /\ pc' = "idle"
  /\ UNCHANGED <<filled, held, rows, suspect, boot, call, sweep, history>>

AfterFailure ==
  /\ pc = "failed"
  /\ \/ CancelAccepted(cur)
     \/ CancelRaises(cur) /\ UNCHANGED st
  /\ suspect' = cur
  /\ pc' = "idle"
  /\ UNCHANGED <<filled, held, rows, boot, call, sweep, history>>

(* EntryEngine.enter: the confirmed quantity becomes the row.              *)
LogEntry ==
  /\ pc = "booking"
  /\ own' = fill
  /\ pc' = "idle"
  /\ UNCHANGED <<broker, adopted, suspect, boot, call, sweep, history>>

LogEntryRaises ==
  /\ "log" \in Faults
  /\ pc = "booking"
  /\ pc' = "idle"
  /\ UNCHANGED <<broker, rows, suspect, boot, call, sweep, history>>

(* The process dies and is started again: the rows survive, the suspects   *)
(* and the sweep's verdict do not.                                         *)
Crash ==
  /\ crashes < MaxCrashes
  /\ IF \E o \in OrderIds : st[o] = "cancelling" THEN "dying" \in Faults ELSE "crash" \in Faults
  /\ crashes' = crashes + 1
  /\ stale' = {o \in OrderIds : st[o] # "unused"}
  /\ suspect' = NoOrder /\ boot' = "unswept" /\ pc' = "sweep"
  /\ todo' = {} /\ asked' = {} /\ bad' = FALSE
  /\ cur' = NoOrder /\ attempt' = 1 /\ seen' = "unused"
  /\ cancels' = 0 /\ polls' = 0 /\ fill' = 0
  /\ UNCHANGED <<broker, rows>>

-----------------------------------------------------------------------------
Sweep ==
  \/ SweepLists \/ SweepUnread
  \/ \E o \in OrderIds : SweepCancels(o)
  \/ SweepCancelled \/ SweepConfirms \/ SweepTimesOut \/ Reconcile

Enter ==
  \/ SuspectClear \/ SuspectHolds
  \/ \E o \in OrderIds : Post(o) \/ PostLost(o) \/ PostNoId(o)
  \/ PostRefused
  \/ Poll \/ PollAgain \/ DeadlineCancels \/ DeadlineCancelRaises \/ Unresolved
  \/ ConfirmRaises \/ AfterFailure \/ LogEntry \/ LogEntryRaises

Broker == \E o \in OrderIds :
  \/ \E n \in 1 .. Size : BrokerFills(o, n)
  \/ BrokerEnds(o, "dead") \/ BrokerEnds(o, "rejected")

Next == Signal \/ Sweep \/ Enter \/ Crash \/ Broker

Spec == Init /\ [][Next]_vars

-----------------------------------------------------------------------------
(* Properties.                                                             *)

(* "Never reports more than the broker confirms": whatever fails, the rows *)
(* never claim a contract the broker does not hold.                        *)
NeverRecordsMore == own + adopted <= held

(* "NO LIVE ENTRY POSTS IN A PROCESS UNTIL ONE SWEEP HAS [come back        *)
(* clean]": when an order is posted, none of an earlier process can fill.  *)
PostsOnCleanBook ==
  [][\A o \in OrderIds : st[o] = "unused" /\ st'[o] # "unused" =>
       \A p \in stale : st[p] \notin Live]_vars

(* "The next tick posted the SAME intent again while the first order might *)
(* still fill": two orders of the intent never work at once.               *)
OneLiveEntry ==
  \A o, p \in OrderIds : {st[o], st[p]} \subseteq Live => o = p

(* "The one thing we never do is walk away from contracts that DID fill":  *)
(* between ticks, with no suspect, nothing works and every contract held   *)
(* is in a row.                                                            *)
SettledWhenIdle ==
  pc = "idle" /\ boot = "clean" /\ suspect = NoOrder =>
    /\ \A o \in OrderIds : st[o] \notin Live
    /\ own + adopted = held

(* "Reconciliation adopts whatever fills": when the boot has read the      *)
(* broker's positions, the rows account for all of them.                   *)
ReconcileAdopts ==
  [][Reconcile => own + adopted' = held]_vars

(* A call always returns to the loop, however its orders end (unless the   *)
(* model has no order left for it to post).                                *)
OutOfOrders  == pc = "submit" /\ \A o \in OrderIds : st[o] # "unused"
EntryReturns == pc # "idle" ~> (pc = "idle" \/ OutOfOrders)

(* A blocked boot does not block for good: while the strategy still wants  *)
(* in, a later sweep comes back clean.                                     *)
BlockedResumes == (boot = "blocked") ~> (boot = "clean" \/ own > 0)
-----------------------------------------------------------------------------
(* What of EntryReturns needs no fairness: how far a call, or a boot,      *)
(* still has to go.                                                        *)

(* The turns of the poll loop left: up to this deadline, and a grace       *)
(* period for each cancel not asked for yet.                               *)
Grace(n) == IF cancels < n THEN MaxPolls + 1 ELSE 0
TurnsLeft == (MaxPolls - polls) + Grace(1) + Grace(2) + Grace(3)

(* The most steps one attempt takes, and those after this one.             *)
PerAttempt == 8 * MaxPolls + 10
StillToTry == (Attempts - attempt) * PerAttempt

(* The most steps of its own a call, or a boot, has left.                  *)
CallLeft ==
  CASE pc \in {"failed", "booking", "reconcile"} -> 1
    [] pc = "waiting" -> StillToTry + 2 * TurnsLeft + 2
    [] pc = "poll"    -> StillToTry + 2 * TurnsLeft + 3
    [] pc = "submit"  -> StillToTry + PerAttempt
    [] pc = "suspect" -> Attempts * PerAttempt + 1
    [] pc = "confirm" -> Attempts * PerAttempt + 2
    [] pc = "cancel"  -> Attempts * PerAttempt + 3 + Cardinality(todo)
    [] pc = "sweep"   -> Attempts * PerAttempt + 4 + MaxOrders
    [] OTHER          -> 0

(* Every step of a call, and of the sweep before it, brings its end nearer *)
(* and nothing the broker does puts it off: whatever fails, a tick is held *)
(* up for a bounded number of calls to the broker.                         *)
CallRunsDown ==
  [][Signal \/ Crash \/ CallLeft' < CallLeft \/ (Broker /\ CallLeft' = CallLeft)]_vars

-----------------------------------------------------------------------------
(* The inductive invariants of the proofs in GuardedEntryProofs.           *)

InCall == pc \in {"suspect", "submit", "poll", "waiting", "failed", "booking"}

(* A call under way, its sweep included (the boot sweep is no call's).      *)
Committed ==
  InCall \/ (pc \in {"sweep", "cancel", "confirm"} /\ boot # "unswept")

(* What is about to be recorded is still unrecorded: the call's order was  *)
(* posted after the last adoption and no row of the intent is open.        *)
BooksSound ==
  /\ TypeOK
  /\ NeverRecordsMore
  /\ \A o \in OrderIds : st[o] = "unused" => filled[o] = 0
  /\ Committed => /\ own = 0
                  /\ cur # NoOrder => adopted + filled[cur] <= held
  /\ pc \in {"poll", "waiting", "failed", "booking"} => cur # NoOrder
  /\ pc = "booking" => fill <= filled[cur]

(* Every order of an earlier process that still works is one the sweep has *)
(* listed or asked to cancel, or the sweep will not come back clean.       *)
StaleLive == {o \in stale : st[o] \in Live}

BookSwept ==
  /\ TypeOK
  /\ \A o \in stale : st[o] # "unused"
  /\ boot = "clean" => StaleLive = {}
  /\ InCall => boot = "clean"
  /\ pc = "cancel" /\ ~bad => StaleLive \subseteq todo \cup asked
  /\ pc = "confirm" => StaleLive \subseteq asked

(* The orders that may still fill, and the one the bot answers for: its    *)
(* suspect between calls, the order it confirms during one.                *)
Working == {o \in OrderIds : st[o] \in Live}

Watched ==
  IF pc \in {"idle", "suspect"} THEN {suspect}
  ELSE IF pc \in {"poll", "waiting", "failed"} THEN {cur}
  ELSE {}

(* The faults under which no order is posted, or given up, unseen.         *)
GuardedFaults == AllFaults \ {"lost", "noid", "fills", "unresolved"}

(* Until a sweep comes back clean everything posted is an earlier          *)
(* process's; after it, the only order that may work is the one answered   *)
(* for, and none does when the next is posted.                             *)
OneAtATime ==
  /\ BookSwept
  /\ OneLiveEntry
  /\ pc \in {"sweep", "cancel", "confirm"} => boot # "clean"
  /\ boot # "clean" => \A o \in OrderIds : st[o] # "unused" => o \in stale
  /\ boot = "clean" => Working \subseteq Watched
  /\ pc \in {"poll", "waiting"} => seen \in Live

(* The faults under which one restart loses no contract.                   *)
SettledFaults == {"poll", "refuse", "crash"}

(* The rows account for every contract, and nothing works.                 *)
AllRecorded == Working = {} /\ own + adopted = held

(* Between calls the books are settled; a call has at most its own order's *)
(* contracts to record; and a boot starts from settled books, or from no   *)
(* row at all, so that one adoption accounts for everything.               *)
BooksSettle ==
  /\ \A o \in OrderIds :
       /\ st[o] = "filled" => filled[o] = Size
       /\ st[o] = "rejected" => filled[o] = 0
  /\ crashes = 0 => adopted = 0
  /\ boot = "unswept" /\ crashes = 0 => held = 0 /\ Working = {}
  /\ boot = "unswept" =>
       /\ pc \in {"sweep", "cancel", "confirm"}
       /\ AllRecorded \/ (own = 0 /\ adopted = 0)
       /\ pc = "sweep" => \A o \in OrderIds : st[o] # "cancelling"
       /\ pc = "cancel" => \A o \in todo : Working \subseteq {o}
       /\ bad => Working = {}
  /\ pc = "reconcile" => Working = {} /\ (AllRecorded \/ (own = 0 /\ adopted = 0))
  /\ pc = "reconcile" /\ crashes = 0 => held = 0
  /\ boot # "unswept" /\ pc \notin {"reconcile", "poll", "waiting", "booking"} => AllRecorded
  /\ pc \in {"poll", "waiting"} => own = 0 /\ held = adopted + filled[cur]
  /\ pc = "booking" => own = 0 /\ held = adopted + fill /\ Working = {}
=============================================================================
