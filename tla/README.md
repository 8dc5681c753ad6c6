# Verification of OTV4TEST

OTV4TEST is a single-process bot that trades options, on paper or live at tastytrade.  This
directory holds TLA+ models of the parts of it whose mistakes cost money or blind the operator,
TLC configurations that check them on small instances, and theorems about them that TLAPS
proves.  Paths below are relative to the repository (`src/`).

1. [The system](#1-the-system)  2. [Modules](#2-modules)  3. [LiveExit](#3-liveexit)
4. [GuardedEntry](#4-guardedentry)  5. [StandingOffer](#5-standingoffer)
6. [The other parts](#6-the-other-parts)  7. [Runs and bounds](#7-runs-and-bounds)
8. [Fairness](#8-fairness)  9. [Proofs](#9-proofs)
10. [Where code and documents disagree](#10-where-code-and-documents-disagree)
11. [What is not modelled](#11-what-is-not-modelled)

## 1. The system

One thread (`main_loop`, main.py:6133) ticks about every 15 seconds.  Beside it run, as separate
processes, the candle feed, the emergency watchdog and the warehouse jobs; the broker works
orders on its own clock.  Shared state is in SQLite (trades, resting offers, candles) and in
small JSON files.  A process may be killed between any two statements; systemd starts it again.

A tick, in order: heartbeat, session reset, blindness latch, intraday reconcile (when its slot
is due), the flatten window (which ends the tick), chain, `_supervise_offers`,
`_supervise_credit_remainders`, then manage / roll / enter.

| Component | State it keeps | Operations | Talks to |
|---|---|---|---|
| Live exit (`execution/exit_engine.py`) | exit memory on the record, `live_exit_state` in the row | submit, resume, poll, cancel at the deadline, harvest a dead order, book | broker, trade logger, position manager |
| Entry (`entry_engine.py`, `order_confirm.py`) | none across ticks | post, confirm to a deadline, record | order guard, broker, trade logger |
| Order guard (`order_guard.py`) | `_SUSPECT`, `_BOOT` (memory only) | clear_to_post, after_failure, sweep, boot sweep | broker, offers, rows |
| Reconciliation (`broker_reconcile.py`, main.py) | none | adopt, close phantoms, report mismatches | broker's positions, rows |
| Standing offer (`resting_orders.py`) | table `resting_orders` | place, supervise, adopt fills, cancel | broker, trade logger, ORB engine |
| Position manager (`position_manager.py`) | `_open_records` | hydrate, manage, flatten, admit | rows, exit engine, offers |
| ORB engine (`analysis/orb_engine.py`) | state, confirmation and order sequence numbers, `orb_state.json` | arm, confirm, invalidate, release | candles, offers, position manager |
| Trailing stop (`exit_engine.py`) | `_trail_stops`, `_trail_active`, `trail_stop` in the row | evaluate a mark, arm, seed after a restart | position manager, rows |
| Condor roll (`strategy/condor_roll.py`) | `is_broken_wing` in the rows | close the untested side, reopen nearer | entry engine, rows, position manager |
| Credit remainder (`credit_remainder.py`) | `_REMAINDERS` (memory only) | register, supervise, accrete | entry engine, records |
| Ladders (`entry_ladder.py`, `ladder_registry.py`) | walks per intent (memory only) | price, refuse, sweep stale | entry engine |
| Candle feed (`data/candle_feed.py`) | subscriptions, believed chain, buffer, the candle store | connect, serve, flush, rescue, reconcile the chain | vendor's socket, SQLite, the bot |
| Levels (`derived/level_rules.py`, `level_book.py`, `levels.py`) | the book, `level_ledger`, `level_event` | step a minute, replay, publish, retire | candles, plans |
| Handoff (`handoff.py`) | grants, tick counter | grant, age, consume | strategies, admission |
| Risk manager, session guard (`risk/`) | session P&L, cap stamp | seed, record, halt | rows, clock |
| Plans and ledger (`strategy/plan*.py`, `derived/plan_ledger.py`) | plan per strategy | open, transition, link, close | strategies, rows |
| Blindness latch, heartbeat, shutdown cause (`utils/`) | outage counters, files | update, touch, record, consume | loop, watchdog, alerts |
| Emergency watchdog (`tools/emergency_watchdog.py`) | state file | judge, kill, cancel, flatten, page | systemd, broker, rows |
| Warehouse (`warehouse/`) | cursors, manifests | push, verify, purge, halt | S3, files |

What is hard about them, and what makes each correct:

* **Live exit.** A fill can land between the last poll, the cancel and the read of the dead
  order; partial fills of several orders must add up over kills and refreshed records.  Correct:
  a row is booked closed only when the whole position is; no closing order that may still fill is
  forgotten; only the remainder is ever sent; the whole thing amounts to closing once.
* **Entry and order guard.** An order can fill after the code stopped looking, or exist although
  the post raised; what the guard knows dies with the process.  Correct: rows never claim more
  than the broker holds; nothing is posted while an order of an earlier process may fill; two
  orders of an intent never work at once; between ticks everything held is in a row.
* **Standing offer.** The offer outlives the tick, the process and the trade; a supervisor, the
  manager and the broker touch the same row.  Correct: a working order is supervised; one offer
  per setup; one row for what the broker holds, never oversold; the engine is released when the
  setup is over; nothing works overnight.
* **Position manager.** Records in memory against rows in SQLite.  Correct: every open row is
  managed, admission counts all of them.
* **Reconciliation.** It acts on one read of the broker.  Correct: adopts what fills, closes only
  what is gone, an empty read changes nothing.
* **Trailing stop.** Four evaluators share one dictionary, and a restart knows only the row.
  Correct: a restart does not loosen the stop, and the stop never falls.
* **Credit remainder and roll.** Three places say how many contracts a vertical has, and a
  remainder keeps a record the reconcile may replace.  Correct: the row is what is held, one
  vertical a side, a final form is not rolled again.
* **Candle feed.** The vendor replays old bars in worse versions, and what the feed remembers of
  its subscriptions dies with the socket.  Correct: the store ends with the true bars; what is
  believed is subscribed; what was delivered is kept.
* **Levels.** A state machine per object against a ruling about whole tapes, carried over missed
  minutes, restarts and redrawn zones.  Correct: said exactly as ruled; the ledger is the book.
* **ORB engine.** A bar is read many times or never, and a restart replays the tape.  Correct: one
  order a confirmation, no order on a replayed bar, a broken thesis stays dead.
* **Blindness latch, watchdog, loss cap.** Counters, timeouts and files, with restarts between.
  Correct: one page per outage, event or episode; a live bot's book is not closed beside it.
* **Ladders.** A walk lives over ticks while quote and strikes move.  Correct: a refused price is
  not offered again.
* **Warehouse.** Two pushers, a verify without the lock, a purge.  Correct: what is purged was
  shipped; the box is kept up only for a reason.
* **Handoff.** A grant is used once and not past its ttl.

The hazards, each at its line with the properties aimed at it, are in PROJECT.json.

## 2. Modules

In the order they were built, by what a mistake costs.

| Module | Models | Abstract specification | Checked by | Proved in |
|---|---|---|---|---|
| LiveExit | broker, row, record and process of one close | CloseOnce: close n contracts, book once | `returns`, `faults`, `exit_fetch` | LiveExitProofs, FaultsProofs |
| GuardedEntry | guard, confirmation, sweep, reconcile | | `returns`, `faults`, `entry_unresolved` | GuardedEntryProofs, FaultsProofs |
| StandingOffer | store, supervisor, manager, engine | | `offers_*` | StandingOfferProofs |
| Condor | verticals, remainders, the roll | | `parts`, `credit_replaced` | CondorProofs |
| PositionBook (MCDay) | the manager's list beside the rows, over a day | | `parts`, `returns`, `pass_raises` | PartsProofs |
| LadderWalk | the price of a live limit | | `parts` | PartsProofs |
| ExitTrail | the trailing stop over restarts | an engine that never restarts (`steady`) | `parts`, `trail_falls` | PartsProofs |
| OrbEngine (MCOrb) | the breakout engine, its file, its replay | a process that reads each bar once (`Once`) | `parts`, `orb_same_bar` | TapeProofs |
| CandleStore | which version of a bar is kept | the true bars | `returns` | PartsProofs |
| CandleFeed | subscriptions, buffer, rescue | | `parts` | PartsProofs |
| LevelRules, LevelBook | the rules and their publication | the ruling on a tape (`HeldAt`, `BreachedAt`) | `parts` | TapeProofs |
| BlindWatch | cache, record, latch | | `faults` | PartsProofs |
| EmergencyWatchdog | watchdog beside the bot | | `parts` | PartsProofs |
| LossCap | the daily halt and its page | | `parts` | PartsProofs |
| Warehouse | push, verify, close, purge, halt | | `parts` | WarehouseProofs |

`MCReturns`, `MCFaults` and `MCParts` put modules side by side for TLC: a behaviour is of one of
them, chosen at the start, while the others stay where they are.  They do this because the parts
share no state, not to compose them; what one module takes from another is said in each section.

Left to build, in this order: the boot's adoption of positions (GuardedEntry) composed with the
offers' (StandingOffer), which would state the double booking of main.py:7043; the end-of-day ladder of limits under PositionBook's
flatten; handoff grants; the plan ledger.
Every invariant the passing runs check is stated by a theorem (section 9); what is left to prove is
the part of liveness that is fairness, out of this prover's reach.

## 3. LiveExit

`ExitEngine._confirm_and_book_live_exit` (execution/exit_engine.py:3499) and its one-pass body,
with the broker, the trade row and the process.

* *State*: `orders` and `closed` are the broker's; `row` is the trade row with `live_exit_state`;
  `mem` the record's exit memory; `copy` what the record believes the row holds; `pc` where the
  pass is.
* *Actions*: one per call to the broker or write to the row: `FetchPrior`/`FetchFails` (resume),
  `SubmitAccepted`/`SubmitLost`/`SubmitRefused`, `SaveOrder`, `Poll`, `PollAgain`,
  `DeadlineCancel`/`DeadlineCancelFails`, `GraceOver`, `LogExit`/`LogExitRaises`; the broker's
  `BrokerFills`, `BrokerKills`, `BrokerRejects`; `Crash`, `Restart` (boot sweep and reconcile) and
  the intraday reconcile `IntradayPhantom`, `IntradayResync`.
* *Abstracted*: prices, the limit ladder, the paper branch, the exit triggers.  A contract is a
  unit.  The polls of a pass are `MaxPolls` per deadline.
* *CloseOnce* is the promise: contracts are closed, never more than there are, and booked once
  when all are.  LiveExit implements it with `booked <- ~row.open` under `BenignFaults`.

What may go wrong in the environment is the constant `Faults`; the comment beside it says what
each member is.  `BenignFaults` are those the code absorbs without loss; under the others only
the safe direction (`BookedMeansClosed`, `NothingInvented`) is claimed.

## 4. GuardedEntry

One intent (a single leg, or a butterfly with its second attempt), from the signal to the row,
with the guard and the boot.

* *State*: `st`, `filled`, `held` are the broker's; `own` and `adopted` the rows; `suspect` and
  `boot` the guard's memory; `cur`, `attempt`, `seen`, `cancels`, `polls`, `fill` the call's
  locals; `todo`, `asked`, `bad` the sweep's; `stale` and `crashes` are history.
* *Actions*: `Signal` (admission), `SuspectClear`/`SuspectHolds` (clear_to_post), `Post`,
  `PostLost`, `PostNoId`, `PostRefused`, `Poll`, `PollAgain`, `DeadlineCancels`,
  `DeadlineCancelRaises`, `Unresolved`, `ConfirmRaises` (confirm_order_fill), `AfterFailure`,
  `LogEntry`/`LogEntryRaises`; the sweep's `SweepLists` ... `SweepTimesOut`; `Reconcile`; `Crash`.
* *Abstracted*: prices and rungs, exits of the position (it stays open), the paper branch.

## 5. StandingOffer

The ORB standing offer over one session, with the supervisor, the manager and the engine.

* *State*: `st`, `filled`, `held` the broker's; `state`, `seen` the table `resting_orders`;
  `booked`, `row`, `sold`, `adopted` the trade rows; `mem` the manager's records; `engine` and
  `spent` the ORB engine's state and its confirmation/order sequence numbers; `late` the clock;
  `pc`, `todo`, `rest`, `cur`, `got` the tick's locals; `missed`, `unrecorded`, `crashes` history.
* *Actions*: `Tick` (the flatten window's short cut included), `Poll`/`PollUnreadable`,
  `Adopt`/`AdoptFails`, `FullyFilled`, `Stands`, `TriggerCancels`/`TriggerCancelFails` (supervise),
  `Hydrate`, `Exit`, `RestCancels`/`RestCancelFails`, `Resolved` (the manager), `Place`,
  `RecordPlacement`/`PlacementLost` (the entry), `Confirm`, `FlattenWindow`, `Crash`.
* *Abstracted*: every offer names the same contract, so the broker's position is one number; an
  exit sells some of a record in one step (LiveExit has its steps); a restart's sweep comes back
  clean (GuardedEntry has the rest); a trigger may fire at any tick (the model does not know the
  price), and `eod` is one of them once the window opened under the tick; ending the day and
  invalidation are the engine not confirming again.

The three modules share the vocabulary of the broker (an order works, is cancelled while it may
still fill, is filled, or dead) and overlap where the code does: StandingOffer's `Exit` stands
for LiveExit's passes, whose promise is CloseOnce; its `Crash` for GuardedEntry's clean boot.

## 6. The other parts

**Condor** (`execution/credit_remainder.py`, `strategy/condor_roll.py`, main.py).  *State*: for
each vertical what the broker has (`owned`), its row (`rows`) and the manager's record (`book`);
`rem`, the remainders, which may share a record with the manager or hold an orphan; `deal`, the
roll between its close and its open.  *Actions*: `Supervise` (one rung of a remainder, its
accretion, its drop), `WindowCloses`, `RollCloses`/`NoRoll`, `RollReopens`/`RollHalts`, `Manage`
(an exit), `Enter`/`NoEntry`, `Reconcile` (records replaced by rows), `Restart`.  *Abstracted*: an
order fills some of what it asked and its call returns (GuardedEntry and LiveExit have the steps);
which strikes are risk-free is the plan the roll starts from.

**PositionBook** (`execution/position_manager.py`, with the entry, the reconcile, the boot and the
flatten window of main.py).  *State*: each trade's row (`rowOf`), the records under management
(`managed`), how often a close was booked (`closes`), the standing offers, the hour of the day, the
place in the tick.  *Actions*: the reconcile (`NothingGone`, `RowsReconciled`, `LongAdopted`), the
supervisor's fills (`OffersSupervised`: a row without a record), `ManagePass`, `EntryPass` (admission
counts the list, an entry appends), `HardClose` with the pass over what is held, `ClockMoves`,
`BootRecovers`; and what raises: `ManageRaises`, `HeldPassRaises`, `HardCloseRaises`, `TickCutShort`.
*Abstracted*: an exit that closes is one step (LiveExit has its steps), an offer is its type
(StandingOffer), which records a pass closes is free.  The matrix of strategies that block each
other is empty by ruling.

**LadderWalk** (`execution/entry_ladder.py`, `ladder_registry.py` and their callers).  Quotes in
cents, prices in quarter-cents, so that marks and openers are whole.  *State*: the walk of one
intent (rung, best refused price, structure), how long it lay idle.  *Actions*: `Attempt` (resume,
price, post, refuse or end), `PostAtMark`, `Lull`, `Lost` (a restart, or a stale sweep).

**ExitTrail** (exit_engine.py).  One position of four kinds: a debit trade, a structure trade, an
adopted one, VOLT.  *State*: the engine's stop and whether it is armed, the record, the row, and
`steady`, an engine that saw the same marks and never restarted.  *Actions*: `TrailPass` (gap
trail, target trail, percentage trail in the code's order, then the write of the row), `VoltPass`,
`OtherDecision` (an earlier trigger), `RestartTrail`.  Premiums are exact integers.

**OrbEngine** (`analysis/orb_engine.py`).  A price is its place relative to the range: inside, on
an edge, beyond, past the 50% target.  *State*: the closed bars, the engine's fields,
`orb_state.json`, whether this process has replayed the tape, whether a trade is on.  *Actions*:
`BarCloses`, `CutoffPasses`, `AnalysisTick` (replay if due, then read the newest bar), `PlaceOrder`,
`TradeEnds`, `RunawayFires`, `TickEnds`, `ProcessDies`, `ProcessStarts`.  A tick may take longer
than a bar, so that bars go unread.

**CandleStore** (`FeedStore` of `data/candle_feed.py`).  One wide bar and the minutes in it; a
version of a bar is its volume.  The vendor may send slices of any bar in any order, and inflated
wide ones; the store keeps by its rule and by the 1m referee, which may fail.

**CandleFeed** (same file).  *State*: what is subscribed on the socket, what the feed believes it
subscribed, the bars served, buffered and stored, the rescue's latch, the mode.  *Actions*:
`Connect`, `Cycle` (flush, rescue, reconcile the chain, maintenance), each also raising half way,
`SocketRaises`, `Dies`, `Serve`, `BotAsks`, `ModeChanges`.

**LevelRules, LevelBook** (`derived/`).  LevelRules has the code's step of one episode and, apart
from it, the ruling of the file's header on a whole tape.  LevelBook has levels of closed
sessions, their zones, flips and the opening range, and the engine that publishes the book into
`level_ledger` and `level_event`: `MinuteCloses`, `HourCloses` (the width of zones changes),
`Sync`, `SyncFails`, `EngineRestarts`.  The code replays the tape at each sync; the model carries
the book forward, which is the same while the width is, and replays when it changes.
`DerivedStore._write` swallows a write it cannot do, and a ledger that cannot be read retires
nothing: `Sync` may lose any of its writes and goes on as if they had landed, as `_book_sync` does
with `_book_live`, `_flip_written` and `_book_emitted`.  `swallowed` remembers which levels it is
of: the losses of the last sync, and the rows of levels this process has had live since theirs was
lost.  An event may raise when it is put into words, after the ledger's writes: it is marked as
published and is not, and the later ones wait for the next sync.  `SyncFails` is the sync that ends
before it writes; an exception between two writes of the ledger is left out (the writes do not raise).

**BlindWatch** (`data/data_cache.py`, `market_data.py`, `utils/blindness_latch.py`).  Time in polls
of 15 seconds.  A frame is read when its copy is old, a failed read leaves a record, the next tick
hands it to the latch: `SightChanges`, `Tick`, `WindowOpens`, `BookCloses`.

**EmergencyWatchdog** (`tools/emergency_watchdog.py`).  Time in minutes of its timer; the bot
passes, hangs, waits for systemd or is down.  *Actions*: the bot's troubles, and `Fire` (judge),
`StopBot`/`WouldNotStop`, `CancelWorking`, `FlattenPass`, `WatchdogDies`.

**LossCap** (`is_halted`, `reset_session` of `risk/risk_manager.py`).  The day's result in
trades.db, its mirror in memory, the halt, the stamp on disk, the pages: `PositionCloses`,
`RecordLoss`, `BooksQuietly` (a close only the row learns of), `EntryAsks`, `SessionReset`,
`BotCrashes`, `BotRestarts`.  The book may be unreadable (the mirror answers), the stamp unwritten
or unreadable (`_cap_episode_open` answers no: "a bad file never silences a page"), the page unsent.
`capFaults` counts the questions of an episode in which one of the first three changed the answer
or the stamp; `OnePagePerEpisode` allows each of them one page more.

**Warehouse** (`warehouse/`).  A series under a high-water mark (a row is its time) and a mutable
row under a hash stand for all tables.  *State*: what S3 has, the ledgers on disk, and each
pusher's copies of them; the lock; the verdict of the close.  *Actions*: `FeedWrites`,
`RowChanges`, a run of the `timer` and of the `close` step by step, `Kill`, the close's verify,
heal, stores and halt, `Purge`, `MidnightHalt`, `Wake`.

## 7. Runs and bounds

| Run | Shows |
|---|---|
| returns | under failed polls and cancels, refusals, kills and resyncs the close loses no order and no fill, sends only the remainder, implements CloseOnce, returns and books; an entry call returns and a blocked boot resumes; the candle store ends with the true bars; from 15:50 on the manager's book comes to be flat |
| faults | under every fault rows claim nothing the broker does not hold and no row is booked closed early; posts find the book clean; with smaller sets, two orders of an intent never work at once and every fill is in a row between ticks; an outage of the trigger frame is paged and sight not reported restored before it is |
| offers_all_faults | partial fills, failed polls, reads, cancels and store writes, and a restart: one supervised offer, one honest row, no oversell, an engine that waits for nothing that is over |
| parts | ten parts of section 6, BlindWatch and CandleStore aside, each against its own properties |
| exit_fetch | one failed `get_order` at a resume leaves two closes working (violation) |
| entry_unresolved | an order that fills after the confirmation gave up is not adopted (violation) |
| offers_grown | a row that grew is closed when its old size is sold (violation) |
| offers_eod | in the flatten window an unfilled offer works on (violation) |
| orb_same_bar | a trade that ends within the minute is entered again on the same bar (violation) |
| credit_replaced | a remainder accretes into a record nobody manages (violation) |
| pass_raises | an exception in one record's management has a closed one closed again (violation) |
| trail_falls | the percentage trail lowers a higher floor when it arms (violation) |

The properties of `parts`:

| Part | Properties |
|---|---|
| warehouse | `ShippedBeforePurged`, `HeldForAReason`, `OnlyStaleVerifyRewinds` |
| watchdog | `NeverBeside`, `UnattendedIsPaged` |
| orb | `OrdersAreFresh`, `ArmedThesisStands`, `ResumeIsForgotten` |
| condor | `RowIsHeld`, `NeverTwoOfASide`, `FinalFormIsFinal` |
| day | `NothingDropped` |
| ladder | `RefusedNeverReturns` |
| feed | `MemoryIsOfThisSocket` |
| levels | `BookIsAsRuled`, `LedgerIsTheBook` |
| cap | `OnePagePerEpisode` |
| trail | `RestartKeepsTheStop` |

Bounds, and why they are enough:

* *Contracts.* 2 is the least size with a partial fill and a remainder; the exit of `returns` has 3,
  a partial of a remainder.  *Orders*: 3 give a first, a retry and one after a restart; 2 offers
  give one beside the remainder of another; 4 verticals give both sides, a roll and a later entry.
  *Restarts*: 2 in GuardedEntry (a fill of the first process meets the row of the second; 1 where
  every fill must be in a row), 1 in the others.  *Polls*: 1 per deadline, so that the deadline, its
  grace period and the fills between them all occur; more only repeat the state.  *MaxCancels* = 3
  is the code's.
* *Warehouse.* 3 rows, batches of 1, nothing retained (`Keep` 0, the least kind to the purge), 2
  runs of each pusher and 1 kill or halt: a run between two others, killed or without the lock.
* *Watchdog.* A day of 8 minutes with a window of 3, a heartbeat stale after 2 and a grace of 2: two
  firings before, in and after the window.  3 troubles: hang, stop, start again.
* *Blind.* 11 polls pass the patience of the latch and leave room for a second outage.
* *ORB.* 4 bars (range, break, retest, after) of 10 shapes, 2 trades, 1 restart.
* *Ladder.* 4 rungs stand for `MAX_RUNGS` = 24, 3 refusals, 5 quotes: a cent wide, on and off the
  nickel grid, wide and locked, on both sides of the boundary of the venue's increment.
* *Candle store.* Two minutes that trade 2 each: every slice that differs by more than the rule
  forgives (5%; the slices that the code's comments record lost 14 to 90%).  *Feed*: the opening
  range's interval and another, three chains: a chain, one strike more, the next expiry.
* *Levels.* 5 minutes of 6 shapes over 3 levels, two of them close enough for a zone, one of a later
  session; one upset, which may be any one write lost, a failed sync, a missed minute, a restart or
a change of the width.
* *Loss cap.* A cap of 2, results within 4: past it, back, and past it again.  3 faults an episode: an
  unreadable book, a stamp not written and one not read, together.
* *Day.* A fly, two verticals (the cap admits two), an offer's trade and an adopted long, and two
  shocks of any kind; one vertical where the evening must come about.
* *Trail.* Ten marks from below the stop to beyond the target, with and without a gap.

A behaviour that reaches a bound stops, and a day ends: the configurations say
`CHECK_DEADLOCK FALSE`.  The faults left out of a run are those under which its property does not
hold in the code; each is named in the hazard it belongs to or in section 10.

Each property of a passing run has a mutant of the code's definitions that violates it under the
same configuration (the definitions marked "Mutant" in the modules).  Type correctness of LiveExit,
GuardedEntry, StandingOffer and BlindWatch is proved and not run again, nor are `BookedMeansClosed` (a part of
`ExitInventsNothing`) and the watchdog's `OnePage`.

## 8. Fairness

Only of the bot's own code: a pass, a call, a tick is straight-line code with bounded loops in
one thread, and the loop ticks while the process lives.  `FairCases` (MCReturns) has weak fairness
of the exit's `Pass`, of the entry's `Sweep \/ Enter` and of a strategy that keeps signalling, and
of the broker carrying out an accepted cancel of an entry, without which a blocked boot rightly
stays blocked.  To an exit the broker owes nothing: orders may work, and cancels pend, for ever.
Of the vendor, who replays a bar again and again, it has strong fairness of sending the true
version, and weak fairness of time.  Of the evening it has weak fairness of the ticks of the flatten
window, which the loop repeats until the bell, and for each trade strong fairness of a close that
the broker carries out in one of them: an order that is never filled leaves the position open in
the code too.  An exception in one record's management (`raise`) is left out there: a closed record
that stays in the list and that the broker will not close again keeps the list from emptying, and a
row without a record is then never read.  `FairSpec` of StandingOffer adds that the clock reaches the
flatten window.

## 9. Proofs

All for every value of the constants: every size, every number of orders, polls and restarts, every
tape of bars.  What is assumed of the constants is their types (`SizeAssumption`, `BookAssumption`,
... in the modules that declare them; TLC evaluates each), and what a theorem names besides.

* **LiveExitProofs**.  Under any faults `TypeCorrect`, `NeverBookedEarly`, from `NothingInvented`:
  the record, the row and the row as the bot believes it each *claim* (fills remembered plus fills
  of the order named) at most what the broker closed.  BookedMeansClosed alone is not inductive: the
  step that books reads the memory, which the invariant bounds.  Under faults within `BenignFaults`,
  `NothingForgotten` is the inductive invariant: row and record *account* for exactly what is closed,
  the named order was sent for exactly the rest, and every order that may fill is named.  From it
  `NoOrderForgotten`, `NoFillForgotten`, `RemainderOnly`, and the refinement `ImplementsCloseOnce`:
  each step maps to `CloseSome`, `BookAll` or a stutter.  Two measures state what of the exit's
  liveness needs no fairness.  `PassIsShort`, under any faults: each call of a pass lowers `PassLeft`,
  which is at most `4 * MaxPolls + 8`, and the broker never raises it.  `BookedWithinSixCalls`, under
  `BenignFaults`: once the broker has closed the whole position each call lowers `ToBook`, at most 6;
  what the exception names, a read that brings nothing and a kill, is all that can put it off.
* **GuardedEntryProofs**.  Under any faults `TypeCorrect` and `RecordsNoMore` from `BooksSound`:
  during a call no row of the intent exists and what the call's order filled is held beyond what
  is adopted.  `CleanBookBeforePost` from `BookSwept`: every order of an earlier process that may
  still fill is listed, asked to cancel, or the sweep is bad; a status never comes back to life.
  `NeverTwoAtWork` for faults within `GuardedFaults` (every order's id is known, and every order
  resolved) from `OneAtATime`: until a sweep comes back clean nothing of this process works, after
  it only the order the call or the guard answers for.  `QuietBooksAreSettled` for faults within
  `SettledFaults` and one death, from `BooksSettle`: a boot starts from settled books, or from no row
  at all, so that one adoption accounts for everything; a second death lets fills share the symbol of
  an adopted row, which the reconcile reports and does not adopt.  `CallIsBounded`, under any faults:
  each step of a call or a boot lowers `CallLeft`, at most `Attempts * PerAttempt + 4 + MaxOrders`
  (the sweep's cancels, then the attempts, each with a grace period for every cancel it may ask for),
  and no step of the broker raises it.
* **FaultsProofs** carries three of these over to MCFaults, where TLC checks them: `GuardedCase`,
  `SettledCase`, `ExitCase`.  The case never changes, and a behaviour of a case is one of the module it
  names; the instances of a module and of its proofs are shown equal, definition by definition.
* **StandingOfferProofs**.  `TypeCorrect`, `SupervisedThroughout`, `NotedFillsBooked` under any
  faults, from `CallSound` (the call in progress names a listed offer; what was read was filled)
  and `OrdersSound`.  `OneOfferAtATime`, `RowIsHeld`, `NothingOversold` assume the plan's gate can
  read the offer store (`"gate" \notin Faults`), from `OneWorking` and `OneRow`: the open row is
  the working offer's, the record is that row, and neither has more left to sell than is held.
  The row invariants are not inductive without the single offer: a second row for the same
  contract would each claim the whole position.  `EngineNeverWaitsInVain` under any faults, from
  `Awaited`: a spent confirmation waits for an open row or for a listed offer whose row has not been
  closed, but while the remainder of a closed row is cancelled, when the release is still to come.
* **CondorProofs** (any upsets).  `RowsAreHeld`, `SidesStayApart` from `CondorInv`: `Records` (a
  record is of an open row and closes no more than a vertical's size), `WalksAgree` (a remainder is of a
  vertical of its side and walks for exactly what its row lacks), `RollIsClear` (between its two
  orders a roll has the side it sells again to itself).  Without `WalksAgree` a fill could exceed the
  size, without `RollIsClear` the side be sold twice.  `FinalFormStands` from `WingsAgree`: a record
  carries the mark its row has, and the rows of an announced final form carry it for good.
  `CondorIsTyped` from `Sizes`: a record asks for no more than its row has, also when the remainder
  grows a record the manager no longer has, so that no close or roll buys back below zero.
* **WarehouseProofs**, for every number of rows, runs, kills and outages, every batch and retention.
  `WarehouseTypesHold`, `PurgeIsCovered`, `BoxIsHeldForAReason`, `OnlyVerifyRewinds` from
  `WarehouseInv`.  `Landed`: every place a mark is kept (the disk, each run's copy, the one in flight,
  the purge's cutoff) covers only rows S3 has.  `Counted`: a counter is above zero only of a stream
  that has an object.  `LockRules`: who holds the lock has a mark no older than the disk's, and a
  close without it has only the final flush and the verify ahead.  The property about the purge is
  not inductive without the copies: it is a copy that a run writes back.
* **PartsProofs**, one section a part.
  - *Watchdog*: `ClosedBesideNobody`, `PagedOnceADay` from `CloseIsNoted` (what it does to the book it
    wrote down first).  `UnattendedIsAlwaysPaged` from `SeenTwice`: a bot that is unattended two minutes
    before the window's end has been seen unwell once by then and acted on a minute later.  It assumes
    `CloseAt + 2 <= CloseEnd`: with a shorter window a position may be opened after the look that
    would have noted it, and the second, which the code waits for, comes too late.
  - *Loss cap*: `PagedOnce`, for every cap and every number of faults, from `PagedIsStamped`: past the
    cap the pages are at most the faults, and one more once the stamp is open.  A page opens the stamp
    before anything can ask again; a fault pays for the page that an open stamp would have kept back.
  - *Position manager's list*: `NothingIsDropped` from `BookStands`: a list that misses one of the
    loop's own open rows is not empty, hence not read again, hence never missed it; and
    `ClosedOnceUnlessRaised` from `NoGhosts` (what is managed is open), which an exception in
    manage_open_position breaks and, so the theorem says, nothing else does.
  - *Evening*: the halves of `EndsFlat` that are not fairness.  `EveningOnlyShrinks`: after the trading
    hours a row is opened only in the place of one an assignment closed, and none is reopened.
    `TwoSweepsAreEnough`: a hard close in which every order is confirmed leaves the list at the open
    rows, which no reconcile, exception or restart undoes, and a second one leaves the book flat.
    The first alone does not: an offer's row that no record is of is read only once the list is empty.
  - *Blindness*: `LatchIsTyped` and `AllClearIsTrue` from `DarkIsOnRecord`: a tick of the trading
    window always reads the trigger frame, so while it cannot be read since the page the next tick is
    handed a record.  `OutageIsPaged` from `OutageIsCounted`: every tick of the darkness but the first
    was counted, so the ticks reach back to it.
  - *Candle feed*: `FeedRemembersItsSocket` from `FeedInv`: while nothing was asked no chain has been
    heard of, and no closed socket has delivered anything; each step of a connection and of a cycle,
    raising half way or not, then keeps what is believed on the socket.
  - *Candle store*: `TruthIsNotLost` and `TruthIsAlwaysTaken`, from `Whole` (a minute is never inflated):
    the half of `TruthPrevails` that is not fairness.  The referee's sum is a fold over the minutes;
    `TrueSum` computes it over true ones by a smallest set where it would be wrong.  The first theorem
    assumes that a slice lacks more than 5% of its bar (`95 * Traded > 100 * (Traded - 1)`): with a
    finer one TLC shows a true minute replaced, and the model of a larger `Traded` would violate
    `TruthPrevails`.
  - *Trailing stop*: `RestartLoosensNothing`, `TrailIsTyped`.  `StopIsKept` compares two engines: the
    one that restarts, as the row would seed it now, *dominates* (`Dominates`) the one that never did,
    and domination survives every mark both see; the row has seen the mark that armed the other.  The
    proof needs an entry price of more than one unit (`TrailAssumption`), or a stop a fraction below
    it rounds to nothing, and prices in whole units.
  - *Ladder*: `RefusedPricesStayOff`: the walk's best refusal bounds every refusal since the ratchet
    began, and a price is past it or the mark's.
  - *Side by side*: `PartsAreTyped`.  The part of a behaviour of `PartsSpec` never changes and its steps
    are that part's (`PartsStay`), so that the type theorem of each module holds of it.
* **TapeProofs**, the two readers of the tape of closed minutes.
  - *Level book*, for every tape of well-formed bars, every set of levels and every width of zones.
    `BookIsAlwaysRuled`: the book, which is computed one minute at a time and replayed when the width
    changes, is at every minute what the ruling says of the whole tape.  `BookOK` says it of a book and
    a tape: of each object still judged (`ZoneJudged`, `FlipJudged`) nothing was broken since its birth,
    a pending test is one the ruling has pending, and everything ruled of it has been said (`Told`);
    what was said was so (`SaidRight`), and nothing is said of what was broken (`Silent`).
    `LedgerFollowsTheBook`: each sync leaves live in the ledger what the book has live, but for the
    levels in `swallowed`.  `LedgerInv`: what this process has seen live is live there or swallowed;
    `LedgerDue`, what a sync means to leave, is then right of every other level (`DueLaw`).
    `LevelsAreTyped` from `BookShaped`: the zones of a cover are apart (`ZonesApart`) and those judged are
    of live levels (`Homes`), whatever sessions close, widths change and ranges pass.
  - *ORB engine*.  `TapeInv` (the engine and its file are `Sound`: a break is of a bar of the tape, and
    whether that bar, or the newest, has been read for it is as the tape says) gives `EngineIsTyped`,
    and with it `ThesisAlwaysStands`: nothing has closed inside since the break.  The property's premise names what the code does at a trade that is opened and
    gone within a minute: it arms the engine again on the old break.  `OrdersAreAlwaysSeen` for any
    number of deaths and every glitch: no replay orders, only a confirmation seen on its own bar.
    `OrdersStayFresh` (no confirmation is ordered on twice but one whose trade ended within its minute)
    from `OnceInv`, assuming one death at most and a file that saves.  Both are needed: after a second
    death, or a save that fails, the file may hold as unspent a confirmation whose trade has ended, and
    the next process orders on it again (section 10).  `ReplayForgetsTheFile`: a start's replay ends
    where a process that read each bar once would be, whatever the file held, since an engine without
    a break is `Blank` and the first minute, closing inside, drops every break.

A replay is a fold over the tape, and the library's induction theorems cannot be used by these
provers.  Where a proof needs induction on whole numbers it is done in the form of a set:
`LeastOf` (every nonempty set of whole numbers has a least member, from the well-foundedness of the
finite sets) gives `Upward` (a set with 0 that has n + 1 with n has them all).

What proving changed in the model: `JudgeZones` now brackets the union of what it says, which the
checker and the prover read with different precedence; `BookAssumption` says that bars are well formed
(the low below, the high above) and the levels finitely many; `DayAssumption` that the trades are
finitely many; `OrdersAreFresh` is stated by its two
halves, and `ArmedThesisStands` has the premise above, without which the engine the code arms
again violates it.

Only model-checked: liveness (`ExitReturns`, `EntryReturns`, `TruthStands`, `EndsFlat`), because this
prover does not do fairness or ENABLED: the measures, bounds and closure properties above are what
it rests on, that the steps are taken is the fairness of section 8.  And every violation, which is a
trace of a small instance.

## 10. Where code and documents disagree

The first eight are runs whose counterexample TLC prints; PROJECT.json quotes both sides.

* `exit_fetch`: a prior close that cannot be fetched is dropped and a second one sent
  (exit_engine.py:3563) although the docstring says a second close is not submitted.
* `entry_unresolved`: what fills after an unresolved confirmation is not adopted once the
  intent was posted again (order_confirm.py:210, broker_reconcile.py:218-238).
* `offers_grown`: adopt_fill resizes the row, not the record the manager sells by
  (resting_orders.py:549).
* `offers_eod`: the supervisor's eod trigger is behind a `continue` (main.py:6324).
* `orb_same_bar`: after a trade the bar that confirmed it counts as new (orb_engine.py:1430).
* `credit_replaced`: the intraday reconcile replaces the record a remainder holds (main.py:6929).
* `pass_raises`: the list is assigned after the loop over it, so when one record raises, those closed
  before it are closed and booked again (position_manager.py:976-979).
* `trail_falls`: arming the percentage trail overwrites a higher floor (exit_engine.py:3185).

Others met while modelling, excluded by a fault or a premise of the properties:

* clear_to_post forgets a suspect that filled in part and then died (order_guard.py:280).
* A kill between clearing `live_exit_state` and `log_exit` (exit_engine.py:3507) leaves an open
  row with nothing remembered (fault `booking`); a FILLED order whose fills cannot be read is
  dropped and its contracts sent again (exit_engine.py:3613, fault `fills`).
* A kill while a cancel of an entry order pends (fault `dying`, order_guard.py:164): what fills
  before the cancel is carried out is adopted only if the boot's read sees it.
* Two restarts: contracts that fill after an adoption share the adopted row's symbol and are
  reported as a mismatch (broker_reconcile.py:229).
* A failed adoption of an offer's fill is not tried again while the quantity stays the same, since
  `note_seen_qty` comes first (resting_orders.py:354 against the log at 522).
* A restart between a fill and its adoption books it twice: ADOPTED at the boot, and the offer's
  row at the next poll.
* `_orb_offer_working` says it fails closed (main.py:4092), `working` reads an unreadable store as
  empty (resting_orders.py:231): fault `gate`.
* An accepted cancel that loses the race to a fill is not polled again; an order the broker ended
  by itself stays WORKING in the store, its cancel fails each tick and ORB is shut for the day.
* An ORB row adopted while the manager holds another strategy's record is neither managed nor
  counted by `open_by_strategy` until the list is empty (position_manager.py:831, 670).
* Exit trail: VOLT looks at its floor only while the gain is half its risk, though the docstring
  has the floor hold once armed (exit_engine.py:1387-1390); its peak is in memory only; "arithmetically
  impossible here" (3163-3169) is not so for a structure trade.
* Blindness: bars old on the 5m frame alone are read every other tick, and the tick between resets
  the latch (blindness_latch.py:107), so they are never paged; ticks of the flatten window read
  nothing and report sight restored (main.py:6298-6324).  Hence the premises `window = "trading"`
  and the trigger frame.
* ORB: a live process reads a bar more than once, so that a restart does not arrive at the state it
  left (the docstring of orb_engine.py:1100-1103; `RestartAgrees` in the module says so and is not
  run); an armed setup with a consumed confirmation is lost at a restart.
* ORB: when `orb_state.json` cannot be written from the order until its trade is over, a restart
  reads OPEN and unplaced and orders again on the same confirmation (glitch `save`, in no run:
  `OrdersAreFresh` fails with it).
* Condor: a light roll is announced as "ARMED" (condor_roll.py:583-585), but the rolled leg itself
  carries the mark of the final form and the next tick refuses it (316).  The risk-free test uses the planned quantity and cost (condor_roll.py:572); an open-trade
  list that cannot be read lets a remainder post into a closed parent; `_open_credit_sides` fails
  open; a roll that closed and could not reopen is not entered again.
* Ladder: a partial fill of a close does not refuse its rung although ladder_registry.py:174-180
  says so; the price that improves on a refusal is not snapped to the increment now in force.
* Candle feed: a rescue whose subscribe raises leaves 5m unsubscribed until the next socket while
  the log says "the feed is unaffected" (candle_feed.py:1532); a true wide bar replayed before its
  last short minute is completed is refused until the next replay; a slice that lacks less than 5%
  replaces a true minute, which no referee judges (the header of the referee names the limit).
* Levels: a width that changes redraws zones over the whole replay, so a level once breached is live
  again, and upsert_level un-retires its row though its docstring says it never does
  (derived_store.py:256, 336-349).
* Levels: "the ledger holds exactly the book's live levels" (levels.py:913, 1084) only of what the store
  has taken: `_write` swallows a failed upsert (derived_store.py:234-246), `_book_live` has the level
  all the same (levels.py:1145), and its row stays missing until the level dies or the process ends;
  so with a flip's row (1121) and an event (1164).  A retirement is repeated by the next sync.
* Loss cap: a crash between log_exit and record_loss, or a quiet booking, halts at the reset without
  a page; a restart that cannot read trades.db starts from 0 and pages again; the stamp is written
  before the page is sent, so a failed send is not retried.  A stamp that cannot be read pages again
  in the same episode (risk_manager.py:823-828; check_cap_page_once.py P7 wants it so); an open one
  that cannot be read once the day is back under the limit is not closed, and silences the page of
  the next breach if it can be read then, against "a bad file never silences a page".
* Warehouse: a verify that could not have the lock writes its stale ledgers over the holder's, at the
  cost of shipping again; the plan tables' purge is clamped by a ledger push_derived never writes.
* Watchdog: a bot that crashes in a loop is always within its boot grace and never closed.
* Position manager: flatten_all works on the list only, so an ORB row without a record is flattened
  after the list has emptied (852-931).

## 11. What is not modelled

* Sizing, indicators, signals and the strategies' conditions: floats computed from candles, pure
  functions the repository's own checkers test.  P&L only as the loss cap's result and as marks.
* The paper branches (simulated fills at once, without orders) and the resting stop of paper trades.
* Shutdown cause, session guard, fill observers, buying power, calendar: a pure function, or a line
  of state with one reader; PROJECT.json says why for each.
* Handoff grants, the plan ledger and the end-of-day ladder of limits: they have state; section 2
  has the order in which to take them.
* Of the candle feed, the routes of echoed symbols, bars outside the session, the poison guard, the
  series of quotes and prints; of the levels, the hours without minutes, the rails, the walk.
* Alerts, deployment, operator tools, pages and reports: I/O that no trading state depends on.
* The bulk of the repository's lines is of these kinds (configuration, commentary, indicators,
  dashboards, tools): the models stand for the lines that keep state across ticks, processes or
  messages, about an eighth of the whole.
* External code: the tastytrade SDK and the broker, S3 and systemd, modelled from how the code uses
  them: an order may fill in parts, end by itself, and fill while a cancel pends; any call may raise.
