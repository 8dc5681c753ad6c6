---------------------------- MODULE FaultsProofs ----------------------------
(***************************************************************************)
(* What GuardedEntryProofs and LiveExitProofs prove of one entry and one   *)
(* exit, carried over to MCFaults, where a behaviour is of one case: the   *)
(* case never changes, a behaviour of a case is a behaviour of the module  *)
(* the case names, and in the other cases nothing is claimed.              *)
(***************************************************************************)
EXTENDS MCFaults, TLAPS

GP == INSTANCE GuardedEntryProofs WITH Faults <- GuardedFaults
SP == INSTANCE GuardedEntryProofs WITH Faults <- SettledFaults, MaxCrashes <- 1
LP == INSTANCE LiveExitProofs
        WITH Total <- 2, MaxPolls <- 1,
             Faults <- {"fetch", "poll", "cancel", "refuse", "save", "crash", "resync",
                        "fills", "lost", "posted", "booking", "log"},
             pc <- at, seen <- saw, polls <- tries

-----------------------------------------------------------------------------
(* A module of the model and the module of its proofs, instantiated alike, *)
(* are the same specification, definition by definition.                   *)

LEMMA SameGuarded == (G!Init <=> GP!Init) /\ ([G!Next]_G!vars <=> [GP!Next]_GP!vars)
  BY DEF
    G!OrderIds, G!NoOrder, G!MaxCancels, G!Live, G!DeadRead, G!broker,
    G!rows, G!call, G!sweep, G!history, G!vars, G!Init, G!BrokerFills,
    G!BrokerEnds, G!CancelAccepted, G!CancelRaises, G!BootResult,
    G!SweepLists, G!SweepUnread, G!SweepCancels, G!SweepCancelled,
    G!SweepConfirms, G!SweepTimesOut, G!Reconcile, G!Signal, G!SuspectClear,
    G!SuspectHolds, G!Onward, G!Excepted, G!TryAgain, G!Place, G!Post,
    G!PostLost, G!PostNoId, G!PostRefused, G!ReadFills, G!Poll, G!PollAgain,
    G!AtDeadline, G!DeadlineCancels, G!DeadlineCancelRaises, G!Unresolved,
    G!ConfirmRaises, G!AfterFailure, G!LogEntry, G!LogEntryRaises, G!Crash,
    G!Sweep, G!Enter, G!Broker, G!Next, GP!OrderIds, GP!NoOrder,
    GP!MaxCancels, GP!Live, GP!DeadRead, GP!broker, GP!rows, GP!call,
    GP!sweep, GP!history, GP!vars, GP!Init, GP!BrokerFills, GP!BrokerEnds,
    GP!CancelAccepted, GP!CancelRaises, GP!BootResult, GP!SweepLists,
    GP!SweepUnread, GP!SweepCancels, GP!SweepCancelled, GP!SweepConfirms,
    GP!SweepTimesOut, GP!Reconcile, GP!Signal, GP!SuspectClear,
    GP!SuspectHolds, GP!Onward, GP!Excepted, GP!TryAgain, GP!Place, GP!Post,
    GP!PostLost, GP!PostNoId, GP!PostRefused, GP!ReadFills, GP!Poll,
    GP!PollAgain, GP!AtDeadline, GP!DeadlineCancels,
    GP!DeadlineCancelRaises, GP!Unresolved, GP!ConfirmRaises,
    GP!AfterFailure, GP!LogEntry, GP!LogEntryRaises, GP!Crash, GP!Sweep,
    GP!Enter, GP!Broker, GP!Next

LEMMA SameSettled == (S!Init <=> SP!Init) /\ ([S!Next]_S!vars <=> [SP!Next]_SP!vars)
  BY DEF
    S!OrderIds, S!NoOrder, S!MaxCancels, S!Live, S!DeadRead, S!broker,
    S!rows, S!call, S!sweep, S!history, S!vars, S!Init, S!BrokerFills,
    S!BrokerEnds, S!CancelAccepted, S!CancelRaises, S!BootResult,
    S!SweepLists, S!SweepUnread, S!SweepCancels, S!SweepCancelled,
    S!SweepConfirms, S!SweepTimesOut, S!Reconcile, S!Signal, S!SuspectClear,
    S!SuspectHolds, S!Onward, S!Excepted, S!TryAgain, S!Place, S!Post,
    S!PostLost, S!PostNoId, S!PostRefused, S!ReadFills, S!Poll, S!PollAgain,
    S!AtDeadline, S!DeadlineCancels, S!DeadlineCancelRaises, S!Unresolved,
    S!ConfirmRaises, S!AfterFailure, S!LogEntry, S!LogEntryRaises, S!Crash,
    S!Sweep, S!Enter, S!Broker, S!Next, SP!OrderIds, SP!NoOrder,
    SP!MaxCancels, SP!Live, SP!DeadRead, SP!broker, SP!rows, SP!call,
    SP!sweep, SP!history, SP!vars, SP!Init, SP!BrokerFills, SP!BrokerEnds,
    SP!CancelAccepted, SP!CancelRaises, SP!BootResult, SP!SweepLists,
    SP!SweepUnread, SP!SweepCancels, SP!SweepCancelled, SP!SweepConfirms,
    SP!SweepTimesOut, SP!Reconcile, SP!Signal, SP!SuspectClear,
    SP!SuspectHolds, SP!Onward, SP!Excepted, SP!TryAgain, SP!Place, SP!Post,
    SP!PostLost, SP!PostNoId, SP!PostRefused, SP!ReadFills, SP!Poll,
    SP!PollAgain, SP!AtDeadline, SP!DeadlineCancels,
    SP!DeadlineCancelRaises, SP!Unresolved, SP!ConfirmRaises,
    SP!AfterFailure, SP!LogEntry, SP!LogEntryRaises, SP!Crash, SP!Sweep,
    SP!Enter, SP!Broker, SP!Next

LEMMA SameExit == (L!Init <=> LP!Init) /\ ([L!Next]_L!vars <=> [LP!Next]_LP!vars)
  BY DEF
    L!OrderIds, L!NoOrder, L!WithStatus, L!Live, L!Statuses, L!vars,
    L!broker, L!pollVars, L!Blank, L!Unused, L!ExitMem, L!Places, L!TypeOK,
    L!Init, L!BrokerFills, L!BrokerKills, L!BrokerRejects, L!Persisted,
    L!Save, L!EndPass, L!Book, L!Harvest, L!ReadFills, L!StartPass,
    L!StartPolling, L!FetchPrior, L!FetchFails, L!Place, L!SubmitAccepted,
    L!SubmitLost, L!SubmitRefused, L!SaveOrder, L!Poll, L!PollAgain,
    L!DeadlineCancel, L!DeadlineCancelFails, L!GraceOver, L!LogExit,
    L!LogExitRaises, L!Phantom, L!IntradayPhantom, L!IntradayResync,
    L!Crash, L!Kept, L!Restart, L!Pass, L!Broker, L!Next, L!FilledBy,
    L!BookedMeansClosed, L!Claims, L!NothingInvented, LP!OrderIds,
    LP!NoOrder, LP!WithStatus, LP!Live, LP!Statuses, LP!vars, LP!broker,
    LP!pollVars, LP!Blank, LP!Unused, LP!ExitMem, LP!Places, LP!TypeOK,
    LP!Init, LP!BrokerFills, LP!BrokerKills, LP!BrokerRejects, LP!Persisted,
    LP!Save, LP!EndPass, LP!Book, LP!Harvest, LP!ReadFills, LP!StartPass,
    LP!StartPolling, LP!FetchPrior, LP!FetchFails, LP!Place,
    LP!SubmitAccepted, LP!SubmitLost, LP!SubmitRefused, LP!SaveOrder,
    LP!Poll, LP!PollAgain, LP!DeadlineCancel, LP!DeadlineCancelFails,
    LP!GraceOver, LP!LogExit, LP!LogExitRaises, LP!Phantom,
    LP!IntradayPhantom, LP!IntradayResync, LP!Crash, LP!Kept, LP!Restart,
    LP!Pass, LP!Broker, LP!Next, LP!FilledBy, LP!BookedMeansClosed,
    LP!Claims, LP!NothingInvented

LEMMA SameClaims ==
  L!NothingInvented /\ L!BookedMeansClosed <=> LP!NothingInvented /\ LP!BookedMeansClosed
  BY DEF
    L!OrderIds, L!NoOrder, L!Live, L!Statuses, L!ExitMem, L!Places,
    L!TypeOK, L!FilledBy, L!BookedMeansClosed, L!Claims, L!NothingInvented,
    LP!OrderIds, LP!NoOrder, LP!Live, LP!Statuses, LP!ExitMem, LP!Places,
    LP!TypeOK, LP!FilledBy, LP!BookedMeansClosed, LP!Claims,
    LP!NothingInvented

-----------------------------------------------------------------------------
(* The assumptions of the instances, from those of GuardedEntry.           *)
LEMMA Assumed ==
  /\ GuardedFaults \subseteq GP!AllFaults /\ GuardedFaults \subseteq GP!GuardedFaults
  /\ SettledFaults \subseteq SP!AllFaults /\ SettledFaults \subseteq SP!SettledFaults
  /\ MaxOrders \in Nat /\ MaxPolls \in Nat /\ MaxCrashes \in Nat
  /\ 1 \in Nat /\ 1 <= 1 /\ 2 \in Nat \ {0}
  /\ {"fetch", "poll", "cancel", "refuse", "save", "crash", "resync",
      "fills", "lost", "posted", "booking", "log"} \subseteq LP!AllFaults
  BY BoundsAssumption
  DEF GuardedFaults, SettledFaults, AllFaults, GP!AllFaults, GP!GuardedFaults,
      SP!AllFaults, SP!SettledFaults, LP!AllFaults

(* Every order left alone, every fault but those that leave an order       *)
(* unknown: errors after a post, failed sweeps and restarts never put two  *)
(* orders of the intent to work at once (order_guard.clear_to_post).       *)
THEOREM GuardedCase == CaseSpec => []GuardedNeverTwo
  <1>1. GP!Spec => []GP!OneLiveEntry
    BY Assumed, SizeAssumption, GP!NeverTwoAtWork
  <1>2. CaseInit => GP!Init
    <2>1. Init <=> G!Init
      BY DEF Init, G!Init, OrderIds, G!OrderIds, NoOrder, G!NoOrder
    <2> QED  BY <2>1, SameGuarded DEF CaseInit
  <1>3. case = "guarded" /\ [CaseNext]_caseVars => (case = "guarded")' /\ [GP!Next]_GP!vars
    <2> SUFFICES ASSUME case = "guarded", [CaseNext]_caseVars
                 PROVE  (case = "guarded")' /\ [G!Next]_G!vars
      BY SameGuarded
    <2>1. UNCHANGED vars <=> UNCHANGED G!vars
      BY DEF vars, broker, rows, call, sweep, history,
             G!vars, G!broker, G!rows, G!call, G!sweep, G!history
    <2> QED  BY <2>1 DEF CaseNext, caseVars
  <1>4. ~(case = "guarded") /\ [CaseNext]_caseVars => ~(case = "guarded")'
    BY DEF CaseNext, caseVars
  <1>5. GP!OneLiveEntry => GuardedNeverTwo
    BY DEF GuardedNeverTwo, OneLiveEntry, GP!OneLiveEntry, OrderIds, GP!OrderIds, Live, GP!Live
  <1>6. ~(case = "guarded") => GuardedNeverTwo  BY DEF GuardedNeverTwo
  <1> QED  BY <1>1, <1>2, <1>3, <1>4, <1>5, <1>6, PTL DEF CaseSpec, GP!Spec

(* Between ticks nothing works and every contract held is in a row, when   *)
(* polls fail, orders are refused and the process is killed once           *)
(* (confirm_order_fill, sweep_working, build_plan).                        *)
THEOREM SettledCase == CaseSpec => []QuietIsSettled
  <1>1. SP!Spec => []SP!SettledWhenIdle
    BY Assumed, SizeAssumption, SP!QuietBooksAreSettled
  <1>2. CaseInit => SP!Init
    <2>1. Init <=> S!Init
      BY DEF Init, S!Init, OrderIds, S!OrderIds, NoOrder, S!NoOrder
    <2> QED  BY <2>1, SameSettled DEF CaseInit
  <1>3. case = "settled" /\ [CaseNext]_caseVars => (case = "settled")' /\ [SP!Next]_SP!vars
    <2> SUFFICES ASSUME case = "settled", [CaseNext]_caseVars
                 PROVE  (case = "settled")' /\ [S!Next]_S!vars
      BY SameSettled
    <2>1. UNCHANGED vars <=> UNCHANGED S!vars
      BY DEF vars, broker, rows, call, sweep, history,
             S!vars, S!broker, S!rows, S!call, S!sweep, S!history
    <2> QED  BY <2>1 DEF CaseNext, caseVars
  <1>4. ~(case = "settled") /\ [CaseNext]_caseVars => ~(case = "settled")'
    BY DEF CaseNext, caseVars
  <1>5. SP!SettledWhenIdle => QuietIsSettled
    BY DEF QuietIsSettled, SettledWhenIdle, SP!SettledWhenIdle, OrderIds, SP!OrderIds,
           Live, SP!Live, NoOrder, SP!NoOrder
  <1>6. ~(case = "settled") => QuietIsSettled  BY DEF QuietIsSettled
  <1> QED  BY <1>1, <1>2, <1>3, <1>4, <1>5, <1>6, PTL DEF CaseSpec, SP!Spec

(* Whatever goes wrong with an exit, the row, the record and the copy      *)
(* never claim a fill the broker did not make, and the row is never booked *)
(* closed with contracts left (LiveExit.step, order_confirm, _close_row).  *)
THEOREM ExitCase == CaseSpec => []ExitInventsNothing
  <1>1. LP!Spec => [](LP!NothingInvented /\ LP!BookedMeansClosed)
    <2>1. LP!Spec => []LP!NothingInvented
      BY Assumed, LP!InventedAlways
    <2>2. LP!Spec => []LP!BookedMeansClosed
      BY Assumed, LP!NeverBookedEarly
    <2> QED  BY <2>1, <2>2, PTL
  <1>2. CaseInit => LP!Init
    BY SameExit DEF CaseInit
  <1>3. [CaseNext]_caseVars => [LP!Next]_LP!vars
    <2> SUFFICES ASSUME [CaseNext]_caseVars PROVE [L!Next]_L!vars
      BY SameExit
    <2>1. UNCHANGED exitVars <=> UNCHANGED L!vars
      BY DEF exitVars, L!vars, L!broker, L!pollVars
    <2> QED  BY <2>1 DEF CaseNext, caseVars
  <1>4. LP!NothingInvented /\ LP!BookedMeansClosed => ExitInventsNothing
    BY SameClaims DEF ExitInventsNothing
  <1> QED  BY <1>1, <1>2, <1>3, <1>4, PTL DEF CaseSpec, LP!Spec
=============================================================================
