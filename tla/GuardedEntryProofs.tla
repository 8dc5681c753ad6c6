------------------------- MODULE GuardedEntryProofs -------------------------
(***************************************************************************)
(* What holds of the live entry whatever the environment does: its types,  *)
(* that the rows never claim more than the broker holds, and that nothing  *)
(* is posted while an order of an earlier process may still fill.  While   *)
(* every order's id is known, no two orders of the intent work at once;    *)
(* and while every order is resolved too, and at most one process dies,    *)
(* the rows between two calls are what the broker holds.  And the measure  *)
(* of its progress: a call, or a boot, is of bounded length.               *)
(***************************************************************************)
EXTENDS GuardedEntry, FiniteSetTheorems, TLAPS

USE SizeAssumption, BoundsAssumption

(* The bounds the types are built from.                                    *)
LEMMA Bounds ==
  /\ NoOrder \notin OrderIds
  /\ 1 \in 1 .. Attempts /\ 0 \in 0 .. MaxPolls /\ 0 \in 0 .. MaxCancels
  /\ 0 \in 0 .. Size /\ 0 \in 0 .. MaxCrashes
  BY DEF OrderIds, NoOrder, MaxCancels

LEMMA TypeInit == Init => TypeOK
  <1> SUFFICES ASSUME Init PROVE TypeOK  OBVIOUS
  <1>1. {"unused"} \subseteq Statuses  BY DEF Statuses, Live, DeadRead
  <1> QED  BY <1>1, Bounds DEF Init, TypeOK, Places

(* A cancel that is accepted, or not, leaves a status in every place.      *)
LEMMA CancelTypes ==
  ASSUME TypeOK, NEW o \in OrderIds, CancelAccepted(o) \/ (CancelRaises(o) /\ UNCHANGED st)
  PROVE  st' \in [OrderIds -> Statuses]
  BY DEF TypeOK, CancelAccepted, Statuses, Live

(* The verdict of a sweep keeps every type.                                *)
LEMMA BootResultTypes ==
  ASSUME TypeOK, NEW ok \in BOOLEAN, BootResult(ok)
  PROVE  TypeOK'
  BY DEF TypeOK, BootResult, broker, rows, call, history, Places

(* Types are kept by the sweep and the reconcile.                          *)
LEMMA SweepTypes == ASSUME TypeOK, Sweep PROVE TypeOK'
  <1>1. CASE SweepLists
    BY <1>1 DEF SweepLists, TypeOK, broker, rows, call, history, Places
  <1>2. CASE SweepUnread  BY <1>2, BootResultTypes DEF SweepUnread
  <1>3. ASSUME NEW o \in OrderIds, SweepCancels(o) PROVE TypeOK'
    <2>1. st' \in [OrderIds -> Statuses]  BY <1>3, CancelTypes DEF SweepCancels
    <2> QED  BY <1>3, <2>1 DEF SweepCancels, TypeOK, rows, call, history
  <1>4. CASE SweepCancelled
    <2>1. CASE bad  BY <1>4, <2>1, BootResultTypes DEF SweepCancelled
    <2>2. CASE ~bad
      BY <1>4, <2>2 DEF SweepCancelled, TypeOK, broker, rows, call, sweep, history, Places
    <2> QED  BY <2>1, <2>2
  <1>5. CASE SweepConfirms  BY <1>5, BootResultTypes DEF SweepConfirms
  <1>6. CASE SweepTimesOut  BY <1>6, BootResultTypes DEF SweepTimesOut
  <1>7. CASE Reconcile
    BY <1>7 DEF Reconcile, TypeOK, broker, call, sweep, history, Places
  <1> QED  BY <1>1, <1>2, <1>3, <1>4, <1>5, <1>6, <1>7 DEF Sweep

(* The order a call names exists while it is confirmed.                    *)
CallNamesOrder == pc \in {"poll", "waiting", "failed", "booking"} => cur # NoOrder

(* Types are kept by every step of a call.                                 *)
LEMMA EnterTypes == ASSUME TypeOK, CallNamesOrder, Enter PROVE TypeOK'
  <1>a. Onward \in Places /\ Excepted \in Places  BY DEF Onward, Excepted, Places
  <1>b. attempt < Attempts => attempt + 1 \in 1 .. Attempts  BY DEF TypeOK
  <1>c. {"unused", "working"} \subseteq Statuses  BY DEF Statuses, Live, DeadRead
  <1>d. ASSUME TryAgain PROVE pc' \in Places /\ attempt' \in 1 .. Attempts
    BY <1>a, <1>b, <1>d DEF TryAgain, TypeOK
  <1>e. ASSUME NEW o \in OrderIds, Place(o)
        PROVE  st' \in [OrderIds -> Statuses] /\ UNCHANGED <<filled, held>>
    BY <1>c, <1>e DEF Place, TypeOK
  <1>1. CASE SuspectClear
    BY <1>1 DEF SuspectClear, TypeOK, broker, rows, call, sweep, history, Places
  <1>2. CASE SuspectHolds
    BY <1>2 DEF SuspectHolds, TypeOK, broker, rows, call, sweep, history, Places
  <1>3. ASSUME NEW o \in OrderIds, Post(o) PROVE TypeOK'
    BY <1>3, <1>e, <1>c, Bounds DEF Post, TypeOK, rows, sweep, history, Places
  <1>4. ASSUME NEW o \in OrderIds, PostLost(o) PROVE TypeOK'
    BY <1>4, <1>e, <1>a DEF PostLost, TypeOK, rows, call, sweep, history
  <1>5. ASSUME NEW o \in OrderIds, PostNoId(o) PROVE TypeOK'
    BY <1>5, <1>e, <1>d DEF PostNoId, TypeOK, rows, sweep, history
  <1>6. CASE PostRefused
    <2>1. pc' \in Places /\ attempt' \in 1 .. Attempts
      BY <1>6, <1>a, <1>d DEF PostRefused, TypeOK, Places
    <2> QED  BY <1>6, <2>1 DEF PostRefused, TypeOK, broker, rows, sweep, history
  <1>7. CASE Poll
    <2>1. cur \in OrderIds  BY <1>7 DEF Poll, TypeOK, CallNamesOrder
    <2>2. ReadFills(cur) \subseteq 0 .. Size  BY <2>1, Bounds DEF ReadFills, TypeOK
    <2>3. seen' \in Statuses  BY <1>7, <2>1 DEF Poll, TypeOK
    <2>4. pc' \in Places /\ attempt' \in 1 .. Attempts /\ fill' \in 0 .. Size
      BY <1>7, <1>d, <2>2 DEF Poll, TypeOK, Places
    <2> QED  BY <1>7, <2>3, <2>4 DEF Poll, TypeOK, broker, rows, sweep, history
  <1>8. CASE PollAgain
    BY <1>8 DEF PollAgain, TypeOK, broker, rows, sweep, history, Places
  <1>9. CASE DeadlineCancels
    <2>1. cur \in OrderIds
      BY <1>9 DEF DeadlineCancels, AtDeadline, TypeOK, CallNamesOrder
    <2>2. st' \in [OrderIds -> Statuses]  BY <1>9, <2>1, CancelTypes DEF DeadlineCancels
    <2> QED
      BY <1>9, <2>2, Bounds
      DEF DeadlineCancels, TypeOK, rows, sweep, history, Places, MaxCancels
  <1>10. CASE DeadlineCancelRaises
    BY <1>10, Bounds
    DEF DeadlineCancelRaises, TypeOK, broker, rows, sweep, history, Places, MaxCancels
  <1>11. CASE Unresolved
    BY <1>11 DEF Unresolved, TypeOK, broker, rows, call, sweep, history, Places
  <1>12. CASE ConfirmRaises
    BY <1>12 DEF ConfirmRaises, TypeOK, broker, rows, call, sweep, history, Places
  <1>13. CASE AfterFailure
    <2>1. cur \in OrderIds  BY <1>13 DEF AfterFailure, TypeOK, CallNamesOrder
    <2>2. st' \in [OrderIds -> Statuses]  BY <1>13, <2>1, CancelTypes DEF AfterFailure
    <2> QED
      BY <1>13, <2>1, <2>2 DEF AfterFailure, TypeOK, rows, call, sweep, history, Places
  <1>14. CASE LogEntry
    BY <1>14 DEF LogEntry, TypeOK, broker, call, sweep, history, Places
  <1>15. CASE LogEntryRaises
    BY <1>15 DEF LogEntryRaises, TypeOK, broker, rows, call, sweep, history, Places
  <1> QED
    BY <1>1, <1>2, <1>3, <1>4, <1>5, <1>6, <1>7, <1>8, <1>9, <1>10, <1>11, <1>12,
       <1>13, <1>14, <1>15 DEF Enter

(* Types are kept by the broker.                                           *)
LEMMA BrokerTypes == ASSUME TypeOK, Broker PROVE TypeOK'
  <1>1. ASSUME NEW o \in OrderIds, NEW n \in 1 .. Size, BrokerFills(o, n) PROVE TypeOK'
    <2>1. filled[o] + n \in 0 .. Size  BY <1>1 DEF BrokerFills, TypeOK
    <2>2. filled' \in [OrderIds -> 0 .. Size]  BY <1>1, <2>1 DEF BrokerFills, TypeOK
    <2>3. st' \in [OrderIds -> Statuses]  BY <1>1 DEF BrokerFills, TypeOK, Statuses
    <2>4. held' \in Nat  BY <1>1 DEF BrokerFills, TypeOK
    <2> QED  BY <1>1, <2>2, <2>3, <2>4 DEF BrokerFills, TypeOK, rows, call, sweep, history
  <1>2. ASSUME NEW o \in OrderIds, NEW how \in {"dead", "rejected"}, BrokerEnds(o, how)
        PROVE  TypeOK'
    <2>1. st' \in [OrderIds -> Statuses]
      BY <1>2 DEF BrokerEnds, TypeOK, Statuses, DeadRead
    <2> QED  BY <1>2, <2>1 DEF BrokerEnds, TypeOK, rows, call, sweep, history
  <1> QED  BY <1>1, <1>2 DEF Broker

(* Types are kept by every step.                                           *)
LEMMA TypeStep == ASSUME TypeOK, CallNamesOrder, [Next]_vars PROVE TypeOK'
  <1>1. CASE Signal
    BY <1>1, Bounds DEF Signal, TypeOK, broker, rows, sweep, history, Places, Statuses
  <1>2. CASE Crash
    <2>1. crashes' \in 0 .. MaxCrashes  BY <1>2 DEF Crash, TypeOK
    <2>2. stale' \subseteq OrderIds  BY <1>2 DEF Crash
    <2> QED
      BY <1>2, <2>1, <2>2, Bounds DEF Crash, TypeOK, broker, rows, Places, Statuses
  <1>3. CASE UNCHANGED vars
    BY <1>3 DEF vars, TypeOK, broker, rows, call, sweep, history
  <1> QED
    BY <1>1, <1>2, <1>3, SweepTypes, EnterTypes, BrokerTypes DEF Next
-----------------------------------------------------------------------------
(* The rows against the broker's book.                                     *)

LEMMA BooksInit == Init => BooksSound
  <1> SUFFICES ASSUME Init PROVE BooksSound  OBVIOUS
  <1>1. TypeOK  BY TypeInit
  <1> QED
    BY <1>1 DEF Init, BooksSound, NeverRecordsMore, Committed, InCall

LEMMA NamesOrder == BooksSound => TypeOK /\ CallNamesOrder
  BY DEF BooksSound, CallNamesOrder

(* A sweep moves statuses only, and a reconcile adopts into empty rows.    *)
LEMMA SweepBooks == ASSUME BooksSound, Sweep PROVE BooksSound'
  <1>t. TypeOK /\ TypeOK'  BY SweepTypes DEF BooksSound
  <1>1. CASE Reconcile
    <2>1. own' = own /\ UNCHANGED <<st, filled, held, cur, fill>> /\ pc' = "idle"
      BY <1>1 DEF Reconcile, broker, call
    <2>2. adopted' = adopted \/ (own = 0 /\ adopted' = held)
      BY <1>1 DEF Reconcile
    <2>3. own \in Nat /\ held \in Nat /\ own + adopted <= held
      BY <1>t DEF BooksSound, NeverRecordsMore, TypeOK
    <2>4. own' + adopted' <= held'  BY <2>1, <2>2, <2>3
    <2> QED  BY <1>t, <2>1, <2>4 DEF BooksSound, NeverRecordsMore, Committed, InCall
  <1>2. ASSUME NEW ok \in BOOLEAN, BootResult(ok), pc \in {"sweep", "cancel", "confirm"}
        PROVE  BooksSound'
    <2>1. UNCHANGED <<st, filled, held, own, adopted, cur, fill>>
      BY <1>2 DEF BootResult, broker, rows, call
    <2>2. \/ pc' = "reconcile" \/ pc' = "idle"
          \/ pc' = "suspect" /\ boot # "unswept"
      BY <1>2 DEF BootResult
    <2> QED
      BY <1>t, <1>2, <2>1, <2>2 DEF BooksSound, NeverRecordsMore, Committed, InCall
  <1>3. CASE SweepLists
    <2>1. UNCHANGED <<st, filled, held, own, adopted, boot, cur, fill>>
          /\ pc = "sweep" /\ pc' = "cancel"
      BY <1>3 DEF SweepLists, broker, rows, call
    <2> QED  BY <1>t, <2>1 DEF BooksSound, NeverRecordsMore, Committed, InCall
  <1>4. ASSUME NEW o \in OrderIds, SweepCancels(o) PROVE BooksSound'
    <2>1. UNCHANGED <<filled, held, own, adopted, boot, pc, cur, fill>> /\ pc = "cancel"
      BY <1>4 DEF SweepCancels, rows, call
    <2>2. \A p \in OrderIds : st'[p] = "unused" => st[p] = "unused"
      BY <1>4, <1>t DEF SweepCancels, CancelAccepted, TypeOK
    <2> QED  BY <1>t, <2>1, <2>2 DEF BooksSound, NeverRecordsMore, Committed, InCall
  <1>5. CASE SweepCancelled
    <2>1. CASE bad  BY <1>2, <1>5, <2>1 DEF SweepCancelled
    <2>2. CASE ~bad
      <3>1. UNCHANGED <<st, filled, held, own, adopted, boot, cur, fill>>
            /\ pc = "cancel" /\ pc' = "confirm"
        BY <1>5, <2>2 DEF SweepCancelled, broker, rows, call
      <3> QED  BY <1>t, <3>1 DEF BooksSound, NeverRecordsMore, Committed, InCall
    <2> QED  BY <2>1, <2>2
  <1>6. CASE SweepUnread    BY <1>2, <1>6 DEF SweepUnread
  <1>7. CASE SweepConfirms  BY <1>2, <1>7 DEF SweepConfirms
  <1>8. CASE SweepTimesOut  BY <1>2, <1>8 DEF SweepTimesOut
  <1> QED  BY <1>1, <1>3, <1>4, <1>5, <1>6, <1>7, <1>8 DEF Sweep

(* A call records at most what its own order has filled.                   *)
LEMMA EnterBooks == ASSUME BooksSound, Enter PROVE BooksSound'
  <1>t. TypeOK /\ TypeOK'  BY EnterTypes, NamesOrder
  <1>c. InCall => own = 0  BY DEF BooksSound, Committed
  <1>a. ASSUME UNCHANGED <<st, filled, held, own, adopted, cur>>, InCall,
               pc' \in {"idle", "submit", "failed", "poll", "waiting"},
               pc' \in {"failed", "poll", "waiting"} => cur # NoOrder
        PROVE  BooksSound'
    BY <1>a, <1>c, <1>t DEF BooksSound, NeverRecordsMore, Committed, InCall
  <1>p. ASSUME NEW o \in OrderIds, Place(o), UNCHANGED rows
        PROVE  /\ NeverRecordsMore' /\ adopted' + filled'[o] <= held'
               /\ \A p \in OrderIds : st'[p] = "unused" => filled'[p] = 0
    <2>1. filled'[o] = 0 /\ UNCHANGED <<filled, held, own, adopted>>
      BY <1>p DEF Place, BooksSound, rows
    <2>2. \A p \in OrderIds : st'[p] = "unused" => st[p] = "unused"
      BY <1>p, <1>t DEF Place, TypeOK
    <2>3. adopted <= held  BY <1>t DEF BooksSound, NeverRecordsMore, TypeOK
    <2> QED  BY <2>1, <2>2, <2>3, <1>t DEF BooksSound, NeverRecordsMore, TypeOK
  <1>1. CASE SuspectClear
    <2>1. UNCHANGED <<st, filled, held, own, adopted, cur, fill>>
          /\ pc = "suspect" /\ pc' = "submit"
      BY <1>1 DEF SuspectClear, broker, rows, call
    <2> QED  BY <1>a, <2>1 DEF InCall
  <1>2. CASE SuspectHolds
    <2>1. UNCHANGED <<st, filled, held, own, adopted, cur, fill>>
          /\ pc = "suspect" /\ pc' = "idle"
      BY <1>2 DEF SuspectHolds, broker, rows, call
    <2> QED  BY <1>a, <2>1 DEF InCall
  <1>3. ASSUME NEW o \in OrderIds, Post(o) PROVE BooksSound'
    <2>1. UNCHANGED rows /\ Place(o) /\ cur' = o /\ pc = "submit" /\ pc' = "poll"
      BY <1>3 DEF Post
    <2>2. o # NoOrder  BY Bounds
    <2>3. own' = 0  BY <2>1, <1>c DEF rows, InCall
    <2> QED
      BY <2>1, <2>2, <2>3, <1>p, <1>t DEF BooksSound, Committed, InCall
  <1>4. ASSUME NEW o \in OrderIds, PostLost(o) PROVE BooksSound'
    <2>1. UNCHANGED rows /\ Place(o) /\ cur' = cur /\ pc = "submit"
          /\ pc' = Excepted
      BY <1>4 DEF PostLost, call
    <2>2. own' = 0  BY <2>1, <1>c DEF rows, InCall
    <2>3. pc' \in {"idle", "failed"} /\ (pc' = "failed" => cur' # NoOrder)
      BY <2>1 DEF Excepted
    <2>4. cur' # NoOrder => adopted' + filled'[cur'] <= held'
      BY <2>1, <1>t DEF Place, rows, BooksSound, Committed, InCall
    <2> QED  BY <2>2, <2>3, <2>4, <1>p, <2>1, <1>t DEF BooksSound, Committed, InCall
  <1>5. ASSUME NEW o \in OrderIds, PostNoId(o) PROVE BooksSound'
    <2>1. UNCHANGED rows /\ Place(o) /\ cur' = NoOrder /\ pc = "submit" /\ pc' = Onward
      BY <1>5 DEF PostNoId, TryAgain
    <2>2. own' = 0  BY <2>1, <1>c DEF rows, InCall
    <2>3. pc' \in {"submit", "idle"}  BY <2>1 DEF Onward
    <2> QED  BY <2>1, <2>2, <2>3, <1>p, <1>t DEF BooksSound, Committed, InCall
  <1>6. CASE PostRefused
    <2>1. UNCHANGED <<st, filled, held, own, adopted, cur>> /\ pc = "submit"
      BY <1>6 DEF PostRefused, broker, rows
    <2>2. pc' \in {"idle", "submit"} \/ (pc' = "failed" /\ cur # NoOrder)
      BY <1>6 DEF PostRefused, TryAgain, Onward, Excepted
    <2> QED  BY <1>a, <2>1, <2>2 DEF InCall
  <1>7. CASE Poll
    <2>1. UNCHANGED <<st, filled, held, own, adopted, cur>> /\ pc = "poll" /\ cur # NoOrder
      BY <1>7 DEF Poll, broker, rows, BooksSound
    <2>2. \/ pc' \in {"idle", "submit", "waiting"}
          \/ pc' = "booking" /\ fill' \in ReadFills(cur)
      BY <1>7 DEF Poll, TryAgain, Onward
    <2>3. CASE pc' = "booking" /\ fill' \in ReadFills(cur)
      <3>1. fill' <= filled[cur]  BY <2>1, <2>3, <1>t DEF ReadFills, TypeOK
      <3> QED  BY <2>1, <2>3, <3>1, <1>c, <1>t DEF BooksSound, NeverRecordsMore, Committed, InCall
    <2> QED  BY <1>a, <2>1, <2>2, <2>3 DEF InCall
  <1>8. CASE PollAgain \/ DeadlineCancelRaises \/ Unresolved \/ ConfirmRaises
    <2>1. UNCHANGED <<st, filled, held, own, adopted, cur>>
          /\ pc \in {"poll", "waiting"} /\ pc' \in {"idle", "poll", "failed"}
      BY <1>8 DEF PollAgain, DeadlineCancelRaises, Unresolved, ConfirmRaises,
                  AtDeadline, broker, rows, call
    <2>2. cur # NoOrder  BY <2>1 DEF BooksSound
    <2> QED  BY <1>a, <2>1, <2>2 DEF InCall
  <1>9. CASE DeadlineCancels \/ AfterFailure
    <2>1. UNCHANGED <<filled, held, own, adopted, cur>>
          /\ pc \in {"waiting", "failed"} /\ pc' \in {"poll", "idle"}
      BY <1>9 DEF DeadlineCancels, AfterFailure, AtDeadline, rows, call
    <2>2. \A p \in OrderIds : st'[p] = "unused" => st[p] = "unused"
      BY <1>9, <1>t DEF DeadlineCancels, AfterFailure, CancelAccepted, TypeOK
    <2>3. cur # NoOrder  BY <2>1 DEF BooksSound
    <2> QED
      BY <2>1, <2>2, <2>3, <1>c, <1>t DEF BooksSound, NeverRecordsMore, Committed, InCall
  <1>10. CASE LogEntry
    <2>1. UNCHANGED <<st, filled, held, adopted, cur>> /\ own' = fill
          /\ pc = "booking" /\ pc' = "idle"
      BY <1>10 DEF LogEntry, broker, call
    <2>2. cur \in OrderIds /\ fill <= filled[cur] /\ adopted + filled[cur] <= held
      BY <2>1, <1>t DEF BooksSound, Committed, InCall, TypeOK
    <2>3. own' + adopted' <= held'  BY <2>1, <2>2, <1>t DEF TypeOK
    <2> QED  BY <2>1, <2>3, <1>t DEF BooksSound, NeverRecordsMore, Committed, InCall
  <1>11. CASE LogEntryRaises
    <2>1. UNCHANGED <<st, filled, held, own, adopted, cur>>
          /\ pc = "booking" /\ pc' = "idle"
      BY <1>11 DEF LogEntryRaises, broker, rows, call
    <2> QED  BY <1>a, <2>1 DEF InCall
  <1> QED
    BY <1>1, <1>2, <1>3, <1>4, <1>5, <1>6, <1>7, <1>8, <1>9, <1>10, <1>11 DEF Enter

(* A fill adds to the order and to the broker's book alike.                *)
LEMMA BrokerBooks == ASSUME BooksSound, Broker PROVE BooksSound'
  <1>t. TypeOK /\ TypeOK'  BY BrokerTypes, NamesOrder
  <1>1. ASSUME NEW o \in OrderIds, NEW n \in 1 .. Size, BrokerFills(o, n) PROVE BooksSound'
    <2>1. UNCHANGED <<own, adopted, boot, pc, cur, fill>> /\ held' = held + n
      BY <1>1 DEF BrokerFills, rows, call
    <2>2. \A p \in OrderIds : /\ st'[p] = "unused" => st[p] = "unused" /\ p # o
                              /\ filled'[p] = IF p = o THEN filled[p] + n ELSE filled[p]
      BY <1>1, <1>t DEF BrokerFills, TypeOK, Live
    <2>3. NeverRecordsMore'
      BY <2>1, <1>t DEF BooksSound, NeverRecordsMore, TypeOK
    <2>4. \A p \in OrderIds : st'[p] = "unused" => filled'[p] = 0
      BY <2>2 DEF BooksSound
    <2>5. ASSUME Committed', cur' # NoOrder
          PROVE  adopted' + filled'[cur'] <= held'
      <3>1. cur \in OrderIds /\ adopted + filled[cur] <= held
        BY <2>1, <2>5, <1>t DEF BooksSound, Committed, InCall, TypeOK
      <3> QED  BY <2>1, <2>2, <3>1, <1>t DEF TypeOK
    <2>6. Committed' => own' = 0  BY <2>1 DEF BooksSound, Committed, InCall
    <2>7. pc' = "booking" => fill' <= filled'[cur']
      <3> SUFFICES ASSUME pc' = "booking" PROVE fill' <= filled'[cur']  OBVIOUS
      <3>1. cur \in OrderIds /\ fill <= filled[cur]
        BY <2>1, <1>t DEF BooksSound, TypeOK
      <3> QED  BY <2>1, <2>2, <3>1, <1>t DEF TypeOK
    <2> QED
      BY <2>1, <2>3, <2>4, <2>5, <2>6, <2>7, <1>t DEF BooksSound
  <1>2. ASSUME NEW o \in OrderIds, NEW how \in {"dead", "rejected"}, BrokerEnds(o, how)
        PROVE  BooksSound'
    <2>1. UNCHANGED <<filled, held, own, adopted, boot, pc, cur, fill>>
      BY <1>2 DEF BrokerEnds, rows, call
    <2>2. \A p \in OrderIds : st'[p] = "unused" => st[p] = "unused"
      BY <1>2, <1>t DEF BrokerEnds, TypeOK
    <2> QED  BY <2>1, <2>2, <1>t DEF BooksSound, NeverRecordsMore, Committed, InCall
  <1> QED  BY <1>1, <1>2 DEF Broker

LEMMA BooksStep == ASSUME BooksSound, [Next]_vars PROVE BooksSound'
  <1>t. TypeOK /\ TypeOK'  BY TypeStep, NamesOrder
  <1>1. CASE Signal
    <2>1. UNCHANGED <<st, filled, held, own, adopted, boot>> /\ own = 0
          /\ cur' = NoOrder /\ pc' \in {"suspect", "sweep"}
      BY <1>1 DEF Signal, broker, rows
    <2> QED  BY <2>1, <1>t DEF BooksSound, NeverRecordsMore, Committed, InCall
  <1>2. CASE Crash
    <2>1. UNCHANGED <<st, filled, held, own, adopted>> /\ boot' = "unswept" /\ pc' = "sweep"
      BY <1>2 DEF Crash, broker, rows
    <2> QED  BY <2>1, <1>t DEF BooksSound, NeverRecordsMore, Committed, InCall
  <1>3. CASE UNCHANGED vars
    <2>1. UNCHANGED <<st, filled, held, own, adopted, boot, pc, cur, fill>>
      BY <1>3 DEF vars, broker, rows, call
    <2> QED  BY <2>1, <1>t DEF BooksSound, NeverRecordsMore, Committed, InCall
  <1> QED  BY <1>1, <1>2, <1>3, SweepBooks, EnterBooks, BrokerBooks DEF Next

LEMMA BooksAlways == Spec => []BooksSound
  BY BooksInit, BooksStep, PTL DEF Spec

(* Under every fault, every reachable state is well typed.                 *)
THEOREM TypeCorrect == Spec => []TypeOK
  <1>1. BooksSound => TypeOK  BY DEF BooksSound
  <1> QED  BY <1>1, BooksAlways, PTL

(* Under every fault and any number of restarts, the rows never claim a    *)
(* contract the broker does not hold (EntryEngine.enter, build_plan).      *)
THEOREM RecordsNoMore == Spec => []NeverRecordsMore
  <1>1. BooksSound => NeverRecordsMore  BY DEF BooksSound
  <1> QED  BY <1>1, BooksAlways, PTL

-----------------------------------------------------------------------------
(* The orders of earlier processes.                                        *)

LEMMA SweptInit == Init => BookSwept
  <1> SUFFICES ASSUME Init PROVE BookSwept  OBVIOUS
  <1>1. TypeOK  BY TypeInit
  <1> QED  BY <1>1 DEF Init, BookSwept, StaleLive, InCall

(* An order posted stays posted, and one that is over stays over.          *)
NoneRevived ==
  \A o \in OrderIds : st[o] # "unused" =>
    st'[o] # "unused" /\ (st'[o] \in Live => st[o] \in Live)

(* Once an order is not live it stays so: a step other than a post or a    *)
(* start adds nothing to what may still fill of earlier processes.         *)
LEMMA StaleShrinks ==
  ASSUME TypeOK, \A o \in stale : st[o] # "unused",
         stale' = stale, NoneRevived
  PROVE  StaleLive' \subseteq StaleLive /\ \A o \in stale' : st'[o] # "unused"
  BY DEF TypeOK, StaleLive, NoneRevived

LEMMA SweepSwept == ASSUME BookSwept, TypeOK', Sweep PROVE BookSwept'
  <1>t. TypeOK  BY DEF BookSwept
  <1>1. CASE Reconcile
    <2>1. UNCHANGED <<st, stale, boot>> /\ pc' = "idle"
      BY <1>1 DEF Reconcile, broker, history
    <2> QED  BY <2>1 DEF BookSwept, StaleLive, InCall
  <1>2. ASSUME NEW ok \in BOOLEAN, BootResult(ok), ok => StaleLive = {}
        PROVE  BookSwept'
    <2>1. UNCHANGED <<st, stale>> /\ (boot' = "clean" <=> ok)
      BY <1>2 DEF BootResult, broker, history
    <2>2. pc' \in {"reconcile", "idle"} \/ (pc' = "suspect" /\ ok)
      BY <1>2 DEF BootResult
    <2> QED  BY <1>2, <2>1, <2>2 DEF BookSwept, StaleLive, InCall
  <1>3. CASE SweepLists
    <2>1. UNCHANGED <<st, stale, boot>> /\ pc' = "cancel"
          /\ todo' = {o \in OrderIds : st[o] = "working"}
          /\ bad' = (\E o \in OrderIds : st[o] = "cancelling")
      BY <1>3 DEF SweepLists, broker, history
    <2>2. ~bad' => StaleLive' \subseteq todo'
      BY <2>1, <1>t DEF StaleLive, Live, TypeOK
    <2> QED  BY <2>1, <2>2 DEF BookSwept, StaleLive, InCall
  <1>4. ASSUME NEW o \in OrderIds, SweepCancels(o) PROVE BookSwept'
    <2>1. UNCHANGED <<stale, boot, pc>> /\ pc = "cancel" /\ todo' = todo \ {o}
      BY <1>4 DEF SweepCancels, history
    <2>2. StaleLive' \subseteq StaleLive /\ \A p \in stale' : st'[p] # "unused"
      <3>1. NoneRevived
        BY <1>4, <1>t DEF SweepCancels, CancelAccepted, TypeOK, Live, NoneRevived
      <3> QED  BY <2>1, <3>1, StaleShrinks DEF BookSwept
    <2>3. bad' \/ (~bad /\ asked' = asked \cup {o})
      BY <1>4, <1>t DEF SweepCancels, TypeOK
    <2> QED  BY <2>1, <2>2, <2>3 DEF BookSwept, InCall
  <1>5. CASE SweepCancelled
    <2>1. CASE bad  BY <1>2, <1>5, <2>1 DEF SweepCancelled
    <2>2. CASE ~bad
      <3>1. UNCHANGED <<st, stale, boot, asked>> /\ todo = {} /\ pc = "cancel"
            /\ pc' = "confirm"
        BY <1>5, <2>2 DEF SweepCancelled, broker, history, sweep
      <3> QED  BY <2>2, <3>1 DEF BookSwept, StaleLive, InCall
    <2> QED  BY <2>1, <2>2
  <1>6. CASE SweepUnread    BY <1>2, <1>6 DEF SweepUnread
  <1>7. CASE SweepConfirms
    <2>1. StaleLive = {}  BY <1>7 DEF SweepConfirms, BookSwept, StaleLive
    <2> QED  BY <1>2, <1>7, <2>1 DEF SweepConfirms
  <1>8. CASE SweepTimesOut  BY <1>2, <1>8 DEF SweepTimesOut
  <1> QED  BY <1>1, <1>3, <1>4, <1>5, <1>6, <1>7, <1>8 DEF Sweep

LEMMA EnterSwept == ASSUME BookSwept, TypeOK', CallNamesOrder, Enter PROVE BookSwept'
  <1>t. TypeOK  BY DEF BookSwept
  <1>1. InCall /\ UNCHANGED <<stale, boot>> /\ pc' \notin {"cancel", "confirm"}
    BY DEF Enter, SuspectClear, SuspectHolds, Post, PostLost, PostNoId, PostRefused,
           Poll, PollAgain, DeadlineCancels, DeadlineCancelRaises, Unresolved,
           ConfirmRaises, AfterFailure, LogEntry, LogEntryRaises, AtDeadline,
           TryAgain, Onward, Excepted, history, InCall
  <1>2. NoneRevived
    <2>1. CASE UNCHANGED st  BY <2>1 DEF NoneRevived
    <2>2. ASSUME NEW o \in OrderIds, Place(o) PROVE NoneRevived
      BY <2>2, <1>t DEF Place, TypeOK, NoneRevived
    <2>3. CASE cur \in OrderIds /\ CancelAccepted(cur)
      BY <2>3, <1>t DEF CancelAccepted, TypeOK, Live, NoneRevived
    <2>4. cur \in OrderIds \/ pc \notin {"waiting", "failed"}
      BY <1>t DEF CallNamesOrder, TypeOK
    <2> QED
      BY <2>1, <2>2, <2>3, <2>4
      DEF Enter, SuspectClear, SuspectHolds, Post, PostLost, PostNoId, PostRefused,
          Poll, PollAgain, DeadlineCancels, DeadlineCancelRaises, Unresolved,
          ConfirmRaises, AfterFailure, LogEntry, LogEntryRaises, AtDeadline, broker
  <1>3. StaleLive' \subseteq StaleLive /\ \A o \in stale' : st'[o] # "unused"
    BY <1>t, <1>1, <1>2, StaleShrinks DEF BookSwept
  <1> QED  BY <1>1, <1>3 DEF BookSwept

LEMMA SweptStep == ASSUME BookSwept, TypeOK', CallNamesOrder, [Next]_vars PROVE BookSwept'
  <1>t. TypeOK  BY DEF BookSwept
  <1>1. CASE Signal
    <2>1. UNCHANGED <<st, stale, boot>> /\ (pc' = "sweep" \/ (pc' = "suspect" /\ boot = "clean"))
      BY <1>1 DEF Signal, broker, history
    <2> QED  BY <2>1 DEF BookSwept, StaleLive, InCall
  <1>2. CASE Crash
    <2>1. st' = st /\ stale' = {o \in OrderIds : st[o] # "unused"}
          /\ boot' = "unswept" /\ pc' = "sweep"
      BY <1>2 DEF Crash, broker
    <2> QED  BY <2>1 DEF BookSwept, InCall
  <1>3. CASE UNCHANGED vars
    <2>1. UNCHANGED <<st, stale, boot, pc, todo, asked, bad>>
      BY <1>3 DEF vars, broker, sweep, history
    <2> QED  BY <2>1 DEF BookSwept, StaleLive, InCall
  <1>4. CASE Broker
    <2>1. UNCHANGED <<stale, boot, pc, todo, asked, bad>>
      BY <1>4 DEF Broker, BrokerFills, BrokerEnds, sweep, history
    <2>2. NoneRevived
      BY <1>4, <1>t DEF Broker, BrokerFills, BrokerEnds, TypeOK, Live, NoneRevived
    <2>3. StaleLive' \subseteq StaleLive /\ \A o \in stale' : st'[o] # "unused"
      BY <1>t, <2>1, <2>2, StaleShrinks DEF BookSwept
    <2> QED  BY <2>1, <2>3 DEF BookSwept, InCall
  <1> QED  BY <1>1, <1>2, <1>3, <1>4, SweepSwept, EnterSwept DEF Next

LEMMA SweptAlways == Spec => []BookSwept
  <1>1. BooksSound => TypeOK /\ CallNamesOrder  BY NamesOrder
  <1>2. BookSwept /\ CallNamesOrder /\ TypeOK' /\ [Next]_vars => BookSwept'
    BY SweptStep
  <1> QED  BY <1>1, <1>2, SweptInit, BooksAlways, PTL DEF Spec

(* A step that posts finds the book clean.                                 *)
LEMMA PostStep ==
  ASSUME BookSwept, [Next]_vars, NEW o \in OrderIds, st[o] = "unused", st'[o] # "unused"
  PROVE  \A p \in stale : st[p] \notin Live
  <1>t. TypeOK  BY DEF BookSwept
  <1>1. CASE pc = "submit"
    BY <1>1 DEF BookSwept, InCall, StaleLive
  <1>2. CASE pc # "submit"
    <2>1. CASE Enter
      <3>1. UNCHANGED st \/ CancelAccepted(cur)
        BY <1>2, <2>1
        DEF Enter, SuspectClear, SuspectHolds, Post, PostLost, PostNoId, PostRefused,
            Poll, PollAgain, DeadlineCancels, DeadlineCancelRaises, Unresolved,
            ConfirmRaises, AfterFailure, LogEntry, LogEntryRaises, broker
      <3> QED  BY <3>1, <1>t DEF CancelAccepted, TypeOK, Live
    <2>2. CASE Sweep
      <3>1. UNCHANGED st \/ \E q \in OrderIds : CancelAccepted(q)
        BY <2>2 DEF Sweep, SweepLists, SweepUnread, SweepCancels, SweepCancelled,
                    SweepConfirms, SweepTimesOut, Reconcile, BootResult, broker
      <3> QED  BY <3>1, <1>t DEF CancelAccepted, TypeOK, Live
    <2>3. CASE Broker
      BY <2>3, <1>t DEF Broker, BrokerFills, BrokerEnds, TypeOK, Live
    <2>4. CASE Signal \/ Crash \/ UNCHANGED vars
      BY <2>4 DEF Signal, Crash, vars, broker
    <2> QED  BY <2>1, <2>2, <2>3, <2>4 DEF Next
  <1> QED  BY <1>1, <1>2

(* Under every fault and any number of restarts, an order is posted only   *)
(* when none of an earlier process can still fill (clear_to_post).         *)
THEOREM CleanBookBeforePost == Spec => PostsOnCleanBook
  <1>1. BookSwept /\ [Next]_vars =>
          [\A o \in OrderIds : st[o] = "unused" /\ st'[o] # "unused" =>
             \A p \in stale : st[p] \notin Live]_vars
    BY PostStep
  <1> QED  BY <1>1, SweptAlways, PTL DEF Spec, PostsOnCleanBook

-----------------------------------------------------------------------------
(* One order of the intent at a time.                                      *)

(* A step that posts nothing lets no further order fill.                   *)
NothingPosted ==
  \A o \in OrderIds :
    /\ st'[o] # "unused" => st[o] # "unused"
    /\ st'[o] \in Live => st[o] \in Live

LEMMA QuietStep ==
  ASSUME OneLiveEntry, NothingPosted
  PROVE  OneLiveEntry' /\ Working' \subseteq Working
  BY DEF OneLiveEntry, NothingPosted, Working

(* Cancels, fills and ends post nothing.                                   *)
LEMMA CancelPostsNothing ==
  ASSUME TypeOK, NEW o \in OrderIds, CancelAccepted(o) \/ UNCHANGED st
  PROVE  NothingPosted
  BY DEF TypeOK, CancelAccepted, Live, NothingPosted

LEMMA BrokerPostsNothing == ASSUME TypeOK, Broker PROVE NothingPosted
  BY DEF TypeOK, Broker, BrokerFills, BrokerEnds, Live, NothingPosted

LEMMA OneInit == Init => OneAtATime
  <1> SUFFICES ASSUME Init PROVE OneAtATime  OBVIOUS
  <1>1. \A o \in OrderIds : st[o] = "unused"  BY DEF Init
  <1> QED  BY <1>1, SweptInit DEF Init, OneAtATime, OneLiveEntry, Live

(* Before the sweep is clean all that works is an earlier process's.       *)
LEMMA SweepOne == ASSUME OneAtATime, BookSwept', Sweep PROVE OneAtATime'
  <1>t. TypeOK /\ BookSwept  BY DEF OneAtATime, BookSwept
  <1>1. CASE Reconcile
    <2>1. UNCHANGED <<st, stale, boot>> /\ pc = "reconcile" /\ pc' = "idle"
      BY <1>1 DEF Reconcile, broker, history
    <2> QED  BY <2>1 DEF OneAtATime, OneLiveEntry, Working, Watched
  <1>2. ASSUME NEW ok \in BOOLEAN, BootResult(ok), ok => StaleLive = {}, boot # "clean"
        PROVE  OneAtATime'
    <2>1. UNCHANGED <<st, stale>> /\ (boot' = "clean" => ok)
      BY <1>2 DEF BootResult, broker, history
    <2>2. pc' \in {"reconcile", "idle", "suspect"}
      BY <1>2 DEF BootResult
    <2>3. Working' \subseteq StaleLive
      BY <1>2, <2>1 DEF OneAtATime, Working, StaleLive, Live
    <2> QED  BY <1>2, <2>1, <2>2, <2>3 DEF OneAtATime, OneLiveEntry
  <1>3. CASE SweepLists
    <2>1. UNCHANGED <<st, stale, boot>> /\ pc' = "cancel" /\ pc = "sweep"
      BY <1>3 DEF SweepLists, broker, history
    <2> QED  BY <2>1 DEF OneAtATime, OneLiveEntry
  <1>4. ASSUME NEW o \in OrderIds, SweepCancels(o) PROVE OneAtATime'
    <2>1. UNCHANGED <<stale, boot, pc>> /\ pc = "cancel"
      BY <1>4 DEF SweepCancels, history
    <2>2. NothingPosted
      BY <1>4, <1>t, CancelPostsNothing DEF SweepCancels
    <2>3. OneLiveEntry'  BY <2>2, QuietStep DEF OneAtATime
    <2> QED  BY <2>1, <2>2, <2>3 DEF OneAtATime, NothingPosted
  <1>5. CASE SweepCancelled
    <2>1. CASE bad  BY <1>2, <1>5, <2>1 DEF SweepCancelled, OneAtATime
    <2>2. CASE ~bad
      <3>1. UNCHANGED <<st, stale, boot>> /\ pc = "cancel" /\ pc' = "confirm"
        BY <1>5, <2>2 DEF SweepCancelled, broker, history
      <3> QED  BY <3>1 DEF OneAtATime, OneLiveEntry
    <2> QED  BY <2>1, <2>2
  <1>6. CASE SweepUnread    BY <1>2, <1>6 DEF SweepUnread, OneAtATime
  <1>7. CASE SweepConfirms
    <2>1. StaleLive = {}  BY <1>7, <1>t DEF SweepConfirms, BookSwept, StaleLive
    <2> QED  BY <1>2, <1>7, <2>1 DEF SweepConfirms, OneAtATime
  <1>8. CASE SweepTimesOut  BY <1>2, <1>8 DEF SweepTimesOut, OneAtATime
  <1> QED  BY <1>1, <1>3, <1>4, <1>5, <1>6, <1>7, <1>8 DEF Sweep

(* A call posts when nothing works, and leaves an order that may work to   *)
(* its own confirmation or to the suspect.                                 *)
LEMMA EnterOne ==
  ASSUME Faults \subseteq GuardedFaults, OneAtATime, BookSwept', CallNamesOrder, Enter
  PROVE  OneAtATime'
  <1>t. TypeOK /\ TypeOK' /\ BookSwept  BY DEF OneAtATime, BookSwept
  <1>b. boot = "clean" /\ UNCHANGED <<boot, stale>>
        /\ pc' \notin {"sweep", "cancel", "confirm", "reconcile"}
    <2>1. InCall
      BY DEF Enter, SuspectClear, SuspectHolds, Post, PostLost, PostNoId, PostRefused,
             Poll, PollAgain, DeadlineCancels, DeadlineCancelRaises, Unresolved,
             ConfirmRaises, AfterFailure, LogEntry, LogEntryRaises, AtDeadline, InCall
    <2>2. UNCHANGED <<boot, stale>> /\ pc' \notin {"sweep", "cancel", "confirm", "reconcile"}
      BY DEF Enter, SuspectClear, SuspectHolds, Post, PostLost, PostNoId, PostRefused,
             Poll, PollAgain, DeadlineCancels, DeadlineCancelRaises, Unresolved,
             ConfirmRaises, AfterFailure, LogEntry, LogEntryRaises,
             TryAgain, Onward, Excepted, history
    <2> QED  BY <2>1, <2>2, <1>t DEF BookSwept
  <1>w. Working \subseteq Watched /\ OneLiveEntry  BY <1>b DEF OneAtATime
  <1>q. ASSUME UNCHANGED st, Working \subseteq Watched',
               pc' \in {"poll", "waiting"} => seen' \in Live
        PROVE  OneAtATime'
    BY <1>q, <1>b, <1>w DEF OneAtATime, OneLiveEntry, Working
  <1>n. "lost" \notin Faults /\ "noid" \notin Faults /\ "fills" \notin Faults
        /\ "unresolved" \notin Faults
    BY DEF GuardedFaults
  <1>1. CASE SuspectClear
    <2>1. pc = "suspect" /\ pc' = "submit" /\ UNCHANGED st
          /\ (suspect # NoOrder => st[suspect] \in DeadRead)
      BY <1>1 DEF SuspectClear, broker
    <2>2. Working = {}
      BY <2>1, <1>w, Bounds DEF Working, Watched, Live, DeadRead
    <2> QED  BY <2>1, <2>2, <1>q
  <1>2. CASE SuspectHolds
    <2>1. pc = "suspect" /\ pc' = "idle" /\ UNCHANGED <<st, suspect>>
      BY <1>2 DEF SuspectHolds, broker
    <2> QED  BY <2>1, <1>w, <1>q DEF Watched
  <1>3. ASSUME NEW o \in OrderIds, Post(o) PROVE OneAtATime'
    <2>1. pc = "submit" /\ pc' = "poll" /\ cur' = o /\ seen' = "working"
          /\ st' = [st EXCEPT ![o] = "working"]
      BY <1>3 DEF Post, Place
    <2>2. Working = {}  BY <2>1, <1>w DEF Watched
    <2>3. Working' \subseteq {o}
      BY <2>1, <2>2, <1>t DEF Working, TypeOK
    <2> QED  BY <2>1, <2>3, <1>b DEF OneAtATime, OneLiveEntry, Working, Watched, Live
  <1>4. CASE PostRefused
    <2>1. pc = "submit" /\ UNCHANGED st /\ pc' \notin {"poll", "waiting"}
      BY <1>4 DEF PostRefused, broker, TryAgain, Onward, Excepted
    <2>2. Working = {}  BY <2>1, <1>w DEF Watched
    <2> QED  BY <2>1, <2>2, <1>q
  <1>5. CASE Poll
    <2>1. pc = "poll" /\ UNCHANGED <<st, cur>>  BY <1>5 DEF Poll, broker
    <2>2. cur \in OrderIds /\ Working \subseteq {cur} /\ seen \in Live
      BY <2>1, <1>w, <1>t DEF Watched, CallNamesOrder, TypeOK, OneAtATime
    <2>3. CASE seen' \in Live /\ pc' = "waiting"
      BY <2>1, <2>2, <2>3, <1>q DEF Watched
    <2>4. CASE seen' \notin Live /\ seen' = st[cur] /\ pc' \notin {"poll", "waiting"}
      <3>1. Working = {}  BY <2>2, <2>4 DEF Working
      <3> QED  BY <2>1, <2>4, <3>1, <1>q
    <2>5. \/ seen' \in Live /\ pc' = "waiting"
          \/ seen' \notin Live /\ seen' = st[cur] /\ pc' \notin {"poll", "waiting"}
      BY <1>5, <2>2 DEF Poll, TryAgain, Onward, Live
    <2> QED  BY <2>3, <2>4, <2>5
  <1>6. CASE PollAgain
    <2>1. pc = "waiting" /\ pc' = "poll" /\ UNCHANGED <<st, cur, seen>>
      BY <1>6 DEF PollAgain, broker
    <2> QED  BY <2>1, <1>w, <1>q DEF Watched, OneAtATime
  <1>7. CASE DeadlineCancels
    <2>1. pc = "waiting" /\ pc' = "poll" /\ UNCHANGED <<cur, seen>> /\ CancelAccepted(cur)
      BY <1>7 DEF DeadlineCancels, AtDeadline
    <2>2. cur \in OrderIds  BY <2>1, <1>t DEF CallNamesOrder, TypeOK
    <2>3. NothingPosted  BY <2>1, <2>2, <1>t, CancelPostsNothing
    <2>4. OneLiveEntry' /\ Working' \subseteq Working  BY <2>3, <1>w, QuietStep
    <2> QED  BY <2>1, <2>4, <1>b, <1>w DEF OneAtATime, Watched
  <1>8. CASE DeadlineCancelRaises
    <2>1. pc = "waiting" /\ pc' = "poll" /\ UNCHANGED <<st, cur, seen>>
      BY <1>8 DEF DeadlineCancelRaises, AtDeadline, broker
    <2> QED  BY <2>1, <1>w, <1>q DEF Watched, OneAtATime
  <1>9. CASE ConfirmRaises
    <2>1. pc \in {"poll", "waiting"} /\ pc' = "failed" /\ UNCHANGED <<st, cur>>
      BY <1>9 DEF ConfirmRaises, broker, call
    <2> QED  BY <2>1, <1>w, <1>q DEF Watched
  <1>10. CASE AfterFailure
    <2>1. pc = "failed" /\ pc' = "idle" /\ suspect' = cur
          /\ (CancelAccepted(cur) \/ UNCHANGED st)
      BY <1>10 DEF AfterFailure
    <2>2. cur \in OrderIds  BY <2>1, <1>t DEF CallNamesOrder, TypeOK
    <2>3. NothingPosted  BY <2>1, <2>2, <1>t, CancelPostsNothing
    <2>4. OneLiveEntry' /\ Working' \subseteq Working  BY <2>3, <1>w, QuietStep
    <2> QED  BY <2>1, <2>4, <1>b, <1>w DEF OneAtATime, Watched
  <1>11. CASE LogEntry \/ LogEntryRaises
    <2>1. pc = "booking" /\ pc' = "idle" /\ UNCHANGED st
      BY <1>11 DEF LogEntry, LogEntryRaises, broker
    <2>2. Working = {}  BY <2>1, <1>w DEF Watched
    <2> QED  BY <2>1, <2>2, <1>q
  <1>12. ~(\E o \in OrderIds : PostLost(o) \/ PostNoId(o)) /\ ~Unresolved
    BY <1>n DEF PostLost, PostNoId, Unresolved
  <1> QED
    BY <1>1, <1>2, <1>3, <1>4, <1>5, <1>6, <1>7, <1>8, <1>9, <1>10, <1>11, <1>12 DEF Enter

LEMMA OneStep ==
  ASSUME Faults \subseteq GuardedFaults, OneAtATime, CallNamesOrder, BookSwept', [Next]_vars
  PROVE  OneAtATime'
  <1>t. TypeOK  BY DEF OneAtATime, BookSwept
  <1>1. CASE Signal
    <2>1. UNCHANGED <<st, stale, boot, suspect>> /\ pc = "idle"
          /\ pc' = (IF boot = "clean" THEN "suspect" ELSE "sweep")
      BY <1>1 DEF Signal, broker, history
    <2> QED  BY <2>1 DEF OneAtATime, OneLiveEntry, Working, Watched
  <1>2. CASE Crash
    <2>1. st' = st /\ stale' = {o \in OrderIds : st[o] # "unused"}
          /\ boot' = "unswept" /\ pc' = "sweep"
      BY <1>2 DEF Crash, broker
    <2> QED  BY <2>1 DEF OneAtATime, OneLiveEntry
  <1>3. CASE UNCHANGED vars
    <2>1. UNCHANGED <<st, stale, boot, suspect, pc, cur, seen>>
      BY <1>3 DEF vars, broker, call, history
    <2> QED  BY <2>1 DEF OneAtATime, OneLiveEntry, Working, Watched
  <1>4. CASE Broker
    <2>1. UNCHANGED <<stale, boot, suspect, pc, cur, seen>>
      BY <1>4 DEF Broker, BrokerFills, BrokerEnds, call, history
    <2>2. NothingPosted  BY <1>4, <1>t, BrokerPostsNothing
    <2>3. OneLiveEntry' /\ Working' \subseteq Working  BY <2>2, QuietStep DEF OneAtATime
    <2> QED  BY <2>1, <2>2, <2>3 DEF OneAtATime, Watched, NothingPosted
  <1> QED  BY <1>1, <1>2, <1>3, <1>4, SweepOne, EnterOne DEF Next

LEMMA OneAlways == ASSUME Faults \subseteq GuardedFaults PROVE Spec => []OneAtATime
  <1>1. BooksSound => CallNamesOrder  BY NamesOrder
  <1>2. OneAtATime /\ CallNamesOrder /\ BookSwept' /\ [Next]_vars => OneAtATime'
    BY OneStep
  <1> QED  BY <1>1, <1>2, OneInit, BooksAlways, SweptAlways, PTL DEF Spec

(* Errors after a post, failed sweeps and any number of restarts never put *)
(* two orders of the intent to work at once (order_guard.clear_to_post),   *)
(* as long as no order is posted, or given up, without its id being known. *)
THEOREM NeverTwoAtWork ==
  ASSUME Faults \subseteq GuardedFaults PROVE Spec => []OneLiveEntry
  <1>1. OneAtATime => OneLiveEntry  BY DEF OneAtATime
  <1> QED  BY <1>1, OneAlways, PTL

-----------------------------------------------------------------------------
(* The books are settled between calls.                                    *)

LEMMA SettleInit == Init => BooksSettle
  BY DEF Init, BooksSettle, AllRecorded, Working, Live

(* What the sweep finds: an order of the process that died, which it       *)
(* cancels or which is over meanwhile, or nothing at all.                  *)
LEMMA SweepSettles ==
  ASSUME Faults \subseteq SettledFaults, OneAtATime, BooksSettle, Sweep
  PROVE  BooksSettle'
  <1>t. TypeOK /\ BookSwept /\ OneLiveEntry  BY DEF OneAtATime, BookSwept
  <1>n. "list" \notin Faults /\ "slow" \notin Faults /\ "cancel" \notin Faults /\ "read" \notin Faults
    BY DEF SettledFaults
  <1>1. ASSUME NEW ok \in BOOLEAN, BootResult(ok), Working = {},
               pc \in {"sweep", "cancel", "confirm"}
        PROVE  BooksSettle'
    <2>1. UNCHANGED <<st, filled, held, own, adopted, crashes>> /\ boot' # "unswept"
          /\ pc' \in {"reconcile", "idle", "suspect"}
          /\ (pc' = "reconcile" <=> boot = "unswept")
      BY <1>1 DEF BootResult, broker, rows, history
    <2>2. Working' = {}  BY <1>1, <2>1 DEF Working
    <2>3. CASE boot = "unswept"
      BY <1>1, <2>1, <2>2, <2>3 DEF BooksSettle, AllRecorded
    <2>4. CASE boot # "unswept"
      BY <1>1, <2>1, <2>2, <2>4 DEF BooksSettle, AllRecorded
    <2> QED  BY <2>3, <2>4
  <1>2. CASE SweepLists
    <2>1. UNCHANGED <<st, filled, held, own, adopted, crashes, boot>> /\ pc = "sweep" /\ pc' = "cancel"
          /\ todo' = {o \in OrderIds : st[o] = "working"}
          /\ bad' = (\E o \in OrderIds : st[o] = "cancelling")
      BY <1>2 DEF SweepLists, broker, rows, history
    <2>2. Working' = Working  BY <2>1 DEF Working
    <2>3. boot = "unswept" => ~bad'  BY <2>1 DEF BooksSettle
    <2>4. \A o \in todo' : Working' \subseteq {o}
      BY <2>1, <2>2, <1>t DEF Working, OneLiveEntry, Live
    <2> QED  BY <2>1, <2>2, <2>3, <2>4 DEF BooksSettle, AllRecorded
  <1>3. ASSUME NEW o \in OrderIds, SweepCancels(o) PROVE BooksSettle'
    <2>1. UNCHANGED <<filled, held, own, adopted, crashes, boot, pc>> /\ pc = "cancel"
          /\ o \in todo /\ todo' = todo \ {o}
      BY <1>3 DEF SweepCancels, rows, history
    <2>2. CASE CancelAccepted(o) /\ bad' = bad
      <3>1. o \in Working  BY <2>2 DEF CancelAccepted, Working
      <3>2. boot = "unswept" /\ crashes # 0 /\ ~bad /\ own = 0 /\ adopted = 0
        BY <2>1, <3>1 DEF BooksSettle, AllRecorded
      <3>3. \A p \in OrderIds : st'[p] = st[p] \/ st'[p] = "cancelling"
        BY <2>2, <1>t DEF CancelAccepted, TypeOK
      <3>4. \A p \in todo' : Working' \subseteq {p}
        <4>1. Working \subseteq {o}  BY <2>1, <3>2 DEF BooksSettle
        <4>2. \A p \in todo : Working \subseteq {p}  BY <2>1, <3>2 DEF BooksSettle
        <4> QED  BY <2>1, <3>1, <4>1, <4>2
      <3> QED  BY <2>1, <2>2, <3>2, <3>3, <3>4 DEF BooksSettle
    <2>3. CASE CancelRaises(o) /\ bad' = TRUE /\ UNCHANGED st
      <3>1. Working' = Working  BY <2>3 DEF Working
      <3>2. o \notin Working  BY <2>3, <1>n DEF CancelRaises, Working
      <3>3. Working = {}
        <4>1. CASE boot = "unswept"
          <5>1. Working \subseteq {o}  BY <2>1, <4>1 DEF BooksSettle
          <5> QED  BY <3>2, <5>1
        <4>2. CASE boot # "unswept"  BY <2>1, <4>2 DEF BooksSettle, AllRecorded
        <4> QED  BY <4>1, <4>2
      <3> QED  BY <2>1, <2>3, <3>1, <3>3 DEF BooksSettle, AllRecorded
    <2> QED  BY <1>3, <2>2, <2>3 DEF SweepCancels
  <1>4. CASE SweepCancelled
    <2>1. pc = "cancel"  BY <1>4 DEF SweepCancelled
    <2>2. CASE bad
      <3>1. Working = {}  BY <2>1, <2>2 DEF BooksSettle, AllRecorded
      <3> QED  BY <1>1, <1>4, <2>1, <2>2, <3>1 DEF SweepCancelled
    <2>3. CASE ~bad
      <3>1. UNCHANGED <<st, filled, held, own, adopted, crashes, boot, todo, bad>> /\ pc' = "confirm"
        BY <1>4, <2>3 DEF SweepCancelled, broker, rows, sweep, history
      <3> QED  BY <2>1, <3>1 DEF BooksSettle, AllRecorded, Working
    <2> QED  BY <2>2, <2>3
  <1>5. CASE SweepConfirms
    <2>1. pc = "confirm" /\ BootResult(TRUE) /\ \A o \in asked : st[o] \notin Live
      BY <1>5 DEF SweepConfirms
    <2>2. StaleLive = {}  BY <2>1, <1>t DEF BookSwept, StaleLive
    <2>3. Working = {}
      BY <2>1, <2>2 DEF OneAtATime, Working, StaleLive, Live
    <2> QED  BY <1>1, <2>1, <2>3
  <1>6. CASE Reconcile
    <2>1. UNCHANGED <<st, filled, held, own, crashes, boot>> /\ pc = "reconcile" /\ pc' = "idle"
          /\ adopted' = (IF own = 0 /\ adopted = 0 THEN held ELSE adopted)
      BY <1>6, <1>n DEF Reconcile, broker, history
    <2>2. Working' = {}  BY <2>1 DEF BooksSettle, Working
    <2>3. own + adopted' = held
      BY <2>1, <1>t DEF BooksSettle, AllRecorded, TypeOK
    <2>4. crashes = 0 => adopted' = 0  BY <2>1 DEF BooksSettle
    <2> QED  BY <2>1, <2>2, <2>3, <2>4 DEF BooksSettle, AllRecorded
  <1>7. ~SweepUnread /\ ~SweepTimesOut  BY <1>n DEF SweepUnread, SweepTimesOut
  <1> QED  BY <1>2, <1>3, <1>4, <1>5, <1>6, <1>7 DEF Sweep

(* A call records what its order filled before it returns.                 *)
LEMMA EnterSettles ==
  ASSUME Faults \subseteq SettledFaults, OneAtATime, BooksSettle, BooksSound, Enter
  PROVE  BooksSettle'
  <1>t. TypeOK /\ BookSwept /\ CallNamesOrder
    BY NamesOrder DEF OneAtATime, BookSwept
  <1>n. "fills" \notin Faults /\ "lost" \notin Faults /\ "noid" \notin Faults
        /\ "unresolved" \notin Faults /\ "raise" \notin Faults /\ "log" \notin Faults
    BY DEF SettledFaults
  <1>b. InCall /\ UNCHANGED <<boot, adopted, crashes>>
        /\ pc' \notin {"sweep", "cancel", "confirm", "reconcile"}
    BY DEF Enter, SuspectClear, SuspectHolds, Post, PostLost, PostNoId, PostRefused,
           Poll, PollAgain, DeadlineCancels, DeadlineCancelRaises, Unresolved,
           ConfirmRaises, AfterFailure, LogEntry, LogEntryRaises, AtDeadline, InCall,
           TryAgain, Onward, Excepted, history, rows
  <1>c. boot = "clean" /\ own = 0
    BY <1>b, <1>t DEF BookSwept, BooksSound, Committed
  <1>w. Working \subseteq Watched  BY <1>c DEF OneAtATime
  <1>q. ASSUME UNCHANGED <<st, filled, held, own>>, AllRecorded,
               pc' \notin {"reconcile", "poll", "waiting", "booking"}
        PROVE  BooksSettle'
    BY <1>q, <1>b, <1>c DEF BooksSettle, AllRecorded, Working
  <1>1. CASE SuspectClear \/ SuspectHolds \/ PostRefused
    <2>1. pc \in {"suspect", "submit"} /\ UNCHANGED <<st, filled, held, own>>
          /\ pc' \notin {"reconcile", "poll", "waiting", "booking"}
      BY <1>1 DEF SuspectClear, SuspectHolds, PostRefused, TryAgain, Onward, Excepted, broker, rows
    <2> QED  BY <2>1, <1>q, <1>c DEF BooksSettle
  <1>2. ASSUME NEW o \in OrderIds, Post(o) PROVE BooksSettle'
    <2>1. pc = "submit" /\ pc' = "poll" /\ cur' = o /\ st[o] = "unused"
          /\ st' = [st EXCEPT ![o] = "working"] /\ UNCHANGED <<filled, held, own>>
      BY <1>2 DEF Post, Place, rows
    <2>2. filled[o] = 0 /\ held = adopted
      BY <2>1, <1>c, <1>t DEF BooksSound, BooksSettle, AllRecorded, TypeOK
    <2>3. \A p \in OrderIds : st'[p] = st[p] \/ st'[p] = "working"
      BY <2>1, <1>t DEF TypeOK
    <2>4. held' = adopted' + filled'[cur']
      BY <2>1, <2>2, <1>b, <1>t DEF TypeOK
    <2> QED  BY <2>1, <2>3, <2>4, <1>b, <1>c DEF BooksSettle
  <1>3. CASE Poll
    <2>1. pc = "poll" /\ UNCHANGED <<st, filled, held, own, cur>>
      BY <1>3 DEF Poll, broker, rows
    <2>2. cur \in OrderIds /\ Working \subseteq {cur} /\ seen \in Live
      BY <2>1, <1>w, <1>t DEF Watched, CallNamesOrder, TypeOK, OneAtATime
    <2>3. own = 0 /\ held = adopted + filled[cur]  BY <2>1 DEF BooksSettle
    <2>4. CASE pc' = "waiting"
      BY <2>1, <2>3, <2>4, <1>b, <1>c DEF BooksSettle
    <2>5. CASE pc' # "waiting"
      <3>1. PICK s \in {st[cur]} \cup (IF "poll" \in Faults THEN {seen} ELSE {}) :
              \/ /\ s \in {"filled", "dead"}
                 /\ \E n \in ReadFills(cur) :
                      /\ fill' = n
                      /\ IF n > 0 THEN pc' = "booking" /\ UNCHANGED attempt
                         ELSE IF s = "filled" THEN pc' = "idle" /\ UNCHANGED attempt
                         ELSE TryAgain
              \/ /\ s = "rejected" /\ TryAgain
                 /\ UNCHANGED fill
        BY <1>3, <2>5 DEF Poll
      <3>2. s = st[cur]  BY <2>2, <3>1 DEF Live
      <3>3. Working = {}  BY <2>2, <3>1, <3>2 DEF Working, Live
      <3>4. Working' = {}  BY <2>1, <3>3 DEF Working
      <3>5. ReadFills(cur) = {filled[cur]}  BY <1>n DEF ReadFills
      <3>6. filled[cur] \in 0 .. Size  BY <2>2, <1>t DEF TypeOK
      <3>7. CASE pc' = "booking"
        <4>1. fill' = filled[cur]  BY <3>1, <3>5, <3>7 DEF TryAgain, Onward
        <4> QED  BY <2>1, <2>3, <3>4, <3>7, <4>1, <1>b, <1>c DEF BooksSettle
      <3>8. CASE pc' # "booking"
        <4>1. filled[cur] = 0
          <5>1. CASE s = "rejected"  BY <5>1, <2>2, <3>2 DEF BooksSettle
          <5>2. CASE s # "rejected"  BY <5>2, <3>1, <3>5, <3>6, <3>8
          <5> QED  BY <5>1, <5>2
        <4>2. AllRecorded  BY <2>3, <3>3, <4>1, <1>t DEF AllRecorded, TypeOK
        <4>3. pc' \notin {"reconcile", "poll", "waiting", "booking"}
          BY <3>1, <3>8 DEF TryAgain, Onward
        <4> QED  BY <2>1, <4>2, <4>3, <1>q
      <3> QED  BY <3>7, <3>8
    <2> QED  BY <2>4, <2>5
  <1>4. CASE PollAgain \/ DeadlineCancelRaises
    <2>1. pc = "waiting" /\ pc' = "poll" /\ UNCHANGED <<st, filled, held, own, cur>>
      BY <1>4 DEF PollAgain, DeadlineCancelRaises, AtDeadline, broker, rows
    <2> QED  BY <2>1, <1>b, <1>c DEF BooksSettle
  <1>5. CASE DeadlineCancels
    <2>1. pc = "waiting" /\ pc' = "poll" /\ UNCHANGED <<filled, held, own, cur>>
          /\ st' = [st EXCEPT ![cur] = "cancelling"]
      BY <1>5 DEF DeadlineCancels, AtDeadline, CancelAccepted, rows
    <2>2. \A p \in OrderIds : st'[p] = st[p] \/ st'[p] = "cancelling"
      BY <2>1, <1>t DEF TypeOK
    <2> QED  BY <2>1, <2>2, <1>b, <1>c DEF BooksSettle
  <1>6. CASE AfterFailure
    <2>1. pc = "failed" /\ pc' = "idle" /\ UNCHANGED <<filled, held, own>>
          /\ (CancelAccepted(cur) \/ UNCHANGED st)
      BY <1>6 DEF AfterFailure, rows
    <2>2. cur \in OrderIds /\ AllRecorded
      BY <2>1, <1>c, <1>t DEF CallNamesOrder, TypeOK, BooksSettle
    <2>3. UNCHANGED st  BY <2>1, <2>2 DEF AllRecorded, CancelAccepted, Working
    <2> QED  BY <2>1, <2>2, <2>3, <1>q
  <1>7. CASE LogEntry
    <2>1. pc = "booking" /\ pc' = "idle" /\ own' = fill /\ UNCHANGED <<st, filled, held>>
      BY <1>7 DEF LogEntry, broker
    <2>2. held = adopted + fill /\ Working = {}  BY <2>1 DEF BooksSettle
    <2>3. AllRecorded'
      BY <2>1, <2>2, <1>b, <1>t DEF AllRecorded, Working, TypeOK
    <2> QED  BY <2>1, <2>3, <1>b, <1>c DEF BooksSettle
  <1>8. /\ ~(\E o \in OrderIds : PostLost(o) \/ PostNoId(o))
        /\ ~Unresolved /\ ~ConfirmRaises /\ ~LogEntryRaises
    BY <1>n DEF PostLost, PostNoId, Unresolved, ConfirmRaises, LogEntryRaises
  <1> QED  BY <1>1, <1>2, <1>3, <1>4, <1>5, <1>6, <1>7, <1>8 DEF Enter

(* What fills is the order being confirmed, or what a boot will adopt.     *)
LEMMA BrokerSettles ==
  ASSUME OneAtATime, BooksSettle, Broker
  PROVE  BooksSettle'
  <1>t. TypeOK /\ BookSwept  BY DEF OneAtATime, BookSwept
  <1>s. UNCHANGED <<own, adopted, crashes, boot, pc, cur, fill, todo, bad>>
    BY DEF Broker, BrokerFills, BrokerEnds, rows, call, sweep, history
  <1>0. ASSUME NEW o \in OrderIds, st[o] \in Live
        PROVE  /\ o \in Working
               /\ boot = "unswept" => crashes # 0 /\ ~bad /\ own = 0 /\ adopted = 0
               /\ boot # "unswept" => pc \in {"poll", "waiting"} /\ o = cur
    <2>1. o \in Working  BY <1>0 DEF Working
    <2>2. boot # "unswept" => pc \in {"poll", "waiting"}
      BY <2>1 DEF BooksSettle, AllRecorded
    <2>3. boot # "unswept" => o = cur
      BY <2>1, <2>2, <1>t DEF OneAtATime, Watched, BookSwept, InCall
    <2> QED  BY <2>1, <2>2, <2>3 DEF BooksSettle, AllRecorded
  <1>1. ASSUME NEW o \in OrderIds, NEW n \in 1 .. Size, BrokerFills(o, n)
        PROVE  BooksSettle'
    <2>1. st[o] \in Live /\ held' = held + n /\ filled' = [filled EXCEPT ![o] = @ + n]
          /\ st' = (IF filled[o] + n = Size THEN [st EXCEPT ![o] = "filled"] ELSE st)
      BY <1>1 DEF BrokerFills
    <2>2. filled[o] + n \in Nat  BY <1>t DEF TypeOK
    <2>3. \A p \in OrderIds : filled'[p] = IF p = o THEN filled[o] + n ELSE filled[p]
      BY <2>1, <1>t DEF TypeOK
    <2>4. \A p \in OrderIds : st'[p] = st[p] \/ (p = o /\ st'[p] = "filled" /\ filled[o] + n = Size)
      BY <2>1, <1>t DEF TypeOK
    <2>5. \A p \in OrderIds : /\ st'[p] = "filled" => filled'[p] = Size
                              /\ st'[p] = "rejected" => filled'[p] = 0
      BY <2>1, <2>3, <2>4 DEF BooksSettle, Live
    <2>6. Working' \subseteq Working  BY <2>4 DEF Working, Live
    <2>7. CASE boot = "unswept"
      BY <1>0, <1>s, <2>1, <2>4, <2>5, <2>6, <2>7 DEF BooksSettle, AllRecorded
    <2>8. CASE boot # "unswept"
      <3>1. pc \in {"poll", "waiting"} /\ o = cur  BY <1>0, <2>1, <2>8
      <3>2. own = 0 /\ held = adopted + filled[cur]  BY <3>1 DEF BooksSettle
      <3>3. held' = adopted + filled'[cur]
        BY <2>1, <2>2, <2>3, <3>1, <3>2, <1>t DEF TypeOK
      <3> QED  BY <1>s, <2>5, <2>8, <3>1, <3>2, <3>3 DEF BooksSettle
    <2> QED  BY <2>7, <2>8
  <1>2. ASSUME NEW o \in OrderIds, NEW how \in {"dead", "rejected"}, BrokerEnds(o, how)
        PROVE  BooksSettle'
    <2>1. st[o] \in Live /\ UNCHANGED <<filled, held>> /\ st' = [st EXCEPT ![o] = how]
          /\ (how = "rejected" => filled[o] = 0)
      BY <1>2 DEF BrokerEnds
    <2>2. \A p \in OrderIds : st'[p] = st[p] \/ (p = o /\ st'[p] = how)
      BY <2>1, <1>t DEF TypeOK
    <2>3. Working' \subseteq Working  BY <2>2 DEF Working, Live
    <2>4. CASE boot = "unswept"
      BY <1>0, <1>s, <2>1, <2>2, <2>3, <2>4 DEF BooksSettle, AllRecorded
    <2>5. CASE boot # "unswept"
      <3>1. pc \in {"poll", "waiting"}  BY <1>0, <2>1, <2>5
      <3> QED  BY <1>s, <2>1, <2>2, <2>5, <3>1 DEF BooksSettle
    <2> QED  BY <2>4, <2>5
  <1> QED  BY <1>1, <1>2 DEF Broker

LEMMA SettleStep ==
  ASSUME Faults \subseteq SettledFaults, MaxCrashes <= 1,
         OneAtATime, BooksSound, BooksSettle, [Next]_vars
  PROVE  BooksSettle'
  <1>t. TypeOK  BY DEF BooksSound
  <1>1. CASE Signal
    <2>1. UNCHANGED <<st, filled, held, own, adopted, crashes, boot, todo, bad>> /\ pc = "idle"
          /\ pc' \in {"suspect", "sweep"}
      BY <1>1 DEF Signal, broker, rows, sweep, history
    <2> QED  BY <2>1 DEF BooksSettle, AllRecorded, Working
  <1>2. CASE Crash
    <2>1. /\ UNCHANGED <<st, filled, held, own, adopted>>
          /\ boot' = "unswept" /\ pc' = "sweep" /\ ~bad' /\ crashes' = crashes + 1
          /\ crashes < MaxCrashes
      BY <1>2 DEF Crash, broker, rows
    <2>2. crashes = 0 /\ crashes' # 0  BY <2>1, <1>t DEF TypeOK
    <2>3. \A o \in OrderIds : st[o] # "cancelling"
      BY <1>2 DEF Crash, SettledFaults
    <2>4. Working' = Working  BY <2>1 DEF Working
    <2>5. AllRecorded \/ (own = 0 /\ adopted = 0)
      BY <2>2 DEF BooksSettle
    <2> QED  BY <2>1, <2>2, <2>3, <2>4, <2>5 DEF BooksSettle, AllRecorded
  <1>3. CASE UNCHANGED vars
    <2>1. UNCHANGED <<st, filled, held, own, adopted, crashes, boot, pc, cur, fill, todo, bad>>
      BY <1>3 DEF vars, broker, rows, call, sweep, history
    <2> QED  BY <2>1 DEF BooksSettle, AllRecorded, Working
  <1> QED
    BY <1>1, <1>2, <1>3, SweepSettles, EnterSettles, BrokerSettles DEF Next

(* Between ticks, with no suspect, nothing works at the broker and every   *)
(* contract held is in a row, of the entry or adopted at the boot          *)
(* (confirm_order_fill, sweep_working, build_plan): for any number of      *)
(* calls and failed polls, and one restart.                                *)
THEOREM QuietBooksAreSettled ==
  ASSUME Faults \subseteq SettledFaults, MaxCrashes <= 1
  PROVE  Spec => []SettledWhenIdle
  <1>1. Faults \subseteq GuardedFaults  BY DEF SettledFaults, GuardedFaults, AllFaults
  <1>2. OneAtATime /\ BooksSound /\ BooksSettle /\ [Next]_vars => BooksSettle'
    BY SettleStep
  <1>3. Spec => []BooksSettle
    BY <1>1, <1>2, SettleInit, OneAlways, BooksAlways, PTL DEF Spec
  <1>4. BooksSettle => SettledWhenIdle
    BY DEF BooksSettle, SettledWhenIdle, AllRecorded, Working
  <1> QED  BY <1>3, <1>4, PTL

-----------------------------------------------------------------------------
(* A call is bounded, whatever fails.                                      *)

LEMMA ProductLaw ==
  ASSUME NEW a \in Nat, NEW c \in Nat
  PROVE  /\ a * c \in Nat /\ (a + 1) * c = a * c + c
         /\ \A b \in Nat : b <= a => b * c <= a * c
  <1>1. \A b \in Nat : b <= a => b * c <= a * c
    <2> SUFFICES ASSUME NEW b \in Nat, b <= a PROVE b * c <= a * c  OBVIOUS
    <2>1. PICK d \in Nat : a = b + d  BY a - b \in Nat, a = b + (a - b)
    <2>2. a * c = b * c + d * c  BY <2>1
    <2>3. b * c \in Nat /\ d * c \in Nat  OBVIOUS
    <2> QED  BY <2>2, <2>3
  <1> QED  BY <1>1

(* The sizes the measure is made of.                                       *)
CallIsSized ==
  /\ TurnsLeft \in 0 .. 4 * MaxPolls + 3
  /\ PerAttempt = 8 * MaxPolls + 10 /\ PerAttempt \in Nat
  /\ StillToTry \in Nat /\ Attempts * PerAttempt \in Nat
  /\ StillToTry + PerAttempt <= Attempts * PerAttempt
  /\ attempt < Attempts => StillToTry = (Attempts - (attempt + 1)) * PerAttempt + PerAttempt
  /\ Cardinality(todo) \in Nat /\ Cardinality(todo) <= MaxOrders
  /\ CallLeft \in 0 .. Attempts * PerAttempt + 4 + MaxOrders
  /\ CallLeft = 0 <=> pc = "idle"

LEMMA CallLeftBounds == TypeOK => CallIsSized
  <1> SUFFICES ASSUME TypeOK PROVE CallIsSized  OBVIOUS
  <1>1. /\ pc \in Places /\ attempt \in 1 .. Attempts /\ Attempts \in Nat /\ MaxPolls \in Nat
        /\ polls \in 0 .. MaxPolls /\ cancels \in 0 .. 3 /\ MaxOrders \in Nat
    BY DEF TypeOK, MaxCancels
  <1>2. /\ Grace(1) \in 0 .. MaxPolls + 1 /\ Grace(2) \in 0 .. MaxPolls + 1
        /\ Grace(3) \in 0 .. MaxPolls + 1
    BY <1>1 DEF Grace
  <1>3. TurnsLeft \in 0 .. 4 * MaxPolls + 3
    BY <1>1, <1>2 DEF TurnsLeft
  <1>4. PerAttempt = 8 * MaxPolls + 10 /\ PerAttempt \in Nat
    BY <1>1 DEF PerAttempt
  <1>5. Attempts - attempt \in Nat /\ Attempts - 1 \in Nat /\ Attempts - attempt <= Attempts - 1
    BY <1>1
  <1>6. /\ StillToTry \in Nat /\ Attempts * PerAttempt \in Nat
        /\ StillToTry <= (Attempts - 1) * PerAttempt
    BY <1>1, <1>4, <1>5, ProductLaw DEF StillToTry
  <1>7. Attempts * PerAttempt = (Attempts - 1) * PerAttempt + PerAttempt
    <2>1. ((Attempts - 1) + 1) * PerAttempt = (Attempts - 1) * PerAttempt + PerAttempt
      BY <1>4, <1>5, ProductLaw
    <2>2. (Attempts - 1) + 1 = Attempts  BY <1>1
    <2> QED  BY <2>1, <2>2
  <1>8. StillToTry + PerAttempt <= Attempts * PerAttempt
    <2>1. (Attempts - 1) * PerAttempt \in Nat  BY <1>4, <1>5, ProductLaw
    <2> QED  BY <1>4, <1>6, <1>7, <2>1
  <1>9. attempt < Attempts => StillToTry = (Attempts - (attempt + 1)) * PerAttempt + PerAttempt
    <2> SUFFICES ASSUME attempt < Attempts
                 PROVE  StillToTry = (Attempts - (attempt + 1)) * PerAttempt + PerAttempt
      OBVIOUS
    <2>1. Attempts - (attempt + 1) \in Nat  BY <1>1
    <2>2. ((Attempts - (attempt + 1)) + 1) * PerAttempt
            = (Attempts - (attempt + 1)) * PerAttempt + PerAttempt
      BY <1>4, <2>1, ProductLaw
    <2>3. (Attempts - (attempt + 1)) + 1 = Attempts - attempt  BY <1>1
    <2> QED  BY <2>2, <2>3 DEF StillToTry
  <1>10. Cardinality(todo) \in Nat /\ Cardinality(todo) <= MaxOrders
    <2>1. IsFiniteSet(OrderIds) /\ Cardinality(OrderIds) = MaxOrders
      BY <1>1, FS_Interval, MaxOrders - 1 + 1 = MaxOrders DEF OrderIds
    <2>2. todo \subseteq OrderIds  BY DEF TypeOK
    <2>3. IsFiniteSet(todo) /\ Cardinality(todo) <= Cardinality(OrderIds)
      BY <2>1, <2>2, FS_Subset
    <2> QED  BY <2>1, <2>3, FS_CardinalityType
  <1>11. CallLeft \in 0 .. Attempts * PerAttempt + 4 + MaxOrders /\ (CallLeft = 0 <=> pc = "idle")
    <2> DEFINE left == StillToTry
               all  == Attempts * PerAttempt
               size == Cardinality(todo)
               turns == TurnsLeft
    <2>1. /\ left \in Nat /\ all \in Nat /\ left + PerAttempt <= all
          /\ size \in Nat /\ size <= MaxOrders /\ turns \in 0 .. 4 * MaxPolls + 3
          /\ PerAttempt = 8 * MaxPolls + 10 /\ MaxOrders \in Nat /\ MaxPolls \in Nat
      BY <1>1, <1>3, <1>4, <1>6, <1>8, <1>10
    <2>2. CallLeft =
            CASE pc \in {"failed", "booking", "reconcile"} -> 1
              [] pc = "waiting" -> left + 2 * turns + 2
              [] pc = "poll"    -> left + 2 * turns + 3
              [] pc = "submit"  -> left + PerAttempt
              [] pc = "suspect" -> all + 1
              [] pc = "confirm" -> all + 2
              [] pc = "cancel"  -> all + 3 + size
              [] pc = "sweep"   -> all + 4 + MaxOrders
              [] OTHER          -> 0
      BY DEF CallLeft
    <2> HIDE DEF left, all, size, turns
    <2>3. CallLeft \in 0 .. all + 4 + MaxOrders /\ (CallLeft = 0 <=> pc = "idle")
      BY <1>1, <2>1, <2>2 DEF Places
    <2> QED  BY <2>3 DEF all
  <1> QED  BY <1>3, <1>4, <1>6, <1>8, <1>9, <1>10, <1>11 DEF CallIsSized

(* The next attempt costs less than what this one had left.                *)
LEMMA AttemptEnds ==
  ASSUME TypeOK, CallIsSized, CallIsSized', pc \in {"submit", "poll"}, TryAgain
  PROVE  CallLeft' < CallLeft
  <1>1. attempt \in 1 .. Attempts /\ Attempts \in Nat  BY DEF TypeOK
  <1>2. CASE attempt < Attempts
    <2>1. pc' = "submit" /\ attempt' = attempt + 1  BY <1>2 DEF TryAgain, Onward
    <2>2. PerAttempt' = PerAttempt  BY DEF PerAttempt
    <2>3. StillToTry = StillToTry' + PerAttempt
      BY <1>2, <2>1, <2>2 DEF CallIsSized, StillToTry
    <2>4. CallLeft' = StillToTry  BY <2>1, <2>2, <2>3 DEF CallLeft
    <2>5. CallLeft >= StillToTry + 1
      <3> DEFINE left == StillToTry
                 turns == TurnsLeft
      <3>1. left \in Nat /\ turns \in Nat /\ PerAttempt \in Nat /\ PerAttempt >= 1
        BY BoundsAssumption DEF CallIsSized
      <3>2. CallLeft = left + PerAttempt \/ CallLeft = left + 2 * turns + 3
        BY DEF CallLeft
      <3> HIDE DEF left, turns
      <3>3. CallLeft >= left + 1  BY <3>1, <3>2
      <3> QED  BY <3>3 DEF left
    <2>6. StillToTry \in Nat  BY DEF CallIsSized
    <2>7. CallLeft \in Nat
      <3>1. Attempts * PerAttempt \in Nat /\ MaxOrders \in Nat
        BY BoundsAssumption DEF CallIsSized
      <3> QED  BY <3>1 DEF CallIsSized
    <2> QED  BY <2>4, <2>5, <2>6, <2>7
  <1>3. CASE ~(attempt < Attempts)
    <2>1. pc' = "idle"  BY <1>3 DEF TryAgain, Onward
    <2>2. CallLeft' = 0  BY <2>1 DEF CallIsSized
    <2>3. CallLeft # 0 /\ CallLeft >= 0  BY DEF CallIsSized
    <2>4. CallLeft \in Nat
      <3>1. Attempts * PerAttempt \in Nat /\ MaxOrders \in Nat
        BY BoundsAssumption DEF CallIsSized
      <3> QED  BY <3>1 DEF CallIsSized
    <2> QED  BY <2>2, <2>3, <2>4
  <1> QED  BY <1>2, <1>3

(* Each turn of the poll loop, and each cancel at a deadline, uses one up. *)
LEMMA TurnUsed ==
  ASSUME TypeOK, PollAgain \/ DeadlineCancels \/ DeadlineCancelRaises
  PROVE  TurnsLeft' = TurnsLeft - 1
  <1>1. cancels \in 0 .. 3 /\ polls \in 0 .. MaxPolls /\ MaxPolls \in Nat
    BY DEF TypeOK, MaxCancels
  <1>2. CASE PollAgain
    <2>1. polls' = polls + 1 /\ cancels' = cancels  BY <1>2 DEF PollAgain
    <2>2. Grace(1)' = Grace(1) /\ Grace(2)' = Grace(2) /\ Grace(3)' = Grace(3)
      BY <2>1 DEF Grace
    <2>3. Grace(1) \in Nat /\ Grace(2) \in Nat /\ Grace(3) \in Nat  BY <1>1 DEF Grace
    <2> QED  BY <1>1, <2>1, <2>2, <2>3 DEF TurnsLeft
  <1>3. CASE DeadlineCancels \/ DeadlineCancelRaises
    <2>1. polls' = 0 /\ cancels' = cancels + 1 /\ polls = MaxPolls /\ cancels < 3
      BY <1>1, <1>3 DEF DeadlineCancels, DeadlineCancelRaises, AtDeadline, MaxCancels
    <2>2. Grace(1) + Grace(2) + Grace(3) = Grace(1)' + Grace(2)' + Grace(3)' + MaxPolls + 1
      BY <1>1, <2>1 DEF Grace
    <2>3. /\ Grace(1) \in Nat /\ Grace(2) \in Nat /\ Grace(3) \in Nat
          /\ Grace(1)' \in Nat /\ Grace(2)' \in Nat /\ Grace(3)' \in Nat
      BY <1>1 DEF Grace
    <2> QED  BY <1>1, <2>1, <2>2, <2>3 DEF TurnsLeft
  <1> QED  BY <1>2, <1>3

(* The sweep before a call, and at boot.                                   *)
LEMMA SweepRunsDown ==
  ASSUME TypeOK, CallIsSized, CallIsSized', Sweep
  PROVE  CallLeft' < CallLeft
  <1> DEFINE all  == Attempts * PerAttempt
             size == Cardinality(todo)
  <1>1. /\ all \in Nat /\ size \in Nat /\ size <= MaxOrders /\ MaxOrders \in Nat
        /\ size' \in Nat /\ size' <= MaxOrders
    BY BoundsAssumption DEF CallIsSized
  <1>2. /\ pc \in {"reconcile"} => CallLeft = 1
        /\ pc = "suspect" => CallLeft = all + 1
        /\ pc = "confirm" => CallLeft = all + 2
        /\ pc = "cancel" => CallLeft = all + 3 + size
        /\ pc = "sweep" => CallLeft = all + 4 + MaxOrders
    BY DEF CallLeft
  <1>3. /\ pc' = "idle" => CallLeft' = 0
        /\ pc' = "reconcile" => CallLeft' = 1
        /\ pc' = "suspect" => CallLeft' = all + 1
        /\ pc' = "confirm" => CallLeft' = all + 2
        /\ pc' = "cancel" => CallLeft' = all + 3 + size'
    <2>1. PerAttempt' = PerAttempt  BY DEF PerAttempt
    <2> QED  BY <2>1 DEF CallLeft
  <1>4. ASSUME NEW ok \in BOOLEAN, BootResult(ok) PROVE pc' \in {"reconcile", "suspect", "idle"}
    BY <1>4 DEF BootResult
  <1>5. ASSUME NEW o \in OrderIds, SweepCancels(o) PROVE size' = size - 1
    <2>1. IsFiniteSet(todo)
      <3>1. IsFiniteSet(OrderIds)  BY FS_Interval, BoundsAssumption DEF OrderIds
      <3> QED  BY <3>1, FS_Subset DEF TypeOK
    <2> QED  BY <1>5, <2>1, FS_RemoveElement DEF SweepCancels
  <1>6. pc = "sweep" /\ pc' \in {"cancel", "reconcile", "suspect", "idle"} => CallLeft' < CallLeft
    <2> HIDE DEF all, size
    <2> QED  BY <1>1, <1>2, <1>3
  <1>7. pc = "cancel" /\ (pc' \in {"confirm", "reconcile", "suspect", "idle"}
                          \/ (pc' = "cancel" /\ size' = size - 1)) => CallLeft' < CallLeft
    <2> HIDE DEF all, size
    <2> QED  BY <1>1, <1>2, <1>3
  <1>8. pc = "confirm" /\ pc' \in {"reconcile", "suspect", "idle"} => CallLeft' < CallLeft
    <2> HIDE DEF all, size
    <2> QED  BY <1>1, <1>2, <1>3
  <1>9. pc = "reconcile" /\ pc' = "idle" => CallLeft' < CallLeft
    BY <1>2, <1>3
  <1>10. CASE SweepLists  BY <1>10, <1>6 DEF SweepLists
  <1>11. CASE SweepUnread  BY <1>11, <1>4, <1>6 DEF SweepUnread
  <1>12. ASSUME NEW o \in OrderIds, SweepCancels(o) PROVE CallLeft' < CallLeft
    <2>1. pc = "cancel" /\ pc' = "cancel"  BY <1>12 DEF SweepCancels
    <2> QED  BY <2>1, <1>12, <1>5, <1>7
  <1>13. CASE SweepCancelled
    <2>1. pc = "cancel" /\ (BootResult(FALSE) \/ pc' = "confirm")
      BY <1>13 DEF SweepCancelled
    <2> QED  BY <2>1, <1>4, <1>7
  <1>14. CASE SweepConfirms  BY <1>14, <1>4, <1>8 DEF SweepConfirms
  <1>15. CASE SweepTimesOut  BY <1>15, <1>4, <1>8 DEF SweepTimesOut
  <1>16. CASE Reconcile  BY <1>16, <1>9 DEF Reconcile
  <1> QED  BY <1>10, <1>11, <1>12, <1>13, <1>14, <1>15, <1>16 DEF Sweep

(* The call itself.                                                        *)
LEMMA EnterRunsDown ==
  ASSUME TypeOK, CallIsSized, CallIsSized', Enter
  PROVE  CallLeft' < CallLeft
  <1> DEFINE all   == Attempts * PerAttempt
             left  == StillToTry
             turns == TurnsLeft
  <1>1. /\ all \in Nat /\ left \in Nat /\ turns \in 0 .. 4 * MaxPolls + 3
        /\ turns' \in 0 .. 4 * MaxPolls + 3 /\ left + PerAttempt <= all
        /\ PerAttempt = 8 * MaxPolls + 10 /\ MaxPolls \in Nat
    BY BoundsAssumption DEF CallIsSized
  <1>2. /\ pc \in {"failed", "booking"} => CallLeft = 1
        /\ pc = "waiting" => CallLeft = left + 2 * turns + 2
        /\ pc = "poll" => CallLeft = left + 2 * turns + 3
        /\ pc = "submit" => CallLeft = left + PerAttempt
        /\ pc = "suspect" => CallLeft = all + 1
    BY DEF CallLeft
  <1>3. /\ pc' = "idle" => CallLeft' = 0
        /\ pc' \in {"failed", "booking"} => CallLeft' = 1
        /\ pc' = "waiting" => CallLeft' = left' + 2 * turns' + 2
        /\ pc' = "poll" => CallLeft' = left' + 2 * turns' + 3
        /\ pc' = "submit" => CallLeft' = left' + PerAttempt
    <2>1. PerAttempt' = PerAttempt  BY DEF PerAttempt
    <2> QED  BY <2>1 DEF CallLeft
  <1>4. attempt' = attempt => left' = left
    BY DEF StillToTry, PerAttempt
  <1> HIDE DEF all, left, turns
  <1>5. pc \in {"suspect", "submit", "poll", "waiting", "failed", "booking"} /\ pc' = "idle"
          => CallLeft' < CallLeft
    BY <1>1, <1>2, <1>3
  <1>6. pc \in {"submit", "poll", "waiting"} /\ pc' \in {"failed", "booking"}
          => CallLeft' < CallLeft
    BY <1>1, <1>2, <1>3
  <1>7. CASE SuspectClear
    <2>1. pc = "suspect" /\ pc' = "submit" /\ attempt' = attempt
      BY <1>7 DEF SuspectClear, call
    <2> QED  BY <2>1, <1>1, <1>2, <1>3, <1>4
  <1>8. CASE SuspectHolds  BY <1>8, <1>5 DEF SuspectHolds
  <1>9. ASSUME NEW o \in OrderIds, Post(o) PROVE CallLeft' < CallLeft
    <2>1. pc = "submit" /\ pc' = "poll" /\ attempt' = attempt /\ polls' = 0 /\ cancels' = 0
      BY <1>9 DEF Post
    <2>2. turns' = 4 * MaxPolls + 3
      BY <2>1, <1>1 DEF turns, TurnsLeft, Grace
    <2> QED  BY <2>1, <2>2, <1>1, <1>2, <1>3, <1>4
  <1>10. ASSUME NEW o \in OrderIds, PostLost(o) PROVE CallLeft' < CallLeft
    BY <1>10, <1>5, <1>6 DEF PostLost, Excepted
  <1>11. ASSUME NEW o \in OrderIds, PostNoId(o) PROVE CallLeft' < CallLeft
    BY <1>11, AttemptEnds DEF PostNoId
  <1>12. CASE PostRefused
    BY <1>12, <1>5, <1>6, AttemptEnds DEF PostRefused, Excepted
  <1>13. CASE Poll
    <2>1. pc = "poll" /\ cancels' = cancels /\ polls' = polls  BY <1>13 DEF Poll
    <2>2. \/ pc' = "waiting" /\ attempt' = attempt
          \/ pc' = "booking" \/ pc' = "idle" \/ TryAgain
      BY <1>13 DEF Poll
    <2>3. turns' = turns  BY <2>1 DEF turns, TurnsLeft, Grace
    <2>4. pc' = "waiting" /\ attempt' = attempt => CallLeft' < CallLeft
      BY <2>1, <2>3, <1>1, <1>2, <1>3, <1>4
    <2> QED  BY <2>1, <2>2, <2>4, <1>5, <1>6, AttemptEnds
  <1>14. CASE PollAgain \/ DeadlineCancels \/ DeadlineCancelRaises
    <2>1. pc = "waiting" /\ pc' = "poll" /\ attempt' = attempt
      BY <1>14 DEF PollAgain, DeadlineCancels, DeadlineCancelRaises, AtDeadline
    <2>2. turns' = turns - 1  BY <1>14, TurnUsed DEF turns
    <2> QED  BY <2>1, <2>2, <1>1, <1>2, <1>3, <1>4
  <1>15. CASE Unresolved  BY <1>15, <1>5 DEF Unresolved, AtDeadline
  <1>16. CASE ConfirmRaises  BY <1>16, <1>6 DEF ConfirmRaises
  <1>17. CASE AfterFailure  BY <1>17, <1>5 DEF AfterFailure
  <1>18. CASE LogEntry \/ LogEntryRaises  BY <1>18, <1>5 DEF LogEntry, LogEntryRaises
  <1> QED
    BY <1>7, <1>8, <1>9, <1>10, <1>11, <1>12, <1>13, <1>14, <1>15, <1>16, <1>17, <1>18 DEF Enter

(* Whatever fails, each step of an entry, its sweep and its attempts, or   *)
(* of a boot, uses up one of the steps it has left: a tick is held up for  *)
(* a bounded number of calls, however the broker behaves.                  *)
THEOREM CallIsBounded ==
  Spec => CallRunsDown /\ [](CallLeft <= Attempts * PerAttempt + 4 + MaxOrders)
<1> DEFINE Nearer == Signal \/ Crash \/ CallLeft' < CallLeft \/ (Broker /\ CallLeft' = CallLeft)
<1>1. TypeOK /\ CallIsSized /\ CallIsSized' /\ [Next]_vars => [Nearer]_vars
  <2> SUFFICES ASSUME TypeOK, CallIsSized, CallIsSized', Next PROVE Nearer
    OBVIOUS
  <2>1. CASE Broker
    <3>1. UNCHANGED <<pc, call, sweep>>
      BY <2>1 DEF Broker, BrokerFills, BrokerEnds
    <3>2. CallLeft' = CallLeft
      BY <3>1 DEF CallLeft, StillToTry, TurnsLeft, Grace, PerAttempt, call, sweep
    <3> QED  BY <2>1, <3>2
  <2> QED  BY <2>1, SweepRunsDown, EnterRunsDown DEF Next
<1>2. CallIsSized => CallLeft <= Attempts * PerAttempt + 4 + MaxOrders
  <2> SUFFICES ASSUME CallIsSized PROVE CallLeft <= Attempts * PerAttempt + 4 + MaxOrders
    OBVIOUS
  <2>1. Attempts * PerAttempt \in Nat  BY DEF CallIsSized
  <2> QED  BY <2>1, BoundsAssumption DEF CallIsSized
<1> QED
  BY <1>1, <1>2, CallLeftBounds, TypeCorrect, PTL DEF Spec, CallRunsDown
=============================================================================
