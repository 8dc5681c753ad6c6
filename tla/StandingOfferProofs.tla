------------------------ MODULE StandingOfferProofs ------------------------
(***************************************************************************)
(* What holds of the ORB standing offer for every offer size, every number *)
(* of offers and restarts, and every fault of the environment but the one  *)
(* a theorem names.                                                        *)
(***************************************************************************)
EXTENDS StandingOffer, TLAPS

USE SizeAssumption

LEMMA Bounds ==
  /\ NoOffer \notin Offers
  /\ Offers \subseteq Nat /\ 0 \in 0 .. Size /\ 0 \in 0 .. MaxCrashes
  BY DEF Offers, NoOffer

(* The call in progress names an offer that is WORKING in the store and no *)
(* longer in the list; what was read of an order, it has filled.           *)
CallSound ==
  /\ pc \in {"adopt", "decide"} =>
       cur \in Offers /\ cur \notin todo /\ state[cur] = "WORKING" /\ got <= filled[cur]
  /\ pc = "record" => cur \in Offers
  /\ pc \in {"offers", "adopt", "decide"} => todo \subseteq Working

(* An order that filled whole is over, and one not posted has no fills.    *)
OrdersSound ==
  \A o \in Offers : /\ filled[o] = Size => st[o] \notin Live
                    /\ st[o] = "unused" => filled[o] = 0

(* A fill that was noted is booked, missed, or about to be adopted.        *)
NotedIsBooked ==
  crashes = 0 =>
    \A o \in Offers \ missed :
      seen[o] > 0 => booked[o] # "none" \/ (pc = "adopt" /\ cur = o)

(* One offer is WORKING; it is being recorded only when none is.           *)
OneWorking ==
  /\ \A o, p \in Working : o = p
  /\ pc = "record" => Working = {}

(* The open row is the working offer's; the manager's record is that row,  *)
(* and neither has more left to sell than the broker holds.                *)
OneRow ==
  crashes = 0 =>
    /\ adopted = 0
    /\ \A o \in Open : \A p \in Working \cup Open : o = p
    /\ pc = "record" => Open = {}
    /\ \A o \in Offers : mem[o] > 0 => o \in Open
    /\ \A o \in Open : row[o] - sold[o] <= held
    /\ \A o \in Offers : mem[o] > 0 => mem[o] - sold[o] <= held

-----------------------------------------------------------------------------
(* Types.                                                                  *)

LEMMA TypeInit == Init => TypeOK
  <1> SUFFICES ASSUME Init PROVE TypeOK  OBVIOUS
  <1>1. "unused" \in Statuses  BY DEF Statuses
  <1> QED  BY <1>1, Bounds DEF Init, TypeOK, Places

(* A status that changes at an accepted cancel is still a status.          *)
LEMMA CancelTypes ==
  ASSUME TypeOK, NEW o \in Offers, CancelAccepted(o)
  PROVE  st' \in [Offers -> Statuses]
  BY DEF TypeOK, CancelAccepted, Statuses, Live

LEMMA CloseOutTypes ==
  ASSUME TypeOK, NEW o, NEW s \in {"FILLED", "CANCELLED"}, CloseOut(o, s)
  PROVE  state' \in [Offers -> {"none", "WORKING", "FILLED", "CANCELLED"}]
  BY DEF TypeOK, CloseOut

LEMMA SuperviseTypes == ASSUME TypeOK, CallSound, Supervise PROVE TypeOK'
  <1>1. ASSUME NEW o \in Offers, PollUnreadable(o) PROVE TypeOK'
    BY <1>1 DEF PollUnreadable, TypeOK, broker, store, rows, orb, history
  <1>2. ASSUME NEW o \in Offers, Poll(o) PROVE TypeOK'
    <2>1. seen' \in [Offers -> 0 .. Size] /\ got' \in 0 .. Size
      BY <1>2 DEF Poll, TypeOK
    <2>2. pc' \in Places  BY <1>2 DEF Poll, Places
    <2> QED  BY <1>2, <2>1, <2>2 DEF Poll, TypeOK, broker, rows, orb, history
  <1>3. CASE Adopt
    <2>1. /\ booked' \in [Offers -> {"none", "open", "closed"}]
          /\ row' \in [Offers -> Nat] /\ sold' \in [Offers -> Nat]
      BY <1>3 DEF Adopt, TypeOK
    <2> QED  BY <1>3, <2>1 DEF Adopt, TypeOK, broker, store, orb, history, Places
  <1>4. CASE AdoptFails
    <2>1. missed' \subseteq Offers  BY <1>4 DEF AdoptFails, TypeOK, CallSound
    <2> QED  BY <1>4, <2>1 DEF AdoptFails, TypeOK, broker, store, rows, orb, Places
  <1>5. CASE FullyFilled
    <2>1. state' \in [Offers -> {"none", "WORKING", "FILLED", "CANCELLED"}]
      BY <1>5, CloseOutTypes DEF FullyFilled
    <2> QED
      BY <1>5, <2>1, Bounds
      DEF FullyFilled, NextOffer, TypeOK, broker, rows, orb, history, Places
  <1>6. CASE Stands \/ TriggerCancelFails
    BY <1>6, Bounds
    DEF Stands, TriggerCancelFails, NextOffer, TypeOK, broker, store, rows, orb, history, Places
  <1>7. CASE TriggerCancels
    <2>1. cur \in Offers  BY <1>7 DEF TriggerCancels, CallSound
    <2>2. /\ st' \in [Offers -> Statuses]
          /\ state' \in [Offers -> {"none", "WORKING", "FILLED", "CANCELLED"}]
      BY <1>7, <2>1, CancelTypes, CloseOutTypes DEF TriggerCancels
    <2> QED
      BY <1>7, <2>2, Bounds
      DEF TriggerCancels, NextOffer, ReleaseEngine, TypeOK, rows, history, Places
  <1>8. CASE Supervised
    BY <1>8 DEF Supervised, TypeOK, broker, store, rows, orb, history, Places
  <1> QED
    BY <1>1, <1>2, <1>3, <1>4, <1>5, <1>6, <1>7, <1>8 DEF Supervise

LEMMA CloseRowTypes ==
  ASSUME TypeOK, NEW o \in Offers, CloseRow(o)
  PROVE  /\ booked' \in [Offers -> {"none", "open", "closed"}]
         /\ mem' \in [Offers -> Nat] /\ rest' \subseteq Offers /\ pc' \in Places
  BY DEF TypeOK, CloseRow, Places

LEMMA ManageTypes == ASSUME TypeOK, Manage PROVE TypeOK'
  <1>1. CASE Hydrate
    <2>1. mem' \in [Offers -> Nat]  BY <1>1 DEF Hydrate, TypeOK
    <2>2. todo' \subseteq Offers  BY <1>1 DEF Hydrate
    <2> QED
      BY <1>1, <2>1, <2>2 DEF Hydrate, TypeOK, broker, store, rows, orb, history, Places
  <1>2. ASSUME NEW o \in Offers, NEW n \in 0 .. Bound, Exit(o, n) PROVE TypeOK'
    <2>1. held' \in Nat /\ sold' \in [Offers -> Nat] /\ todo' \subseteq Offers
      BY <1>2 DEF Exit, TypeOK
    <2>2. /\ booked' \in [Offers -> {"none", "open", "closed"}]
          /\ mem' \in [Offers -> Nat] /\ rest' \subseteq Offers /\ pc' \in Places
      <3>1. CASE sold[o] + n >= mem[o]  BY <1>2, <3>1, CloseRowTypes DEF Exit
      <3>2. CASE ~(sold[o] + n >= mem[o])  BY <1>2, <3>2 DEF Exit, TypeOK
      <3> QED  BY <3>1, <3>2
    <2> QED  BY <1>2, <2>1, <2>2 DEF Exit, TypeOK, store, orb, history
  <1>3. CASE ExitAdopted
    <2>1. held' \in Nat /\ adopted' \in Nat  BY <1>3 DEF ExitAdopted, TypeOK
    <2> QED  BY <1>3, <2>1 DEF ExitAdopted, TypeOK, store, orb, place, history
  <1>4. ASSUME NEW o \in Offers, RestCancels(o) PROVE TypeOK'
    <2>1. /\ st' \in [Offers -> Statuses]
          /\ state' \in [Offers -> {"none", "WORKING", "FILLED", "CANCELLED"}]
      BY <1>4, CancelTypes, CloseOutTypes DEF RestCancels
    <2> QED  BY <1>4, <2>1 DEF RestCancels, TypeOK, rows, orb, history
  <1>5. ASSUME NEW o \in Offers, RestCancelFails(o) PROVE TypeOK'
    BY <1>5 DEF RestCancelFails, TypeOK, broker, store, rows, orb, history
  <1>6. CASE Resolved
    BY <1>6 DEF Resolved, ReleaseEngine, TypeOK, broker, store, rows, history, Places
  <1>7. CASE Managed
    BY <1>7 DEF Managed, TypeOK, broker, store, rows, orb, history, Places
  <1> QED  BY <1>1, <1>2, <1>3, <1>4, <1>5, <1>6, <1>7 DEF Manage

LEMMA EnterTypes == ASSUME TypeOK, CallSound, Enter PROVE TypeOK'
  <1>1. CASE NoEntry
    BY <1>1 DEF NoEntry, TypeOK, broker, store, rows, orb, history, Places
  <1>2. ASSUME NEW o \in Offers, Place(o) PROVE TypeOK'
    <2>1. st' \in [Offers -> Statuses]  BY <1>2 DEF Place, Post, TypeOK, Statuses, Live
    <2> QED  BY <1>2, <2>1 DEF Place, Post, TypeOK, store, rows, orb, history, Places
  <1>3. CASE RecordPlacement
    <2>1. state' \in [Offers -> {"none", "WORKING", "FILLED", "CANCELLED"}]
      BY <1>3 DEF RecordPlacement, TypeOK
    <2> QED  BY <1>3, <2>1 DEF RecordPlacement, TypeOK, broker, rows, history, Places
  <1>4. CASE PlacementLost
    <2>1. unrecorded' \subseteq Offers /\ spent' \in BOOLEAN
      BY <1>4 DEF PlacementLost, TypeOK, CallSound
    <2> QED  BY <1>4, <2>1 DEF PlacementLost, TypeOK, broker, store, rows, Places
  <1> QED  BY <1>1, <1>2, <1>3, <1>4 DEF Enter

LEMMA BrokerTypes == ASSUME TypeOK, Broker PROVE TypeOK'
  <1>1. ASSUME NEW o \in Offers, NEW n \in 1 .. Size, BrokerFills(o, n) PROVE TypeOK'
    <2>1. filled[o] + n \in 0 .. Size  BY <1>1 DEF BrokerFills, TypeOK
    <2>2. filled' \in [Offers -> 0 .. Size] /\ held' \in Nat
      BY <1>1, <2>1 DEF BrokerFills, TypeOK
    <2>3. st' \in [Offers -> Statuses]  BY <1>1 DEF BrokerFills, TypeOK, Statuses
    <2> QED  BY <1>1, <2>2, <2>3 DEF BrokerFills, TypeOK, store, rows, orb, place, history
  <1>2. ASSUME NEW o \in Offers, BrokerEnds(o) PROVE TypeOK'
    <2>1. st' \in [Offers -> Statuses]  BY <1>2 DEF BrokerEnds, TypeOK, Statuses
    <2> QED  BY <1>2, <2>1 DEF BrokerEnds, TypeOK, store, rows, orb, place, history
  <1> QED  BY <1>1, <1>2 DEF Broker

LEMMA TypeStep == ASSUME TypeOK, CallSound, [Next]_vars PROVE TypeOK'
  <1>1. CASE Tick
    BY <1>1 DEF Tick, TypeOK, broker, store, rows, orb, history, Places
  <1>2. CASE Confirm
    BY <1>2 DEF Confirm, TypeOK, broker, store, rows, place, history
  <1>3. CASE FlattenWindow
    BY <1>3 DEF FlattenWindow, TypeOK, broker, store, rows, orb, place, history
  <1>4. CASE Crash
    <2>1. st' \in [Offers -> Statuses]  BY <1>4 DEF Crash, TypeOK, Statuses, Live
    <2>2. adopted' \in Nat /\ mem' \in [Offers -> Nat] /\ crashes' \in 0 .. MaxCrashes
      BY <1>4 DEF Crash, TypeOK
    <2> QED  BY <1>4, <2>1, <2>2, Bounds DEF Crash, TypeOK, store, orb, Places
  <1>5. CASE UNCHANGED vars
    BY <1>5 DEF vars, TypeOK, broker, store, rows, orb, place, history
  <1> QED
    BY <1>1, <1>2, <1>3, <1>4, <1>5, SuperviseTypes, ManageTypes, EnterTypes, BrokerTypes
    DEF Next

-----------------------------------------------------------------------------
(* The orders and the call.                                                *)

LEMMA CancelOrders ==
  ASSUME TypeOK, OrdersSound, NEW o \in Offers, CancelAccepted(o), UNCHANGED filled
  PROVE  OrdersSound'
  BY DEF TypeOK, OrdersSound, CancelAccepted, Live

LEMMA OrdersStep ==
  ASSUME TypeOK, CallSound, OrdersSound, [Next]_vars PROVE OrdersSound'
  <1>1. CASE UNCHANGED <<st, filled>>  BY <1>1 DEF OrdersSound
  <1>2. CASE Supervise
    <2>1. UNCHANGED <<st, filled>> \/ (TriggerCancels /\ UNCHANGED filled)
      BY <1>2 DEF Supervise, PollUnreadable, Poll, Adopt, AdoptFails, FullyFilled, Stands,
                  TriggerCancels, TriggerCancelFails, Supervised, broker
    <2>2. TriggerCancels => cur \in Offers /\ CancelAccepted(cur)
      BY DEF TriggerCancels, CallSound
    <2> QED  BY <1>1, <2>1, <2>2, CancelOrders
  <1>3. CASE Manage
    <2>1. \/ UNCHANGED <<st, filled>>
          \/ \E o \in Offers : CancelAccepted(o) /\ UNCHANGED filled
      BY <1>3 DEF Manage, Hydrate, Exit, ExitAdopted, RestCancels, RestCancelFails,
                  Resolved, Managed, broker
    <2> QED  BY <1>1, <2>1, CancelOrders
  <1>4. CASE Enter
    <2>1. ASSUME NEW o \in Offers, Place(o) PROVE OrdersSound'
      BY <2>1 DEF Place, Post, OrdersSound, TypeOK, Live
    <2> QED
      BY <1>1, <1>4, <2>1 DEF Enter, NoEntry, RecordPlacement, PlacementLost, broker
  <1>5. CASE Crash
    BY <1>5 DEF Crash, OrdersSound, TypeOK, Live
  <1>6. ASSUME NEW o \in Offers, NEW n \in 1 .. Size, BrokerFills(o, n) PROVE OrdersSound'
    BY <1>6 DEF BrokerFills, OrdersSound, TypeOK, Live
  <1>7. ASSUME NEW o \in Offers, BrokerEnds(o) PROVE OrdersSound'
    BY <1>7 DEF BrokerEnds, OrdersSound, TypeOK, Live
  <1>8. CASE Tick \/ Confirm \/ FlattenWindow \/ UNCHANGED vars
    BY <1>1, <1>8 DEF Tick, Confirm, FlattenWindow, vars, broker
  <1> QED  BY <1>2, <1>3, <1>4, <1>5, <1>6, <1>7, <1>8 DEF Next, Broker

LEMMA CallStep == ASSUME TypeOK, CallSound, [Next]_vars PROVE CallSound'
  <1>1. CASE Tick
    BY <1>1 DEF Tick, ReadStore, CallSound, Working, store
  <1>2. ASSUME NEW o \in Offers, PollUnreadable(o) PROVE CallSound'
    BY <1>2 DEF PollUnreadable, CallSound, Working, store
  <1>3. ASSUME NEW o \in Offers, Poll(o) PROVE CallSound'
    <2>1. /\ pc = "offers" /\ pc' \in {"adopt", "decide"} /\ o \in todo
          /\ todo' = todo \ {o} /\ cur' = o /\ got' = filled[o]
          /\ UNCHANGED <<state, filled>>
      BY <1>3 DEF Poll, broker
    <2> QED  BY <2>1 DEF CallSound, Working, TypeOK
  <1>4. CASE Adopt \/ AdoptFails
    <2>1. pc = "adopt" /\ pc' = "decide" /\ UNCHANGED <<todo, cur, got, state, filled>>
      BY <1>4 DEF Adopt, AdoptFails, broker, store
    <2> QED  BY <2>1 DEF CallSound, Working
  <1>5. CASE FullyFilled \/ TriggerCancels
    <2>1. /\ pc = "decide" /\ pc' = "offers" /\ UNCHANGED todo
          /\ state' = state \/ \E s : state' = [state EXCEPT ![cur] = s]
      BY <1>5 DEF FullyFilled, TriggerCancels, NextOffer, CloseOut
    <2>2. \A o \in todo : state'[o] = state[o]
      BY <2>1 DEF CallSound, TypeOK
    <2> QED  BY <2>1, <2>2 DEF CallSound, Working
  <1>6. CASE Stands \/ TriggerCancelFails
    <2>1. pc = "decide" /\ pc' = "offers" /\ UNCHANGED <<todo, state>>
      BY <1>6 DEF Stands, TriggerCancelFails, NextOffer, store
    <2> QED  BY <2>1 DEF CallSound, Working
  <1>7. CASE Supervised \/ Manage
    <2>1. pc' \in {"hydrate", "manage", "rest", "idle", "entry"}
      BY <1>7 DEF Supervised, Manage, Hydrate, Exit, CloseRow, ExitAdopted, RestCancels,
                  RestCancelFails, Resolved, Managed, place
    <2> QED  BY <2>1 DEF CallSound
  <1>8. CASE Enter \/ Crash
    <2>1. pc' = "idle" \/ (pc' = "record" /\ cur' \in Offers)
      BY <1>8 DEF Enter, NoEntry, Place, Post, RecordPlacement, PlacementLost, Crash
    <2> QED  BY <2>1 DEF CallSound
  <1>9. CASE Confirm \/ FlattenWindow \/ UNCHANGED vars
    <2>1. UNCHANGED <<pc, todo, cur, got, state, filled>>
      BY <1>9 DEF Confirm, FlattenWindow, vars, broker, store, place
    <2> QED  BY <2>1 DEF CallSound, Working
  <1>10. CASE Broker
    <2>1. UNCHANGED <<pc, todo, cur, got, state>>
      BY <1>10 DEF Broker, BrokerFills, BrokerEnds, store, place
    <2>2. \A o \in Offers : filled'[o] >= filled[o]
      BY <1>10 DEF Broker, BrokerFills, BrokerEnds, TypeOK
    <2>3. pc \in {"adopt", "decide"} => got <= filled'[cur]
      <3>1. TypeOK'  BY TypeStep
      <3>2. SUFFICES ASSUME pc \in {"adopt", "decide"} PROVE got <= filled'[cur]
        OBVIOUS
      <3>3. cur \in Offers /\ got <= filled[cur]  BY <3>2 DEF CallSound
      <3>4. filled[cur] \in Int /\ filled'[cur] \in Int /\ got \in Int
        BY <3>1, <3>3 DEF TypeOK
      <3> QED  BY <2>2, <3>3, <3>4
    <2> QED  BY <2>1, <2>3 DEF CallSound, Working
  <1> QED
    BY <1>1, <1>2, <1>3, <1>4, <1>5, <1>6, <1>7, <1>8, <1>9, <1>10 DEF Next, Supervise

(* The call, the orders and their types, by induction.                     *)
Sound == TypeOK /\ CallSound /\ OrdersSound

LEMMA SoundAlways == Spec => []Sound
  <1>1. Init => Sound
    BY TypeInit, Bounds DEF Init, Sound, CallSound, OrdersSound, Live
  <1>2. Sound /\ [Next]_vars => Sound'
    BY TypeStep, CallStep, OrdersStep DEF Sound
  <1> QED  BY <1>1, <1>2, PTL DEF Spec

(* Every reachable state of the standing offer is well typed.              *)
THEOREM TypeCorrect == Spec => []TypeOK
  BY SoundAlways, PTL DEF Sound

-----------------------------------------------------------------------------
(* The offers the store lists.                                             *)

(* A working order's offer stays listed while it works.                    *)
LEMMA ListedStep ==
  ASSUME Sound, WorkingIsSupervised, [Next]_vars PROVE WorkingIsSupervised'
  <1>t. TypeOK /\ TypeOK' /\ CallSound /\ OrdersSound  BY TypeStep DEF Sound
  <1>a. ASSUME UNCHANGED <<st, state, unrecorded>>, pc # "record"
        PROVE  WorkingIsSupervised'
    BY <1>a DEF WorkingIsSupervised
  <1>c. ASSUME NEW o \in Offers, CancelAccepted(o), CloseOut(o, "CANCELLED"), pc # "record",
               UNCHANGED unrecorded
        PROVE  WorkingIsSupervised'
    <2>1. \A p \in Offers : st'[p] = "working" => st[p] = "working" /\ p # o
      BY <1>c, <1>t DEF CancelAccepted, TypeOK
    <2>2. \A p \in Offers : p # o => state'[p] = state[p]
      BY <1>c, <1>t DEF CloseOut, TypeOK
    <2> QED  BY <1>c, <2>1, <2>2 DEF WorkingIsSupervised
  <1>1. CASE FullyFilled
    <2>1. /\ pc = "decide" /\ got >= Size /\ UNCHANGED <<st, unrecorded>>
          /\ \A p \in Offers : p # cur => state'[p] = state[p]
      BY <1>1, <1>t DEF FullyFilled, CloseOut, TypeOK, broker, history
    <2>2. filled[cur] = Size /\ cur \in Offers
      BY <2>1, <1>t DEF CallSound, TypeOK
    <2>3. st[cur] # "working"  BY <2>2, <1>t DEF OrdersSound, Live
    <2> QED  BY <2>1, <2>3 DEF WorkingIsSupervised
  <1>2. CASE TriggerCancels
    <2>1. cur \in Offers  BY <1>2, <1>t DEF TriggerCancels, CallSound
    <2> QED  BY <1>2, <1>c, <2>1 DEF TriggerCancels, history
  <1>3. ASSUME NEW o \in Offers, RestCancels(o) PROVE WorkingIsSupervised'
    BY <1>3, <1>c DEF RestCancels, history
  <1>4. CASE Supervise /\ ~FullyFilled /\ ~TriggerCancels
    BY <1>4, <1>a
    DEF Supervise, PollUnreadable, Poll, Adopt, AdoptFails, Stands, TriggerCancelFails,
        Supervised, broker, store, history
  <1>5. CASE Manage /\ ~(\E o \in Offers : RestCancels(o))
    BY <1>5, <1>a
    DEF Manage, Hydrate, Exit, ExitAdopted, RestCancelFails, Resolved, Managed, broker,
        store, history
  <1>6. ASSUME NEW o \in Offers, Place(o) PROVE WorkingIsSupervised'
    <2>1. /\ pc = "entry" /\ pc' = "record" /\ cur' = o /\ UNCHANGED <<state, unrecorded>>
          /\ \A p \in Offers : p # o => st'[p] = st[p]
      BY <1>6, <1>t DEF Place, Post, store, history, TypeOK
    <2> QED  BY <2>1 DEF WorkingIsSupervised
  <1>7. CASE RecordPlacement
    <2>1. /\ UNCHANGED <<st, unrecorded>> /\ pc = "record" /\ cur \in Offers
          /\ state'[cur] = "WORKING" /\ \A p \in Offers : p # cur => state'[p] = state[p]
      BY <1>7, <1>t DEF RecordPlacement, CallSound, TypeOK, broker, history
    <2> QED  BY <2>1 DEF WorkingIsSupervised
  <1>8. CASE PlacementLost
    <2>1. UNCHANGED <<st, state>> /\ unrecorded' = unrecorded \cup {cur}
      BY <1>8 DEF PlacementLost, broker, store
    <2> QED  BY <2>1 DEF WorkingIsSupervised
  <1>9. CASE Crash
    <2>1. \A o \in Offers : st'[o] = "working" => state'[o] = "WORKING"
      BY <1>9, <1>t DEF Crash, TypeOK, store
    <2> QED  BY <2>1 DEF WorkingIsSupervised
  <1>10. CASE Broker
    <2>1. UNCHANGED <<state, unrecorded, pc, cur>>
      BY <1>10 DEF Broker, BrokerFills, BrokerEnds, store, place, history
    <2>2. \A o \in Offers : st'[o] = "working" => st[o] = "working"
      BY <1>10, <1>t DEF Broker, BrokerFills, BrokerEnds, TypeOK
    <2> QED  BY <2>1, <2>2 DEF WorkingIsSupervised
  <1>11. CASE Tick \/ NoEntry \/ Confirm
    BY <1>11, <1>a DEF Tick, NoEntry, Confirm, broker, store, history
  <1>12. CASE FlattenWindow \/ UNCHANGED vars
    <2>1. UNCHANGED <<st, state, unrecorded, pc, cur>>
      BY <1>12 DEF FlattenWindow, vars, broker, store, place, history
    <2> QED  BY <2>1 DEF WorkingIsSupervised
  <1> QED
    BY <1>1, <1>2, <1>3, <1>4, <1>5, <1>6, <1>7, <1>8, <1>9, <1>10, <1>11, <1>12
    DEF Next, Enter

LEMMA ListedAlways == Spec => []WorkingIsSupervised
  <1>1. Init => WorkingIsSupervised
    BY DEF Init, WorkingIsSupervised
  <1>2. Sound /\ WorkingIsSupervised /\ [Next]_vars => WorkingIsSupervised'
    BY ListedStep
  <1> QED  BY <1>1, <1>2, SoundAlways, PTL DEF Spec

(* Under every fault and any number of restarts, an order that works at    *)
(* the broker and could be recorded is supervised (resting_orders.py).     *)
THEOREM SupervisedThroughout == Spec => []WorkingIsSupervised
  BY ListedAlways

-----------------------------------------------------------------------------
(* One offer at a time.                                                    *)

(* A step that lists no new offer keeps at most one listed.                *)
LEMMA WorkingShrinks ==
  ASSUME OneWorking, Working' \subseteq Working,
         pc' = "record" => pc = "record" \/ Working = {}
  PROVE  OneWorking'
  BY DEF OneWorking

LEMMA CloseOutShrinks ==
  ASSUME TypeOK, NEW o, NEW s \in {"FILLED", "CANCELLED"}, CloseOut(o, s)
  PROVE  Working' \subseteq Working
  BY DEF CloseOut, Working, TypeOK

LEMMA OneWorkingStep ==
  ASSUME "gate" \notin Faults, Sound, OneWorking, [Next]_vars PROVE OneWorking'
  <1>t. TypeOK /\ CallSound  BY DEF Sound
  <1>a. ASSUME state' = state, pc' # "record" \/ pc = "record" PROVE OneWorking'
    BY <1>a, WorkingShrinks DEF Working
  <1>1. CASE Supervise
    <2>1. pc' # "record"
      BY <1>1 DEF Supervise, PollUnreadable, Poll, Adopt, AdoptFails, FullyFilled, Stands,
                  TriggerCancels, TriggerCancelFails, NextOffer, Supervised
    <2>2. state' = state \/ \E s \in {"FILLED", "CANCELLED"} : CloseOut(cur, s)
      BY <1>1 DEF Supervise, PollUnreadable, Poll, Adopt, AdoptFails, FullyFilled, Stands,
                  TriggerCancels, TriggerCancelFails, Supervised, store
    <2> QED  BY <1>a, <1>t, <2>1, <2>2, CloseOutShrinks, WorkingShrinks
  <1>2. CASE Manage
    <2>1. pc' # "record" \/ pc = "record"
      BY <1>2 DEF Manage, Hydrate, Exit, CloseRow, ExitAdopted, RestCancels,
                  RestCancelFails, Resolved, Managed, place
    <2>2. state' = state \/ \E o \in Offers : CloseOut(o, "CANCELLED")
      BY <1>2 DEF Manage, Hydrate, Exit, ExitAdopted, RestCancels, RestCancelFails,
                  Resolved, Managed, store
    <2> QED  BY <1>a, <1>t, <2>1, <2>2, CloseOutShrinks, WorkingShrinks
  <1>3. ASSUME NEW o \in Offers, Place(o) PROVE OneWorking'
    <2>1. Working = {} /\ state' = state  BY <1>3 DEF Place, Post, store
    <2> QED  BY <2>1, WorkingShrinks DEF Working
  <1>4. CASE RecordPlacement
    <2>1. /\ pc = "record" /\ pc' = "idle" /\ state' = [state EXCEPT ![cur] = "WORKING"]
      BY <1>4 DEF RecordPlacement
    <2>2. Working = {}  BY <2>1 DEF OneWorking
    <2>3. Working' \subseteq {cur}  BY <2>1, <2>2, <1>t DEF Working, TypeOK
    <2> QED  BY <2>1, <2>3 DEF OneWorking
  <1>5. CASE NoEntry \/ PlacementLost \/ Crash \/ Tick \/ Confirm
    <2>1. state' = state
      BY <1>5 DEF NoEntry, PlacementLost, Crash, Tick, Confirm, store
    <2>2. pc' # "record"
      BY <1>5, <1>t DEF NoEntry, PlacementLost, Crash, Tick, Confirm, place
    <2> QED  BY <1>a, <2>1, <2>2
  <1>6. CASE Broker \/ FlattenWindow \/ UNCHANGED vars
    BY <1>6, <1>a DEF Broker, BrokerFills, BrokerEnds, FlattenWindow, vars, store, place
  <1> QED  BY <1>1, <1>2, <1>3, <1>4, <1>5, <1>6 DEF Next, Enter

LEMMA OneWorkingAlways == ASSUME "gate" \notin Faults PROVE Spec => []OneWorking
  <1>1. Init => OneWorking  BY DEF Init, OneWorking, Working
  <1>2. Sound /\ OneWorking /\ [Next]_vars => OneWorking'  BY OneWorkingStep
  <1> QED  BY <1>1, <1>2, SoundAlways, PTL DEF Spec

(* While the plan's gate can read the offer store, two recorded orders     *)
(* never work at once, whatever else fails ("one standing offer per        *)
(* setup", resting_orders.py).                                             *)
THEOREM OneOfferAtATime == ASSUME "gate" \notin Faults PROVE Spec => []OneOffer
  <1>1. WorkingIsSupervised /\ OneWorking => OneOffer
    BY DEF WorkingIsSupervised, OneWorking, OneOffer, Working
  <1> QED  BY <1>1, ListedAlways, OneWorkingAlways, PTL

-----------------------------------------------------------------------------
(* The row and the record against the broker's position.                   *)

(* A step that leaves the rows alone and takes nothing from the broker.    *)
LEMMA RowsKept ==
  ASSUME TypeOK, TypeOK', OneRow, UNCHANGED <<rows, mem, crashes>>, held' >= held,
         Working' \subseteq Working, pc' = "record" => pc = "record"
  PROVE  OneRow'
  <1>1. Open' = Open /\ UNCHANGED <<booked, row, adopted, sold>>  BY DEF Open, rows
  <1>2. CASE crashes # 0  BY <1>2 DEF OneRow
  <1>3. CASE crashes = 0
    <2>1. \A o \in Open : row[o] \in Int /\ sold[o] \in Int  BY DEF Open, TypeOK
    <2>2. \A o \in Offers : mem[o] \in Int /\ sold[o] \in Int  BY DEF TypeOK
    <2>3. held \in Int /\ held' \in Int  BY DEF TypeOK
    <2>4. \A o \in Open : row[o] - sold[o] <= held'
      BY <1>3, <2>1, <2>3 DEF OneRow
    <2>5. \A o \in Offers : mem[o] > 0 => mem[o] - sold[o] <= held'
      BY <1>3, <2>2, <2>3 DEF OneRow
    <2> QED  BY <1>1, <1>3, <2>4, <2>5 DEF OneRow
  <1> QED  BY <1>2, <1>3

LEMMA AdoptRow == ASSUME Sound, TypeOK', OneWorking, OneRow, Adopt PROVE OneRow'
  <1>t. TypeOK /\ cur \in Offers /\ cur \in Working
    BY DEF Sound, Adopt, CallSound, Working
  <1>1. /\ pc' = "decide" /\ UNCHANGED <<held, state, adopted, mem, crashes>>
        /\ booked'[cur] = "open" /\ row'[cur] = held
        /\ \A o \in Offers : o # cur => booked'[o] = booked[o]
        /\ sold'[cur] = IF booked[cur] = "open" THEN sold[cur] ELSE 0
    BY <1>t DEF Adopt, TypeOK, broker, store, history
  <1>2. SUFFICES ASSUME crashes = 0 PROVE OneRow'  BY <1>1 DEF OneRow
  <1>3. Open \subseteq {cur} /\ Open' = {cur}
    BY <1>t, <1>1, <1>2 DEF OneRow, Open
  <1>4. \A p \in Working' \cup Open' : p = cur
    BY <1>t, <1>1, <1>3 DEF OneWorking, Working
  <1>5. \A o \in Offers : mem[o] > 0 => o = cur /\ booked[cur] = "open"
    BY <1>2, <1>3 DEF OneRow, Open
  <1>6. row'[cur] - sold'[cur] <= held'
    <2>1. held \in Nat /\ sold'[cur] \in Nat  BY <1>t DEF TypeOK
    <2> QED  BY <1>1, <2>1
  <1>7. \A o \in Offers : mem'[o] > 0 => o \in Open' /\ mem'[o] - sold'[o] <= held'
    BY <1>1, <1>2, <1>3, <1>5 DEF OneRow
  <1> QED
    BY <1>1, <1>2, <1>3, <1>4, <1>6, <1>7 DEF OneRow

LEMMA HydrateRow == ASSUME TypeOK, OneRow, Hydrate PROVE OneRow'
  <1>1. /\ pc' = "manage"
        /\ UNCHANGED <<held, state, booked, row, adopted, sold, crashes>>
        /\ mem' = mem \/ mem' = [o \in Offers |-> IF o \in Open THEN row[o] ELSE 0]
    BY DEF Hydrate, broker, store, rows, history
  <1>2. Open' = Open /\ Working' = Working  BY <1>1 DEF Open, Working
  <1>3. SUFFICES ASSUME crashes = 0 PROVE OneRow'  BY <1>1 DEF OneRow
  <1>4. \A o \in Offers : mem'[o] > 0 => o \in Open /\ mem'[o] - sold[o] <= held
    BY <1>1, <1>3 DEF OneRow, Open
  <1> QED  BY <1>1, <1>2, <1>3, <1>4 DEF OneRow

LEMMA ExitRow ==
  ASSUME TypeOK, TypeOK', OneRow, NEW o \in Offers, NEW n \in 0 .. Bound, Exit(o, n)
  PROVE  OneRow'
  <1>1. /\ n \in Int /\ n >= 0 /\ (n = 0 \/ sold[o] + n <= mem[o])
        /\ held' = held - n /\ sold'[o] = sold[o] + n
        /\ UNCHANGED <<state, row, adopted, crashes>>
        /\ pc' # "record"
        /\ \A p \in Offers : p # o => sold'[p] = sold[p]
    BY DEF Exit, CloseRow, store, history, TypeOK
  <1>2. /\ Open' \subseteq Open /\ (o \in Open' => booked' = booked)
        /\ \A p \in Offers : mem'[p] > 0 => mem'[p] = mem[p]
        /\ \A p \in Offers : mem'[p] > 0 /\ p \in Open => p \in Open'
    <2>1. CASE CloseRow(o)  BY <2>1 DEF CloseRow, Open, TypeOK
    <2>2. CASE UNCHANGED <<booked, mem>>  BY <2>2 DEF Open
    <2> QED  BY <2>1, <2>2 DEF Exit
  <1>3. SUFFICES ASSUME crashes = 0 PROVE OneRow'  BY <1>1 DEF OneRow
  <1>4. n = 0 \/ o \in Open
    <2>1. mem[o] \in Nat /\ sold[o] \in Nat  BY DEF TypeOK
    <2> QED  BY <1>1, <1>3, <2>1 DEF OneRow
  <1>5. \A p \in Open : n = 0 \/ p = o  BY <1>3, <1>4 DEF OneRow
  <1>6. ASSUME NEW p \in Open' PROVE row'[p] - sold'[p] <= held'
    <2>1. p \in Offers /\ row[p] - sold[p] <= held
      BY <1>2, <1>3, <1>6 DEF OneRow, Open
    <2>2. row[p] \in Int /\ sold[p] \in Int /\ held \in Int  BY <2>1 DEF TypeOK
    <2>3. sold'[p] - sold[p] = n /\ sold'[p] \in Int
      BY <1>1, <1>2, <1>5, <1>6, <2>1, <2>2
    <2> QED  BY <1>1, <2>1, <2>2, <2>3
  <1>7. ASSUME NEW p \in Offers, mem'[p] > 0
        PROVE  p \in Open' /\ mem'[p] - sold'[p] <= held'
    <2>1. mem'[p] = mem[p] /\ p \in Open /\ p \in Open' /\ mem[p] - sold[p] <= held
      BY <1>2, <1>3, <1>7 DEF OneRow
    <2>2. mem[p] \in Int /\ sold[p] \in Int /\ held \in Int  BY DEF TypeOK
    <2>3. sold'[p] - sold[p] = n /\ sold'[p] \in Int
      BY <1>1, <1>5, <2>1, <2>2
    <2> QED  BY <1>1, <2>1, <2>2, <2>3
  <1>8. Working' = Working  BY <1>1 DEF Working
  <1> QED  BY <1>1, <1>2, <1>3, <1>6, <1>7, <1>8 DEF OneRow

LEMMA EnterRow == ASSUME Sound, TypeOK', OneRow, Enter, "gate" \notin Faults PROVE OneRow'
  <1>t. TypeOK  BY DEF Sound
  <1>1. CASE NoEntry \/ PlacementLost
    <2>1. /\ UNCHANGED <<rows, mem, crashes, held, state>> /\ pc' = "idle"
      BY <1>1 DEF NoEntry, PlacementLost, broker, store, history
    <2>2. held' >= held  BY <2>1, <1>t DEF TypeOK
    <2> QED  BY <1>t, <2>1, <2>2, RowsKept DEF Working
  <1>2. ASSUME NEW o \in Offers, Place(o) PROVE OneRow'
    <2>1. /\ NoneOpen /\ Working = {}
          /\ UNCHANGED <<held, state, booked, row, adopted, sold, mem, crashes>>
      BY <1>2 DEF Place, Post, store, rows, history
    <2>2. crashes = 0 => Open = {}
      BY <2>1 DEF NoneOpen, OneRow
    <2>3. Open' = Open /\ Working' = {}  BY <2>1 DEF Open, Working
    <2> QED  BY <2>1, <2>2, <2>3 DEF OneRow
  <1>3. CASE RecordPlacement
    <2>1. /\ pc = "record" /\ pc' = "idle"
          /\ UNCHANGED <<held, booked, row, adopted, sold, mem, crashes>>
      BY <1>3 DEF RecordPlacement, broker, rows, history
    <2>2. Open' = Open /\ (crashes = 0 => Open = {})  BY <2>1 DEF Open, OneRow
    <2> QED  BY <2>1, <2>2 DEF OneRow
  <1> QED  BY <1>1, <1>2, <1>3 DEF Enter

LEMMA OneRowStep ==
  ASSUME "gate" \notin Faults, Sound, OneWorking, OneRow, [Next]_vars PROVE OneRow'
  <1>t. TypeOK /\ TypeOK' /\ held' \in Int /\ held \in Int
    BY TypeStep DEF Sound, TypeOK
  <1>a. ASSUME UNCHANGED <<rows, mem, crashes, held>>, pc' = "record" => pc = "record",
               Working' \subseteq Working
        PROVE  OneRow'
    <2>1. held' >= held  BY <1>t, <1>a
    <2> QED  BY <1>a, <1>t, <2>1, RowsKept
  <1>1. CASE Supervise /\ ~Adopt
    <2>1. UNCHANGED <<rows, mem, crashes, held>>
      BY <1>1 DEF Supervise, PollUnreadable, Poll, AdoptFails, FullyFilled, Stands,
                  TriggerCancels, TriggerCancelFails, Supervised, broker, history
    <2>2. pc' # "record"
      BY <1>1 DEF Supervise, PollUnreadable, Poll, AdoptFails, FullyFilled, Stands,
                  TriggerCancels, TriggerCancelFails, NextOffer, Supervised
    <2>3. state' = state \/ \E s \in {"FILLED", "CANCELLED"} : CloseOut(cur, s)
      BY <1>1 DEF Supervise, PollUnreadable, Poll, AdoptFails, FullyFilled, Stands,
                  TriggerCancels, TriggerCancelFails, Supervised, store
    <2>4. Working' \subseteq Working  BY <2>3, <1>t, CloseOutShrinks DEF Working
    <2> QED  BY <1>a, <2>1, <2>2, <2>4
  <1>2. CASE Adopt  BY <1>2, <1>t, AdoptRow
  <1>3. CASE Hydrate  BY <1>3, <1>t, HydrateRow
  <1>4. ASSUME NEW o \in Offers, NEW n \in 0 .. Bound, Exit(o, n) PROVE OneRow'
    BY <1>4, <1>t, ExitRow
  <1>5. CASE ExitAdopted
    <2>1. crashes # 0 /\ crashes' = crashes
      BY <1>5, <1>t DEF ExitAdopted, OneRow, history, TypeOK
    <2> QED  BY <2>1 DEF OneRow
  <1>6. ASSUME NEW o \in Offers, RestCancels(o) \/ RestCancelFails(o) PROVE OneRow'
    <2>1. UNCHANGED <<rows, mem, crashes, held, pc>>
          /\ (state' = state \/ CloseOut(o, "CANCELLED"))
      BY <1>6 DEF RestCancels, RestCancelFails, broker, store, history
    <2>2. Working' \subseteq Working  BY <2>1, <1>t, CloseOutShrinks DEF Working
    <2> QED  BY <1>a, <2>1, <2>2
  <1>7. CASE Resolved \/ Managed \/ Tick \/ Confirm
    <2>1. UNCHANGED <<rows, mem, crashes, held, state>> /\ pc' # "record"
      BY <1>7 DEF Resolved, Managed, Tick, Confirm, broker, store, place, history
    <2> QED  BY <1>a, <2>1 DEF Working
  <1>8. CASE Enter  BY <1>8, <1>t, EnterRow
  <1>9. CASE Crash
    <2>1. crashes' # 0  BY <1>9, <1>t DEF Crash, TypeOK
    <2> QED  BY <2>1 DEF OneRow
  <1>10. CASE Broker
    <2>1. UNCHANGED <<rows, mem, crashes, state, pc>> /\ held' >= held
      BY <1>10, <1>t DEF Broker, BrokerFills, BrokerEnds, store, place, history
    <2> QED  BY <1>t, <2>1, RowsKept DEF Working
  <1>11. CASE FlattenWindow \/ UNCHANGED vars
    <2>1. UNCHANGED <<rows, mem, crashes, held, state, pc>>
      BY <1>11 DEF FlattenWindow, vars, broker, store, place, history
    <2> QED  BY <1>a, <2>1 DEF Working
  <1> QED
    BY <1>1, <1>2, <1>3, <1>4, <1>5, <1>6, <1>7, <1>8, <1>9, <1>10, <1>11
    DEF Next, Manage

LEMMA OneRowAlways == ASSUME "gate" \notin Faults PROVE Spec => []OneRow
  <1>1. Init => OneRow
    BY DEF Init, OneRow, Open, Working
  <1>2. Sound /\ OneWorking /\ OneRow /\ [Next]_vars => OneRow'  BY OneRowStep
  <1> QED  BY <1>1, <1>2, SoundAlways, OneWorkingAlways, PTL DEF Spec

(* Without a restart and while the plan's gate can read the offer store,   *)
(* at most one row is open, for no more than the broker holds.             *)
THEOREM RowIsHeld == ASSUME "gate" \notin Faults PROVE Spec => []RowWithinBroker
  <1>1. OneRow => RowWithinBroker  BY DEF OneRow, RowWithinBroker
  <1> QED  BY <1>1, OneRowAlways, PTL

(* Under the same conditions, the manager's record never has more left to  *)
(* sell than the broker holds, however the row is resized meanwhile.       *)
THEOREM NothingOversold == ASSUME "gate" \notin Faults PROVE Spec => []NeverOversold
  <1>1. OneRow => NeverOversold  BY DEF OneRow, NeverOversold
  <1> QED  BY <1>1, OneRowAlways, PTL

-----------------------------------------------------------------------------
(* Every fill that was noted is booked.                                    *)

LEMMA NotedStep == ASSUME Sound, NotedIsBooked, [Next]_vars PROVE NotedIsBooked'
  <1>t. TypeOK /\ CallSound  BY DEF Sound
  <1>a. ASSUME UNCHANGED <<seen, crashes, missed>>, pc # "adopt",
               \A o \in Offers : booked[o] # "none" => booked'[o] # "none"
        PROVE  NotedIsBooked'
    BY <1>a DEF NotedIsBooked
  <1>1. ASSUME NEW o \in Offers, Poll(o) PROVE NotedIsBooked'
    <2>1. /\ UNCHANGED <<booked, missed, crashes>> /\ pc = "offers" /\ cur' = o
          /\ \A p \in Offers : p # o => seen'[p] = seen[p]
          /\ pc' = "adopt" \/ seen'[o] = seen[o]
      BY <1>1, <1>t DEF Poll, rows, history, TypeOK
    <2> QED  BY <2>1 DEF NotedIsBooked
  <1>2. CASE Adopt
    <2>1. /\ UNCHANGED <<seen, missed, crashes>> /\ booked'[cur] = "open"
          /\ \A p \in Offers : p # cur => booked'[p] = booked[p]
      BY <1>2, <1>t DEF Adopt, CallSound, TypeOK, store, history
    <2> QED  BY <2>1 DEF NotedIsBooked
  <1>3. CASE AdoptFails
    <2>1. UNCHANGED <<seen, booked, crashes>> /\ missed' = missed \cup {cur}
      BY <1>3 DEF AdoptFails, store, rows
    <2> QED  BY <2>1 DEF NotedIsBooked
  <1>4. CASE Supervise /\ pc # "adopt" /\ ~(\E o \in Offers : Poll(o))
    <2>1. UNCHANGED <<seen, booked, crashes, missed>>
      BY <1>4 DEF Supervise, PollUnreadable, Adopt, AdoptFails, FullyFilled, Stands,
                  TriggerCancels, TriggerCancelFails, Supervised, store, rows, history
    <2> QED  BY <1>4, <1>a, <2>1
  <1>5. ASSUME NEW o \in Offers, NEW n \in 0 .. Bound, Exit(o, n) PROVE NotedIsBooked'
    <2>1. UNCHANGED <<seen, crashes, missed>> /\ pc = "manage"
      BY <1>5 DEF Exit, store, history
    <2>2. \A p \in Offers : booked[p] # "none" => booked'[p] # "none"
      BY <1>5, <1>t DEF Exit, CloseRow, TypeOK
    <2> QED  BY <1>a, <2>1, <2>2
  <1>6. CASE Hydrate \/ ExitAdopted \/ Resolved \/ Managed
    <2>1. UNCHANGED <<seen, booked, crashes, missed>> /\ pc # "adopt"
      BY <1>6 DEF Hydrate, ExitAdopted, Resolved, Managed, store, rows, history
    <2> QED  BY <1>a, <2>1
  <1>7. ASSUME NEW o \in Offers, RestCancels(o) \/ RestCancelFails(o) PROVE NotedIsBooked'
    <2>1. UNCHANGED <<seen, booked, crashes, missed>> /\ pc # "adopt"
      BY <1>7 DEF RestCancels, RestCancelFails, store, rows, history
    <2> QED  BY <1>a, <2>1
  <1>8. CASE Enter \/ Tick \/ Confirm
    <2>1. UNCHANGED <<seen, booked, crashes, missed>> /\ pc # "adopt"
      BY <1>8 DEF Enter, NoEntry, Place, Post, RecordPlacement, PlacementLost, Tick,
                  Confirm, store, rows, history
    <2> QED  BY <1>a, <2>1
  <1>9. CASE Crash
    <2>1. crashes' # 0  BY <1>9, <1>t DEF Crash, TypeOK
    <2> QED  BY <2>1 DEF NotedIsBooked
  <1>10. CASE Broker \/ FlattenWindow \/ UNCHANGED vars
    <2>1. UNCHANGED <<seen, booked, crashes, missed, pc, cur>>
      BY <1>10 DEF Broker, BrokerFills, BrokerEnds, FlattenWindow, vars, store, rows,
                   place, history
    <2> QED  BY <2>1 DEF NotedIsBooked
  <1>11. Supervise /\ pc = "adopt" => Adopt \/ AdoptFails
    BY DEF Supervise, PollUnreadable, Poll, FullyFilled, Stands, TriggerCancels,
           TriggerCancelFails, Supervised
  <1> QED
    BY <1>1, <1>2, <1>3, <1>4, <1>5, <1>6, <1>7, <1>8, <1>9, <1>10, <1>11
    DEF Next, Manage

LEMMA NotedAlways == Spec => []NotedIsBooked
  <1>1. Init => NotedIsBooked  BY DEF Init, NotedIsBooked
  <1>2. Sound /\ NotedIsBooked /\ [Next]_vars => NotedIsBooked'  BY NotedStep
  <1> QED  BY <1>1, <1>2, SoundAlways, PTL DEF Spec

(* Under every fault, until a restart, a fill the supervisor has noted has *)
(* a trade row unless its adoption failed (supervise).                     *)
THEOREM NotedFillsBooked == Spec => []SeenIsBooked
  <1>1. NotedIsBooked => SeenIsBooked  BY DEF NotedIsBooked, SeenIsBooked
  <1> QED  BY <1>1, NotedAlways, PTL

-----------------------------------------------------------------------------
(* The engine does not wait for nothing.                                   *)

(* Nothing is listed or booked for an order not posted; nothing is managed *)
(* or held as a record that was never booked; an offer being recorded has  *)
(* no row yet.                                                             *)
PostedFirst ==
  /\ \A o \in Offers : st[o] = "unused" => booked[o] = "none" /\ state[o] = "none"
  /\ \A o \in Offers : mem[o] > 0 => booked[o] # "none"
  /\ pc \in {"manage", "rest"} => \A o \in todo : booked[o] # "none"
  /\ pc = "record" => booked[cur] = "none" /\ st[cur] # "unused"

(* An offer whose fill was read is booked by the time its end is decided.  *)
DecidedIsBooked ==
  crashes = 0 /\ pc = "decide" /\ got > 0 => cur \in missed \/ booked[cur] # "none"

(* What the spent confirmation waits for: an open row, or an offer listed  *)
(* as working whose row has not been closed.  While the remainder of a     *)
(* closed row is cancelled, the release is still to come.                  *)
AwaitsSomething ==
  crashes = 0 /\ missed = {} /\ unrecorded = {} /\ engine = "open" /\ spent /\ pc # "rest" =>
    \E o \in Offers : booked[o] = "open" \/ (state[o] = "WORKING" /\ booked[o] = "none")

Awaited == PostedFirst /\ DecidedIsBooked /\ AwaitsSomething

(* A step that books nothing, closes nothing and posts nothing.            *)
LEMMA PostedKept ==
  ASSUME PostedFirst, UNCHANGED <<booked, mem>>,
         \A o \in Offers : st'[o] = "unused" => st[o] = "unused" /\ state'[o] = state[o],
         pc' \in {"manage", "rest"} => pc \in {"manage", "rest"} /\ todo' \subseteq todo,
         pc' = "record" => pc = "record" /\ cur' = cur /\ st'[cur] # "unused"
  PROVE  PostedFirst'
  BY DEF PostedFirst

LEMMA PostedStep ==
  ASSUME Sound, PostedFirst, [Next]_vars PROVE PostedFirst'
  <1>t. TypeOK /\ CallSound  BY DEF Sound
  <1>1. CASE Supervise /\ ~Adopt
    <2>1. /\ UNCHANGED <<booked, mem>> /\ pc' \notin {"manage", "rest", "record"}
      BY <1>1 DEF Supervise, PollUnreadable, Poll, AdoptFails, FullyFilled, Stands,
                  TriggerCancels, TriggerCancelFails, NextOffer, Supervised, rows
    <2>2. /\ st' = st \/ CancelAccepted(cur)
          /\ \/ state' = state
             \/ pc = "decide" /\ \E s : CloseOut(cur, s)
      BY <1>1 DEF Supervise, PollUnreadable, Poll, AdoptFails, FullyFilled, Stands,
                  TriggerCancels, TriggerCancelFails, Supervised, broker, store
    <2>3. pc = "decide" => cur \in Offers /\ st[cur] # "unused"
      BY <1>t DEF CallSound, PostedFirst
    <2>4. \A o \in Offers : st'[o] = "unused" => st[o] = "unused" /\ state'[o] = state[o]
      BY <2>2, <2>3, <1>t DEF CancelAccepted, CloseOut, TypeOK
    <2> QED  BY <2>1, <2>4, PostedKept
  <1>2. CASE Adopt
    <2>1. /\ pc' = "decide" /\ UNCHANGED <<st, state, mem>> /\ state[cur] = "WORKING"
          /\ booked'[cur] = "open" /\ cur \in Offers
          /\ \A p \in Offers : p # cur => booked'[p] = booked[p]
      BY <1>2, <1>t DEF Adopt, CallSound, TypeOK, broker, store
    <2> QED  BY <2>1 DEF PostedFirst
  <1>3. CASE Hydrate
    <2>1. /\ UNCHANGED <<st, state, booked>> /\ pc' = "manage"
          /\ \A o \in Offers : mem'[o] > 0 => mem[o] > 0 \/ booked[o] = "open"
          /\ \A o \in todo' : o \in Offers /\ mem'[o] > 0
      BY <1>3 DEF Hydrate, Open, broker, store, rows
    <2> QED  BY <2>1 DEF PostedFirst
  <1>4. ASSUME NEW o \in Offers, NEW n \in 0 .. Bound, Exit(o, n) PROVE PostedFirst'
    <2>1. /\ UNCHANGED <<st, state>> /\ pc = "manage" /\ pc' \in {"manage", "rest"}
          /\ o \in todo /\ todo' \subseteq todo
      BY <1>4 DEF Exit, CloseRow, store
    <2>2. /\ \A p \in Offers : mem'[p] > 0 => mem[p] > 0
          /\ \A p \in Offers : booked'[p] = booked[p] \/ (p = o /\ booked'[p] = "closed")
      <3>1. CASE CloseRow(o)  BY <3>1, <1>t DEF CloseRow, TypeOK
      <3>2. CASE UNCHANGED <<booked, mem>>  BY <3>2
      <3> QED  BY <1>4, <3>1, <3>2 DEF Exit
    <2>3. \A p \in Offers : booked[p] # "none" => booked'[p] # "none"
      BY <2>2
    <2>4. todo \subseteq Offers  BY <1>t DEF TypeOK
    <2> QED  BY <2>1, <2>2, <2>3, <2>4 DEF PostedFirst
  <1>5. CASE ExitAdopted \/ Managed \/ Resolved
    <2>1. /\ UNCHANGED <<st, state, booked, mem>>
          /\ pc' \in {"manage", "rest"} => pc \in {"manage", "rest"} /\ todo' \subseteq todo
          /\ pc' # "record"
      BY <1>5 DEF ExitAdopted, Managed, Resolved, broker, store, rows, place
    <2> QED  BY <2>1, PostedKept
  <1>6. ASSUME NEW o \in Offers, RestCancels(o) \/ RestCancelFails(o) PROVE PostedFirst'
    <2>1. /\ UNCHANGED <<booked, mem, pc, todo>> /\ pc = "rest"
          /\ \/ UNCHANGED <<st, state>>
             \/ CancelAccepted(o) /\ CloseOut(o, "CANCELLED")
      BY <1>6 DEF RestCancels, RestCancelFails, broker, store, rows
    <2>2. \A p \in Offers : st'[p] = "unused" => st[p] = "unused" /\ state'[p] = state[p]
      BY <2>1, <1>t DEF CancelAccepted, CloseOut, Live, TypeOK
    <2> QED  BY <2>1, <2>2, PostedKept
  <1>7. ASSUME NEW o \in Offers, Place(o) PROVE PostedFirst'
    <2>1. /\ UNCHANGED <<state, booked, mem>> /\ pc' = "record" /\ cur' = o
          /\ st[o] = "unused" /\ st'[o] = "working"
          /\ \A p \in Offers : p # o => st'[p] = st[p]
      BY <1>7, <1>t DEF Place, Post, TypeOK, store, rows
    <2> QED  BY <2>1 DEF PostedFirst
  <1>8. CASE RecordPlacement
    <2>1. /\ UNCHANGED <<st, booked, mem>> /\ pc = "record" /\ pc' = "idle"
          /\ cur \in Offers /\ \A p \in Offers : p # cur => state'[p] = state[p]
      BY <1>8, <1>t DEF RecordPlacement, CallSound, TypeOK, broker, rows
    <2> QED  BY <2>1 DEF PostedFirst
  <1>9. CASE NoEntry \/ PlacementLost \/ Tick \/ Confirm
    <2>1. /\ UNCHANGED <<st, state, booked, mem>> /\ pc' \notin {"manage", "rest", "record"}
      BY <1>9 DEF NoEntry, PlacementLost, Tick, Confirm, broker, store, rows, place
    <2> QED  BY <2>1, PostedKept
  <1>10. CASE Crash
    <2>1. /\ UNCHANGED <<state, booked>> /\ pc' = "idle"
          /\ \A o \in Offers : st'[o] = "unused" => st[o] = "unused"
          /\ \A o \in Offers : mem'[o] > 0 => booked[o] = "open"
      BY <1>10, <1>t DEF Crash, Open, store, TypeOK
    <2> QED  BY <2>1 DEF PostedFirst
  <1>11. CASE Broker
    <2>1. /\ UNCHANGED <<state, booked, mem, pc, todo, cur>>
      BY <1>11 DEF Broker, BrokerFills, BrokerEnds, store, rows, place
    <2>2. \A o \in Offers : st'[o] = "unused" => st[o] = "unused"
      BY <1>11, <1>t DEF Broker, BrokerFills, BrokerEnds, TypeOK
    <2>3. pc = "record" => cur \in Offers /\ st[cur] # "unused"
      BY <1>t DEF CallSound, PostedFirst
    <2> QED  BY <2>1, <2>2, <2>3, PostedKept
  <1>12. CASE FlattenWindow \/ UNCHANGED vars
    <2>1. UNCHANGED <<st, state, booked, mem, pc, todo, cur>>
      BY <1>12 DEF FlattenWindow, vars, broker, store, rows, place
    <2> QED  BY <2>1 DEF PostedFirst
  <1> QED
    BY <1>1, <1>2, <1>3, <1>4, <1>5, <1>6, <1>7, <1>8, <1>9, <1>10, <1>11, <1>12
    DEF Next, Manage, Enter

LEMMA DecidedStep ==
  ASSUME Sound, NotedIsBooked, DecidedIsBooked, [Next]_vars PROVE DecidedIsBooked'
  <1>t. TypeOK /\ CallSound  BY DEF Sound
  <1>1. ASSUME NEW o \in Offers, Poll(o) PROVE DecidedIsBooked'
    <2>1. /\ UNCHANGED <<booked, missed, crashes>> /\ pc = "offers" /\ cur' = o
          /\ got' = filled[o] /\ (pc' = "decide" => filled[o] = seen[o])
      BY <1>1 DEF Poll, rows, history
    <2> QED  BY <2>1 DEF NotedIsBooked, DecidedIsBooked
  <1>2. CASE Adopt
    <2>1. cur' = cur /\ booked'[cur] = "open"
      BY <1>2, <1>t DEF Adopt, CallSound, TypeOK
    <2> QED  BY <2>1 DEF DecidedIsBooked
  <1>3. CASE AdoptFails
    BY <1>3 DEF AdoptFails, DecidedIsBooked
  <1>4. CASE \/ Supervise /\ pc # "adopt" /\ ~(\E o \in Offers : Poll(o))
             \/ Manage \/ Enter \/ Tick \/ Confirm \/ Crash
    <2>1. pc' # "decide"
      <3>1. CASE Supervise /\ pc # "adopt" /\ ~(\E o \in Offers : Poll(o))
        BY <3>1 DEF Supervise, PollUnreadable, Adopt, AdoptFails, FullyFilled, Stands,
                    TriggerCancels, TriggerCancelFails, NextOffer, Supervised
      <3>2. CASE Manage
        BY <3>2 DEF Manage, Hydrate, Exit, CloseRow, ExitAdopted, RestCancels,
                    RestCancelFails, Resolved, Managed, place
      <3>3. CASE Enter \/ Tick \/ Confirm \/ Crash
        BY <3>3 DEF Enter, NoEntry, Place, Post, RecordPlacement, PlacementLost, Tick,
                    Confirm, Crash, place
      <3> QED  BY <1>4, <3>1, <3>2, <3>3
    <2> QED  BY <2>1 DEF DecidedIsBooked
  <1>5. CASE Broker \/ FlattenWindow \/ UNCHANGED vars
    <2>1. UNCHANGED <<booked, missed, crashes, pc, cur, got>>
      BY <1>5 DEF Broker, BrokerFills, BrokerEnds, FlattenWindow, vars, rows, place, history
    <2> QED  BY <2>1 DEF DecidedIsBooked
  <1>6. Supervise /\ pc = "adopt" => Adopt \/ AdoptFails
    BY DEF Supervise, PollUnreadable, Poll, FullyFilled, Stands, TriggerCancels,
           TriggerCancelFails, Supervised
  <1> QED
    BY <1>1, <1>2, <1>3, <1>4, <1>5, <1>6 DEF Next

(* A step that takes nothing away from what is waited for.                 *)
LEMMA AwaitsKept ==
  ASSUME AwaitsSomething, UNCHANGED <<engine, spent, booked, state>>,
         crashes' = 0 => crashes = 0, missed' = {} => missed = {},
         unrecorded' = {} => unrecorded = {}, pc = "rest" => pc' = "rest"
  PROVE  AwaitsSomething'
  BY DEF AwaitsSomething

LEMMA AwaitsStep ==
  ASSUME Sound, PostedFirst, DecidedIsBooked, AwaitsSomething, [Next]_vars
  PROVE  AwaitsSomething'
  <1>t. TypeOK /\ CallSound  BY DEF Sound
  <1>1. CASE FullyFilled
    <2>1. /\ UNCHANGED <<engine, spent, booked, crashes, missed, unrecorded>>
          /\ pc = "decide" /\ got > 0 /\ cur \in Offers
          /\ \A p \in Offers : p # cur => state'[p] = state[p]
      BY <1>1, <1>t DEF FullyFilled, CloseOut, CallSound, TypeOK, rows, orb, history
    <2>2. crashes = 0 /\ missed = {} => booked[cur] # "none"
      BY <2>1 DEF DecidedIsBooked
    <2> QED  BY <2>1, <2>2 DEF AwaitsSomething
  <1>2. CASE Supervise /\ ~FullyFilled /\ ~Adopt /\ ~TriggerCancels
    <2>1. /\ UNCHANGED <<engine, spent, booked, state, crashes, unrecorded>>
          /\ missed \subseteq missed' /\ pc # "rest"
      BY <1>2 DEF Supervise, PollUnreadable, Poll, AdoptFails, Stands, TriggerCancelFails,
                  Supervised, store, rows, orb, history
    <2> QED  BY <2>1, AwaitsKept
  <1>3. CASE Adopt
    <2>1. cur \in Offers /\ booked'[cur] = "open"
      BY <1>3, <1>t DEF Adopt, CallSound, TypeOK
    <2> QED  BY <2>1 DEF AwaitsSomething
  <1>4. CASE TriggerCancels \/ Resolved
    BY <1>4 DEF TriggerCancels, Resolved, ReleaseEngine, AwaitsSomething
  <1>5. CASE Hydrate \/ ExitAdopted \/ Managed
    <2>1. UNCHANGED <<engine, spent, booked, state, crashes, missed, unrecorded>> /\ pc # "rest"
      BY <1>5 DEF Hydrate, ExitAdopted, Managed, store, rows, orb, history
    <2> QED  BY <2>1, AwaitsKept
  <1>6. ASSUME NEW o \in Offers, NEW n \in 0 .. Bound, Exit(o, n) PROVE AwaitsSomething'
    <2>1. CASE CloseRow(o)  BY <2>1 DEF CloseRow, AwaitsSomething
    <2>2. CASE UNCHANGED <<booked, mem, rest, pc>>
      BY <1>6, <2>2, AwaitsKept DEF Exit, store, orb, history
    <2> QED  BY <1>6, <2>1, <2>2 DEF Exit
  <1>7. ASSUME NEW o \in Offers, RestCancels(o) \/ RestCancelFails(o) PROVE AwaitsSomething'
    BY <1>7 DEF RestCancels, RestCancelFails, AwaitsSomething
  <1>8. ASSUME NEW o \in Offers, Place(o) PROVE AwaitsSomething'
    BY <1>8 DEF Place, Post, orb, AwaitsSomething
  <1>9. CASE RecordPlacement
    <2>1. cur \in Offers /\ state'[cur] = "WORKING" /\ booked'[cur] = "none"
      BY <1>9, <1>t DEF RecordPlacement, CallSound, PostedFirst, TypeOK, rows
    <2> QED  BY <2>1 DEF AwaitsSomething
  <1>10. CASE PlacementLost
    BY <1>10 DEF PlacementLost, AwaitsSomething
  <1>11. CASE Confirm
    BY <1>11 DEF Confirm, AwaitsSomething
  <1>12. CASE NoEntry \/ Tick
    <2>1. UNCHANGED <<engine, spent, booked, state, crashes, missed, unrecorded>> /\ pc # "rest"
      BY <1>12 DEF NoEntry, Tick, store, rows, orb, history
    <2> QED  BY <2>1, AwaitsKept
  <1>13. CASE Crash
    <2>1. crashes' # 0  BY <1>13, <1>t DEF Crash, TypeOK
    <2> QED  BY <2>1 DEF AwaitsSomething
  <1>14. CASE Broker \/ FlattenWindow \/ UNCHANGED vars
    <2>1. UNCHANGED <<engine, spent, booked, state, crashes, missed, unrecorded, pc>>
      BY <1>14 DEF Broker, BrokerFills, BrokerEnds, FlattenWindow, vars, store, rows, orb,
                   place, history
    <2> QED  BY <2>1, AwaitsKept
  <1> QED
    BY <1>1, <1>2, <1>3, <1>4, <1>5, <1>6, <1>7, <1>8, <1>9, <1>10, <1>11, <1>12, <1>13, <1>14
    DEF Next, Supervise, Manage, Enter

(* Under every fault, the ORB engine that has spent its confirmation waits *)
(* between ticks only for an offer the store lists as working or for an    *)
(* open row, until a restart, a fill that could not be adopted or an order *)
(* that could not be recorded (supervise, notify_position_closed).         *)
THEOREM EngineNeverWaitsInVain == Spec => []EngineWaits
  <1>1. Init => Awaited
    BY DEF Init, Awaited, PostedFirst, DecidedIsBooked, AwaitsSomething
  <1>2. Sound /\ NotedIsBooked /\ Awaited /\ [Next]_vars => Awaited'
    BY PostedStep, DecidedStep, AwaitsStep DEF Awaited
  <1>3. Awaited => EngineWaits
    BY DEF Awaited, AwaitsSomething, EngineWaits, Working, Open
  <1> QED  BY <1>1, <1>2, <1>3, SoundAlways, NotedAlways, PTL DEF Spec
=============================================================================
