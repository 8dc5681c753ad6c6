--------------------------- MODULE LiveExitProofs ---------------------------
(***************************************************************************)
(* What LiveExit guarantees for every size of position and every number of *)
(* closing orders: under every fault, a row is booked closed only when the *)
(* broker has closed the whole position; under the benign faults, nothing  *)
(* is forgotten, only the remainder is ever resubmitted, and the close     *)
(* implements CloseOnce.  And the measures of its progress: a pass is      *)
(* short, and what the broker has closed is soon booked.                   *)
(***************************************************************************)
EXTENDS LiveExit, TLAPS

USE TotalAssumption, BoundsAssumption, FaultsAssumption

-----------------------------------------------------------------------------
(* The operators the passes are built from.                                *)

LEMMA BlankType == Blank \in ExitMem /\ Blank.fills = 0 /\ Blank.oid = NoOrder
  BY DEF Blank, ExitMem

(* What the row keeps claims the same fills and names the same order.      *)
LEMMA PersistedType ==
  ASSUME NEW m \in ExitMem
  PROVE  /\ Persisted(m) \in ExitMem
         /\ Persisted(m).fills = m.fills
         /\ Persisted(m).oid = m.oid
  BY DEF Persisted, ExitMem, Blank, NoOrder

(* A save leaves the row open or closed as it was, and its state is the    *)
(* saved one unless the write failed.                                      *)
LEMMA SaveLemma ==
  ASSUME row \in [open : BOOLEAN, state : ExitMem], NEW m \in ExitMem, Save(m)
  PROVE  /\ row' \in [open : BOOLEAN, state : ExitMem]
         /\ copy' = Persisted(m)
         /\ row'.open = row.open
         /\ row'.state \in {row.state, Persisted(m)}
         /\ "save" \notin Faults /\ copy = row.state => row'.state = Persisted(m)
  BY PersistedType DEF Save

(* A harvested order is forgotten and the fills read from it are added.    *)
LEMMA HarvestLemma ==
  ASSUME mem \in ExitMem, NEW n \in Nat
  PROVE  /\ Harvest(n) \in ExitMem
         /\ Harvest(n).oid = NoOrder
         /\ Harvest(n).fills = mem.fills + n
  BY DEF Harvest, ExitMem

(* A pass starts polling, and asks for a cancel, with no poll counted.     *)
LEMMA NoPolls == 0 \in 0 .. MaxPolls
  BY DEF BoundsAssumption

LEMMA FilledByType ==
  ASSUME TypeOK, NEW o \in OrderIds \cup {NoOrder}
  PROVE  FilledBy(orders, o) \in Nat
  BY DEF FilledBy, TypeOK, NoOrder, OrderIds

-----------------------------------------------------------------------------
(* Nothing is invented, whatever fails.                                    *)

LEMMA InventedInit == Init => NothingInvented
<1> SUFFICES ASSUME Init PROVE NothingInvented
    OBVIOUS
<1>1. TypeOK
    BY BlankType, NoPolls DEF Init, TypeOK, Unused, Statuses, Live, Places
<1>2. Claims(orders, Blank) <= closed
    BY BlankType DEF Claims, FilledBy, Init
<1> QED
    BY <1>1, <1>2, BlankType DEF Init, NothingInvented, Unused

(* Saving a memory that claims no more than was closed.                    *)
LEMMA SavedClaims ==
  ASSUME NothingInvented, NEW m \in ExitMem, Save(m), Claims(orders, m) <= closed
  PROVE  /\ Claims(orders, copy') <= closed
         /\ Claims(orders, row'.state) <= closed
  <1>1. Claims(orders, Persisted(m)) <= closed
    BY PersistedType DEF Claims
  <1> QED
    BY <1>1, SaveLemma DEF NothingInvented, TypeOK

LEMMA BlankClaims == ASSUME NothingInvented PROVE Claims(orders, Blank) <= closed
  BY BlankType DEF Claims, FilledBy, NothingInvented, TypeOK

LEMMA HarvestClaims ==
  ASSUME NothingInvented, mem.oid \in OrderIds, NEW n \in ReadFills(mem.oid)
  PROVE  /\ n \in Nat
         /\ Harvest(n) \in ExitMem
         /\ Harvest(n).oid = NoOrder
         /\ Harvest(n).fills <= closed
         /\ Claims(orders, Harvest(n)) <= closed
  <1>1. /\ mem.oid # NoOrder
        /\ orders[mem.oid].filled \in Nat
        /\ mem \in ExitMem /\ mem.fills \in Nat
        /\ closed \in Nat
        /\ mem.fills + orders[mem.oid].filled <= closed
    BY DEF NothingInvented, TypeOK, Claims, FilledBy, OrderIds, NoOrder, ExitMem
  <1>2. n \in Nat /\ mem.fills + n <= closed
    BY <1>1 DEF ReadFills
  <1> QED
    BY <1>1, <1>2, HarvestLemma DEF Claims, FilledBy

(* A pass that ends, remembering m.                                        *)
LEMMA EndPassInvented ==
  ASSUME NothingInvented, NEW m \in ExitMem, Claims(orders, m) <= closed,
         EndPass(m), UNCHANGED broker,
         seen' \in Statuses, cancelled' \in BOOLEAN, polls' \in 0 .. MaxPolls
  PROVE  NothingInvented'
  <1>0. row' \in [open : BOOLEAN, state : ExitMem] /\ copy' \in ExitMem
    BY SaveLemma, PersistedType DEF EndPass, NothingInvented, TypeOK
  <1>1. TypeOK'
    BY <1>0 DEF EndPass, NothingInvented, TypeOK, broker, Places
  <1>2. \A k \in {mem', row'.state, copy'} : Claims(orders', k) <= closed'
    BY SavedClaims DEF EndPass, broker
  <1>3. row'.open = row.open
    BY SaveLemma DEF EndPass, NothingInvented, TypeOK
  <1> QED
    BY <1>1, <1>2, <1>3 DEF NothingInvented, EndPass, broker

(* A pass that books, once the whole position is closed.                   *)
LEMMA BookInvented ==
  ASSUME NothingInvented, Book, closed >= Total, UNCHANGED broker,
         seen' \in Statuses, cancelled' \in BOOLEAN, polls' \in 0 .. MaxPolls
  PROVE  NothingInvented'
  <1>0. row' \in [open : BOOLEAN, state : ExitMem] /\ copy' \in ExitMem
    BY SaveLemma, PersistedType, BlankType DEF Book, NothingInvented, TypeOK
  <1>1. TypeOK'
    BY <1>0, BlankType DEF Book, NothingInvented, TypeOK, broker, Places
  <1>2. \A k \in {mem', row'.state, copy'} : Claims(orders', k) <= closed'
    BY SavedClaims, BlankType, BlankClaims DEF Book, broker
  <1> QED
    BY <1>1, <1>2 DEF NothingInvented, Book, broker

(* A new order has made no fill, so every claim stands.                    *)
LEMMA PlaceInvented ==
  ASSUME NothingInvented, NEW o \in OrderIds, pc = "submit", Place(o)
  PROVE  /\ orders' \in [OrderIds -> [st : Statuses, qty : Nat, filled : Nat]]
         /\ closed' = closed
         /\ \A k \in ExitMem : Claims(orders', k) = Claims(orders, k)
         /\ \A p \in OrderIds : orders'[p].st = "unused" => orders'[p].filled = 0
         /\ orders'[o].filled = 0
  <1>1. Total - mem.fills \in Nat
    BY DEF NothingInvented, TypeOK, ExitMem
  <1>2. orders \in [OrderIds -> [st : Statuses, qty : Nat, filled : Nat]]
    BY DEF NothingInvented, TypeOK
  <1>3. [st |-> "working", qty |-> Total - mem.fills, filled |-> 0]
          \in [st : Statuses, qty : Nat, filled : Nat]
    BY <1>1 DEF Statuses, Live
  <1>4. orders' \in [OrderIds -> [st : Statuses, qty : Nat, filled : Nat]]
    BY <1>2, <1>3 DEF Place
  <1>5. orders[o].filled = 0 /\ orders'[o].filled = 0
    BY <1>2 DEF Place, NothingInvented
  <1>6. \A p \in OrderIds : orders'[p].filled = orders[p].filled
    BY <1>2, <1>5 DEF Place
  <1>7. \A k \in ExitMem : Claims(orders', k) = Claims(orders, k)
    BY <1>6 DEF Claims, FilledBy, ExitMem
  <1>8. \A p \in OrderIds : orders'[p].st = "unused" => orders'[p].filled = 0
    BY <1>2, <1>5 DEF Place, NothingInvented
  <1> QED
    BY <1>4, <1>5, <1>7, <1>8 DEF Place

LEMMA InventedStep == NothingInvented /\ [Next]_vars => NothingInvented'
<1> SUFFICES ASSUME NothingInvented, [Next]_vars PROVE NothingInvented'
    OBVIOUS
<1> USE DEF Places, Statuses, Live
<1>t. /\ TypeOK
      /\ closed \in Nat /\ mem \in ExitMem /\ copy \in ExitMem
      /\ row \in [open : BOOLEAN, state : ExitMem] /\ row.state \in ExitMem
      /\ mem.fills \in Nat
      /\ orders \in [OrderIds -> [st : Statuses, qty : Nat, filled : Nat]]
      /\ seen \in Statuses /\ cancelled \in BOOLEAN /\ polls \in 0 .. MaxPolls
      /\ pc \in {"fetch", "posted", "poll", "waiting"} => mem.oid \in OrderIds
    BY DEF NothingInvented, TypeOK, ExitMem
<1>c. /\ Claims(orders, mem) <= closed
      /\ mem.fills <= closed
  <2>1. Claims(orders, mem) <= closed
    BY DEF NothingInvented
  <2>2. FilledBy(orders, mem.oid) \in Nat
    BY <1>t, FilledByType DEF ExitMem
  <2> QED
    BY <2>1, <2>2, <1>t DEF Claims
<1>0. CASE UNCHANGED vars
    BY <1>0 DEF vars, NothingInvented, TypeOK
<1>1. CASE StartPass
  <2>1. CASE mem.fills >= Total
    <3>1. Book /\ closed >= Total
      BY <1>1, <2>1, <1>t, <1>c DEF StartPass
    <3> QED
      BY <1>1, <3>1, <1>t, BookInvented DEF StartPass, pollVars
  <2>2. CASE ~(mem.fills >= Total)
    BY <1>1, <2>2, <1>t DEF StartPass, NothingInvented, TypeOK, broker, pollVars
  <2> QED
    BY <2>1, <2>2
<1>2. CASE FetchPrior
  <2>1. CASE orders[mem.oid].st = "dead"
    <3>1. PICK n \in ReadFills(mem.oid) :
             /\ IF Harvest(n).fills >= Total THEN Book
                ELSE mem' = Harvest(n) /\ pc' = "submit" /\ UNCHANGED <<row, copy>>
             /\ UNCHANGED <<broker, pollVars>>
      BY <1>2, <2>1 DEF FetchPrior
    <3>2. /\ Harvest(n) \in ExitMem /\ n \in Nat
          /\ Harvest(n).oid = NoOrder
          /\ Harvest(n).fills <= closed
          /\ Claims(orders, Harvest(n)) <= closed
      BY <1>2, <1>t, HarvestClaims DEF FetchPrior
    <3>3. CASE Harvest(n).fills >= Total
      <4>1. closed >= Total
        BY <3>2, <3>3, <1>t DEF ExitMem
      <4> QED
        BY <3>1, <3>3, <4>1, <1>t, BookInvented DEF pollVars
    <3>4. CASE ~(Harvest(n).fills >= Total)
      <4>1. mem' \in ExitMem /\ mem'.fills < Total
        BY <3>1, <3>2, <3>4 DEF ExitMem
      <4> QED
        BY <3>1, <3>2, <3>4, <4>1, <1>t, <1>2
        DEF FetchPrior, NothingInvented, TypeOK, broker, pollVars
    <3> QED
      BY <3>3, <3>4
  <2>2. CASE orders[mem.oid].st # "dead"
    <3>1. /\ seen' = orders[mem.oid].st /\ pc' = "poll" /\ cancelled' = FALSE /\ polls' = 0
          /\ UNCHANGED <<row, mem, copy, orders, closed>> /\ mem.oid \in OrderIds
      BY <1>2, <2>2, <1>t DEF FetchPrior, StartPolling, broker
    <3>2. seen' \in Statuses
      BY <3>1, <1>t
    <3> QED
      BY <3>1, <3>2, <1>2, <1>t, NoPolls DEF FetchPrior, NothingInvented, TypeOK
  <2> QED
    BY <2>1, <2>2
<1>3. CASE FetchFails
  <2>1. mem' \in ExitMem /\ mem'.fills = mem.fills /\ mem'.oid = NoOrder
    BY <1>3, <1>t DEF FetchFails, ExitMem
  <2>2. Claims(orders, mem') <= closed
    BY <2>1, <1>c, <1>t DEF Claims, FilledBy
  <2> QED
    BY <1>3, <2>1, <2>2, <1>t DEF FetchFails, NothingInvented, TypeOK, broker, pollVars
<1>4. ASSUME NEW o \in OrderIds, SubmitAccepted(o) PROVE NothingInvented'
  <2>1. pc = "submit" /\ Place(o)
    BY <1>4 DEF SubmitAccepted
  <2>2. mem' \in ExitMem /\ mem'.fills = mem.fills /\ mem'.oid = o /\ o # NoOrder
    BY <1>4, <1>t DEF SubmitAccepted, ExitMem, OrderIds, NoOrder
  <2>3. Claims(orders', mem') <= closed
    BY <2>1, <2>2, <1>c, <1>t, PlaceInvented DEF Claims, FilledBy
  <2>4. TypeOK'
    BY <1>4, <1>t, <2>1, <2>2, PlaceInvented DEF SubmitAccepted, TypeOK
  <2>5. \A k \in {mem', row'.state, copy'} : Claims(orders', k) <= closed'
    BY <1>4, <1>t, <2>1, <2>3, PlaceInvented DEF SubmitAccepted, NothingInvented
  <2> QED
    BY <1>4, <1>t, <2>1, <2>2, <2>4, <2>5, PlaceInvented DEF SubmitAccepted, NothingInvented
<1>5. ASSUME NEW o \in OrderIds, SubmitLost(o) PROVE NothingInvented'
  <2>1. /\ pc = "submit" /\ Place(o) /\ Save(mem) /\ mem' = mem /\ pc' = "idle"
        /\ UNCHANGED pollVars
    BY <1>5 DEF SubmitLost, EndPass
  <2>s. row' \in [open : BOOLEAN, state : ExitMem] /\ copy' \in ExitMem
    BY <2>1, <1>t, SaveLemma, PersistedType
  <2>2. TypeOK'
    BY <2>1, <2>s, <1>t, PlaceInvented DEF TypeOK, pollVars
  <2>3. /\ row'.state \in ExitMem /\ copy' \in ExitMem
        /\ Claims(orders, row'.state) <= closed /\ Claims(orders, copy') <= closed
    BY <2>1, <2>2, <1>t, <1>c, SavedClaims DEF TypeOK
  <2>4. \A k \in {mem', row'.state, copy'} : Claims(orders', k) <= closed'
    BY <2>1, <2>3, <1>c, <1>t, PlaceInvented
  <2>5. row'.open = row.open
    BY <2>1, <1>t, SaveLemma
  <2> QED
    BY <2>1, <2>2, <2>4, <2>5, PlaceInvented DEF NothingInvented
<1>6. CASE SubmitRefused
    BY <1>6, <1>t, <1>c, EndPassInvented DEF SubmitRefused, pollVars
<1>7. CASE SaveOrder
  <2>1. Save(mem) /\ pc' = "poll" /\ mem' = mem /\ UNCHANGED broker /\ seen' = seen
        /\ cancelled' = FALSE /\ polls' = 0 /\ pc = "posted"
    BY <1>7 DEF SaveOrder, StartPolling
  <2>s. row' \in [open : BOOLEAN, state : ExitMem] /\ copy' \in ExitMem
    BY <2>1, <1>t, SaveLemma, PersistedType
  <2>2. TypeOK'
    BY <2>1, <2>s, <1>t, NoPolls DEF TypeOK, broker
  <2>3. \A k \in {mem', row'.state, copy'} : Claims(orders', k) <= closed'
    BY <2>1, <1>t, <1>c, SavedClaims DEF broker
  <2>4. row'.open = row.open
    BY <2>1, <1>t, SaveLemma
  <2> QED
    BY <2>1, <2>2, <2>3, <2>4 DEF NothingInvented, broker
<1>8. CASE Poll
  <2> DEFINE st == seen'
  <2>1. /\ st \in Statuses /\ UNCHANGED <<broker, cancelled, polls>> /\ pc = "poll"
        /\ mem.oid \in OrderIds
        /\ \/ \E n \in ReadFills(mem.oid) :
                  IF Harvest(n).fills >= Total THEN Book ELSE EndPass(Harvest(n))
           \/ EndPass([mem EXCEPT !.oid = NoOrder])
           \/ pc' = "waiting" /\ UNCHANGED <<row, mem, copy>>
    <3>1. PICK s \in {orders[mem.oid].st} \cup (IF "poll" \in Faults THEN {seen} ELSE {}) :
            seen' = s
      BY <1>8 DEF Poll
    <3>2. mem.oid \in OrderIds
      BY <1>8, <1>t DEF Poll
    <3>3. s \in Statuses
      BY <3>1, <3>2, <1>t
    <3> QED
      BY <1>8, <3>1, <3>2, <3>3 DEF Poll
  <2>2. CASE \E n \in ReadFills(mem.oid) :
               IF Harvest(n).fills >= Total THEN Book ELSE EndPass(Harvest(n))
    <3>1. PICK n \in ReadFills(mem.oid) :
             IF Harvest(n).fills >= Total THEN Book ELSE EndPass(Harvest(n))
      BY <2>2
    <3>2. /\ Harvest(n) \in ExitMem
          /\ Harvest(n).fills <= closed
          /\ Claims(orders, Harvest(n)) <= closed
      BY <2>1, HarvestClaims
    <3>3. CASE Harvest(n).fills >= Total
      <4>1. closed >= Total
        BY <3>2, <3>3, <1>t DEF ExitMem
      <4> QED
        BY <3>1, <3>3, <4>1, <2>1, <1>t, BookInvented
    <3>4. CASE ~(Harvest(n).fills >= Total)
      BY <3>1, <3>2, <3>4, <2>1, <1>t, EndPassInvented
    <3> QED
      BY <3>3, <3>4
  <2>3. CASE EndPass([mem EXCEPT !.oid = NoOrder])
    <3> DEFINE m == [mem EXCEPT !.oid = NoOrder]
    <3>1. m \in ExitMem /\ m.fills = mem.fills /\ m.oid = NoOrder
      BY <1>t DEF ExitMem
    <3>2. Claims(orders, m) <= closed
      BY <3>1, <1>c, <1>t DEF Claims, FilledBy
    <3> HIDE DEF m
    <3>3. EndPass(m)
      BY <2>3 DEF m
    <3> QED
      BY <3>1, <3>2, <3>3, <2>1, <1>t, EndPassInvented
  <2>4. CASE pc' = "waiting" /\ UNCHANGED <<row, mem, copy>>
    BY <2>1, <2>4, <1>t DEF NothingInvented, TypeOK, broker
  <2> QED
    BY <2>1, <2>2, <2>3, <2>4
<1>9. CASE PollAgain
    BY <1>9, <1>t DEF PollAgain, NothingInvented, TypeOK, broker
<1>12. CASE DeadlineCancel
  <2>1. /\ mem.oid \in OrderIds /\ pc = "waiting" /\ pc' = "poll"
        /\ orders' = [orders EXCEPT ![mem.oid] = WithStatus(@, "cancelling")]
        /\ UNCHANGED <<closed, row, mem, copy, seen>>
        /\ cancelled' = TRUE /\ polls' = 0
    BY <1>12, <1>t DEF DeadlineCancel
  <2>2. orders' \in [OrderIds -> [st : Statuses, qty : Nat, filled : Nat]]
    BY <2>1, <1>t DEF WithStatus
  <2>3. \A p \in OrderIds : orders'[p].filled = orders[p].filled
                          /\ (orders'[p].st = "unused" => orders[p].st = "unused")
    BY <2>1, <1>t DEF WithStatus
  <2>4. \A k \in ExitMem : Claims(orders', k) = Claims(orders, k)
    BY <2>3 DEF Claims, FilledBy, ExitMem
  <2>5. TypeOK'
    BY <2>1, <2>2, <1>t, NoPolls DEF TypeOK
  <2>6. \A k \in {mem', row'.state, copy'} : Claims(orders', k) <= closed'
    BY <2>1, <2>4, <1>t DEF NothingInvented
  <2> QED
    BY <2>1, <2>3, <2>5, <2>6, <1>t DEF NothingInvented
<1>13. CASE DeadlineCancelFails
    BY <1>13, <1>t, <1>c, EndPassInvented DEF DeadlineCancelFails, pollVars
<1>14. CASE GraceOver
    BY <1>14, <1>t, <1>c, EndPassInvented DEF GraceOver, pollVars
<1>15. CASE LogExit
    BY <1>15, <1>t DEF LogExit, NothingInvented, TypeOK, broker, pollVars
<1>16. CASE LogExitRaises
    BY <1>16, <1>t DEF LogExitRaises, NothingInvented, TypeOK, broker, pollVars
<1>17. CASE IntradayPhantom
  <2>1. /\ row' = [row EXCEPT !.open = FALSE] /\ closed = Total /\ pc = "idle"
        /\ UNCHANGED <<orders, closed, mem, copy, pc, seen, cancelled, polls>>
    BY <1>17 DEF IntradayPhantom, Phantom, broker, pollVars
  <2>2. row' \in [open : BOOLEAN, state : ExitMem] /\ row'.state = row.state
    BY <2>1, <1>t
  <2> QED
    BY <2>1, <2>2, <1>t DEF NothingInvented, TypeOK
<1>18. CASE IntradayResync
    BY <1>18, <1>t DEF IntradayResync, NothingInvented, TypeOK, broker, pollVars
<1>19. CASE Crash
    BY <1>19, <1>t, BlankType, BlankClaims DEF Crash, NothingInvented, TypeOK, broker, pollVars
<1>20. CASE Restart
  <2>1. /\ pc = "down" /\ pc' = "idle" /\ mem' = row.state /\ copy' = row.state
        /\ UNCHANGED <<closed, seen, cancelled, polls>>
        /\ \/ row' = row
           \/ closed = Total /\ row' = [row EXCEPT !.open = FALSE]
    BY <1>20 DEF Restart, Phantom, pollVars
  <2>2. row' \in [open : BOOLEAN, state : ExitMem] /\ row'.state = row.state
    BY <2>1, <1>t
  <2>3. /\ orders' \in [OrderIds -> [st : Statuses, qty : Nat, filled : Nat]]
        /\ \A p \in OrderIds : /\ orders'[p].filled = orders[p].filled
                               /\ orders'[p].st = "unused" => orders[p].st = "unused"
    BY <1>20, <1>t DEF Restart, WithStatus
  <2>4. \A k \in ExitMem : Claims(orders', k) = Claims(orders, k)
    BY <2>3 DEF Claims, FilledBy, ExitMem
  <2>5. TypeOK'
    BY <2>1, <2>2, <2>3, <1>t DEF TypeOK
  <2>6. ~row'.open => closed' >= Total
    BY <2>1, <1>t DEF NothingInvented
  <2> QED
    BY <2>1, <2>2, <2>3, <2>4, <2>5, <2>6, <1>t DEF NothingInvented
<1>21. ASSUME NEW o \in OrderIds, NEW n \in 1 .. Total, BrokerFills(o, n)
       PROVE  NothingInvented'
  <2>1. /\ orders' = [orders EXCEPT ![o] =
             [st     |-> IF @.filled + n = @.qty THEN "filled" ELSE @.st,
              qty    |-> @.qty,
              filled |-> @.filled + n]]
        /\ closed' = closed + n /\ n \in Nat /\ orders[o].st \in Live
        /\ UNCHANGED <<row, mem, copy, pc, seen, cancelled, polls>>
    BY <1>21 DEF BrokerFills, pollVars
  <2>2. orders' \in [OrderIds -> [st : Statuses, qty : Nat, filled : Nat]]
    BY <2>1, <1>t
  <2>3. \A p \in OrderIds :
          /\ orders'[p].filled <= orders[p].filled + n
          /\ orders'[p].st = "unused" => orders'[p].filled = orders[p].filled
          /\ orders'[p].st = "unused" => orders[p].st = "unused"
    BY <2>1, <1>t
  <2>4. \A k \in ExitMem : Claims(orders', k) <= Claims(orders, k) + n
    BY <2>1, <2>2, <2>3, <1>t DEF Claims, FilledBy, ExitMem
  <2>5. \A k \in {mem, row.state, copy} : Claims(orders, k) \in Nat /\ Claims(orders, k) <= closed
    BY <1>t, FilledByType DEF NothingInvented, Claims, ExitMem
  <2>6. \A k \in {mem', row'.state, copy'} : Claims(orders', k) <= closed'
    <3>1. \A k \in {mem, row.state, copy} : Claims(orders', k) \in Nat
      BY <2>2, <1>t DEF Claims, FilledBy, ExitMem
    <3>2. \A k \in {mem, row.state, copy} : Claims(orders', k) <= closed + n
      <4> SUFFICES ASSUME NEW k \in {mem, row.state, copy}
                   PROVE  Claims(orders', k) <= closed + n
          OBVIOUS
      <4>1. k \in ExitMem
        BY <1>t
      <4>2. Claims(orders', k) <= Claims(orders, k) + n
        BY <4>1, <2>4
      <4>3. Claims(orders, k) \in Nat /\ Claims(orders, k) <= closed
        BY <2>5
      <4>4. Claims(orders', k) \in Nat
        BY <3>1
      <4> HIDE <2>1, <2>4
      <4> QED
        BY <4>2, <4>3, <4>4, <1>t, n \in Nat
    <3> QED
      BY <3>2, <2>1
  <2> QED
    BY <2>1, <2>2, <2>3, <2>6, <1>t DEF NothingInvented, TypeOK
<1>22. ASSUME NEW o \in OrderIds, BrokerKills(o) \/ BrokerRejects(o)
       PROVE  NothingInvented'
  <2>1. PICK s \in {"dead", "rejected"} :
          /\ orders' = [orders EXCEPT ![o] = WithStatus(@, s)]
          /\ UNCHANGED <<closed, row, mem, copy, pc, seen, cancelled, polls>>
    BY <1>22 DEF BrokerKills, BrokerRejects, pollVars
  <2>2. /\ orders' \in [OrderIds -> [st : Statuses, qty : Nat, filled : Nat]]
        /\ \A p \in OrderIds : /\ orders'[p].filled = orders[p].filled
                               /\ orders'[p].st = "unused" => orders[p].st = "unused"
    BY <2>1, <1>t DEF WithStatus
  <2>3. \A k \in ExitMem : Claims(orders', k) = Claims(orders, k)
    BY <2>2 DEF Claims, FilledBy, ExitMem
  <2> QED
    BY <2>1, <2>2, <2>3, <1>t DEF NothingInvented, TypeOK
<1> QED
    BY <1>0, <1>1, <1>2, <1>3, <1>4, <1>5, <1>6, <1>7, <1>8, <1>9, <1>12, <1>13, <1>14,
       <1>15, <1>16, <1>17, <1>18, <1>19, <1>20, <1>21, <1>22
    DEF Next, Pass, Broker

LEMMA InventedAlways == Spec => []NothingInvented
    BY InventedInit, InventedStep, PTL DEF Spec

(* Every reachable state is well typed, whatever fails.                    *)
THEOREM TypeCorrect == Spec => []TypeOK
<1>1. NothingInvented => TypeOK
    BY DEF NothingInvented
<1> QED
    BY <1>1, InventedAlways, PTL

(* "A partial is never booked as whole": under every fault a row is closed *)
(* only when the broker has closed at least the whole position.            *)
THEOREM NeverBookedEarly == Spec => []BookedMeansClosed
<1>1. NothingInvented => BookedMeansClosed
    BY DEF NothingInvented, BookedMeansClosed
<1> QED
    BY <1>1, InventedAlways, PTL

-----------------------------------------------------------------------------
(* The environment does no more than the code is written for.              *)
Benign == Faults \subseteq BenignFaults

-----------------------------------------------------------------------------
LEMMA ForgottenTypes ==
  ASSUME NothingForgotten
  PROVE  /\ closed \in Nat /\ mem \in ExitMem /\ copy \in ExitMem
         /\ row \in [open : BOOLEAN, state : ExitMem] /\ row.state \in ExitMem
         /\ mem.fills \in Nat /\ row.state.fills \in Nat
         /\ mem.oid \in OrderIds \cup {NoOrder} /\ row.state.oid \in OrderIds \cup {NoOrder}
         /\ orders \in [OrderIds -> [st : Statuses, qty : Nat, filled : Nat]]
         /\ seen \in Statuses /\ cancelled \in BOOLEAN /\ polls \in 0 .. MaxPolls
         /\ \A o \in OrderIds : o # NoOrder /\ orders[o].filled \in Nat /\ orders[o].qty \in Nat
  <1>1. TypeOK
    BY DEF NothingForgotten
  <1>2. \A o \in OrderIds : o # NoOrder
    BY DEF OrderIds, NoOrder
  <1> QED
    BY <1>1, <1>2 DEF TypeOK, ExitMem

LEMMA ForgottenInit == Init => NothingForgotten
<1> SUFFICES ASSUME Init PROVE NothingForgotten
    OBVIOUS
<1>1. TypeOK
    BY InventedInit DEF NothingInvented
<1>2. OrdersSound /\ LiveOrderIsTracked
    BY DEF Init, OrdersSound, LiveOrderIsTracked, Unused, Live
<1>3. Accounts(orders, closed, Blank)
    BY BlankType DEF Accounts, Claims, FilledBy, Init
<1> QED
    BY <1>1, <1>2, <1>3, BlankType DEF Init, NothingForgotten, Live

(* The row keeps a memory that accounts for as much.                       *)
LEMMA PersistedAccounts ==
  ASSUME NEW m \in ExitMem, NEW os, NEW c, Accounts(os, c, m)
  PROVE  Accounts(os, c, Persisted(m))
  BY PersistedType DEF Accounts, Claims

(* Without a failed write, a save puts the row at the memory.              *)
LEMMA BenignSave ==
  ASSUME NothingForgotten, Benign, pc # "down", NEW m \in ExitMem, Save(m)
  PROVE  /\ row' \in [open : BOOLEAN, state : ExitMem]
         /\ row'.open = row.open
         /\ row'.state = Persisted(m) /\ copy' = Persisted(m)
  <1>1. "save" \notin Faults
    BY DEF Benign, BenignFaults
  <1>2. copy = row.state
    BY DEF NothingForgotten
  <1> QED
    BY <1>1, <1>2, ForgottenTypes, SaveLemma

(* A position whose contracts are all closed has no working close.         *)
LEMMA CoveredMeansNoneLive ==
  ASSUME NothingForgotten, NEW m \in ExitMem, Accounts(orders, closed, m),
         closed = Total, NEW o \in OrderIds, o = m.oid
  PROVE  orders[o].st \notin Live
  <1>1. /\ m.oid # NoOrder /\ m.fills \in Nat
        /\ orders[o].filled \in Nat /\ orders[o].qty \in Nat
    BY ForgottenTypes DEF ExitMem
  <1>2. /\ m.fills + orders[o].filled = Total
        /\ orders[o].qty + m.fills = Total
    BY <1>1 DEF Accounts, Claims, FilledBy
  <1>3. orders[o].st \in Live => orders[o].filled < orders[o].qty
    BY DEF NothingForgotten, OrdersSound
  <1> QED
    BY <1>1, <1>2, <1>3

(* A pass that ends, remembering m.                                        *)
LEMMA EndPassForgets ==
  ASSUME NothingForgotten, Benign, pc # "down", NEW m \in ExitMem, EndPass(m),
         UNCHANGED broker, row.open,
         Accounts(orders, closed, m),
         \A o \in OrderIds : orders[o].st \in Live => o = m.oid,
         seen' \in Statuses, cancelled' \in BOOLEAN, polls' \in 0 .. MaxPolls
  PROVE  NothingForgotten'
  <1>1. /\ mem' = m /\ pc' = "idle" /\ orders' = orders /\ closed' = closed
        /\ row' \in [open : BOOLEAN, state : ExitMem] /\ row'.open
        /\ row'.state = Persisted(m) /\ copy' = Persisted(m)
    BY BenignSave DEF EndPass, broker
  <1>2. /\ Persisted(m) \in ExitMem
        /\ Persisted(m).fills = m.fills /\ Persisted(m).oid = m.oid
        /\ Accounts(orders, closed, Persisted(m))
    BY PersistedType, PersistedAccounts
  <1>3. TypeOK'
    BY <1>1, <1>2, ForgottenTypes DEF TypeOK, Places
  <1>4. OrdersSound' /\ LiveOrderIsTracked' /\ closed' <= Total
    BY <1>1 DEF NothingForgotten, OrdersSound, LiveOrderIsTracked
  <1> QED
    BY <1>1, <1>2, <1>3, <1>4 DEF NothingForgotten

(* A pass that books, once every contract is closed and nothing works.     *)
LEMMA BookForgets ==
  ASSUME NothingForgotten, Benign, pc # "down", Book, UNCHANGED broker, row.open,
         closed = Total,
         \A o \in OrderIds : orders[o].st \notin Live,
         seen' \in Statuses, cancelled' \in BOOLEAN, polls' \in 0 .. MaxPolls
  PROVE  NothingForgotten'
  <1>1. /\ mem' = Blank /\ pc' = "booking" /\ orders' = orders /\ closed' = closed
        /\ row' \in [open : BOOLEAN, state : ExitMem] /\ row'.open /\ copy' = row'.state
    BY BenignSave, BlankType DEF Book, broker
  <1>2. TypeOK'
    BY <1>1, BlankType, ForgottenTypes DEF TypeOK, Places
  <1>3. OrdersSound' /\ LiveOrderIsTracked' /\ closed' <= Total
    BY <1>1, ForgottenTypes DEF NothingForgotten, OrdersSound, LiveOrderIsTracked
  <1> QED
    BY <1>1, <1>2, <1>3, BlankType DEF NothingForgotten

(* The order on the record is over: what it filled is added.               *)
LEMMA HarvestAccounts ==
  ASSUME NothingForgotten, Benign, row.open, pc \in {"fetch", "poll"},
         orders[mem.oid].st \notin Live, NEW n \in ReadFills(mem.oid)
  PROVE  /\ n \in Nat /\ Harvest(n) \in ExitMem /\ Harvest(n).oid = NoOrder
         /\ Accounts(orders, closed, Harvest(n))
         /\ Harvest(n).fills = closed
         /\ \A o \in OrderIds : orders[o].st \notin Live
  <1>1. mem.oid \in OrderIds /\ n = orders[mem.oid].filled /\ n \in Nat
    BY ForgottenTypes DEF NothingForgotten, ReadFills, Benign, BenignFaults
  <1>2. /\ Harvest(n) \in ExitMem /\ Harvest(n).oid = NoOrder
        /\ Harvest(n).fills = mem.fills + n
    BY <1>1, HarvestLemma, ForgottenTypes
  <1>3. mem.fills + n = closed
    BY <1>1, ForgottenTypes DEF NothingForgotten, Accounts, Claims, FilledBy
  <1>4. \A o \in OrderIds : orders[o].st \in Live => o = mem.oid
    BY DEF NothingForgotten, LiveOrderIsTracked
  <1> QED
    BY <1>1, <1>2, <1>3, <1>4, ForgottenTypes DEF Accounts, Claims, FilledBy

-----------------------------------------------------------------------------
(* A broker step leaves what the record and the row account for in step    *)
(* with what is closed.                                                    *)
LEMMA BrokerForgets ==
  ASSUME NothingForgotten, UNCHANGED <<row, mem, copy, pc, pollVars>>,
         NEW o \in OrderIds, orders[o].st \in Live, NEW order, NEW n \in Nat,
         order \in [st : Statuses, qty : Nat, filled : Nat],
         orders' = [orders EXCEPT ![o] = order],
         closed' = closed + n,
         order.qty = orders[o].qty, order.filled = orders[o].filled + n,
         order.filled <= order.qty, order.st # "unused",
         order.st \in Live => order.filled < order.qty,
         order.st = "rejected" => order.filled = 0
  PROVE  NothingForgotten'
  <1>1. row.open
    BY DEF NothingForgotten
  <1>2. /\ orders' \in [OrderIds -> [st : Statuses, qty : Nat, filled : Nat]]
        /\ orders'[o] = order
        /\ \A p \in OrderIds : p # o => orders'[p] = orders[p]
    BY ForgottenTypes
  <1>3. o = IF pc = "down" THEN row.state.oid ELSE mem.oid
    BY DEF NothingForgotten, LiveOrderIsTracked
  <1>4. ASSUME NEW m \in ExitMem, Accounts(orders, closed, m), m.oid = o
        PROVE  Accounts(orders', closed', m) /\ closed' <= Total
    <2>1. /\ m.fills \in Nat /\ orders[o].filled \in Nat /\ orders[o].qty \in Nat /\ o # NoOrder
          /\ closed \in Nat
      BY ForgottenTypes DEF ExitMem
    <2>2. m.fills + orders[o].filled = closed /\ orders[o].qty + m.fills = Total
      BY <1>4, <2>1 DEF Accounts, Claims, FilledBy
    <2>3. FilledBy(orders', m.oid) = orders[o].filled + n
      BY <1>2, <1>4, <2>1 DEF FilledBy
    <2>4. m.fills + (orders[o].filled + n) = closed + n /\ closed + n <= Total
      BY <2>1, <2>2
    <2>5. orders'[m.oid].qty + m.fills = Total /\ orders'[m.oid].st # "unused"
      BY <1>2, <1>4, <2>2
    <2> QED
      BY <2>3, <2>4, <2>5, <1>4 DEF Accounts, Claims
  <1>5. pc # "down" => /\ Accounts(orders', closed', mem)
                       /\ closed' <= Total /\ pc # "booking" /\ pc # "submit"
    <2>1. pc # "down" => Accounts(orders, closed, mem) /\ mem.oid = o /\ pc # "booking" /\ pc # "submit"
      BY <1>1, <1>3, ForgottenTypes DEF NothingForgotten
    <2> QED
      BY <2>1, <1>4, ForgottenTypes
  <1>6. pc # "posted" => /\ Accounts(orders', closed', row.state)
                         /\ closed' <= Total
    <2>1. pc # "posted" => Accounts(orders, closed, row.state) /\ row.state.oid = o
      BY <1>1, <1>3, <1>5 DEF NothingForgotten, TypeOK, Places
    <2> QED
      BY <2>1, <1>4, ForgottenTypes
  <1>7. TypeOK'
    BY <1>2, ForgottenTypes DEF NothingForgotten, TypeOK, pollVars
  <1>8. OrdersSound'
    BY <1>2 DEF NothingForgotten, OrdersSound, Live
  <1>9. LiveOrderIsTracked'
    BY <1>2, <1>3 DEF NothingForgotten, LiveOrderIsTracked
  <1>10. pc \in {"poll", "waiting", "posted"} /\ seen \notin Live => seen = orders'[mem.oid].st
    BY <1>2, <1>3, ForgottenTypes DEF NothingForgotten
  <1> QED
    BY <1>1, <1>5, <1>6, <1>7, <1>8, <1>9, <1>10 DEF NothingForgotten, pollVars

(* A fresh order is sent for what the position still holds.                *)
LEMMA SubmitForgets ==
  ASSUME NothingForgotten, Benign, NEW o \in OrderIds, SubmitAccepted(o)
  PROVE  NothingForgotten'
  <1>1. /\ pc = "submit" /\ pc' = "posted" /\ seen' = "working" /\ row.open
        /\ closed' = closed /\ UNCHANGED <<row, copy, cancelled, polls>>
        /\ mem' = [fills |-> mem.fills, oid |-> o, last |-> o]
        /\ orders[o].st = "unused"
        /\ orders' = [orders EXCEPT ![o] =
             [st |-> "working", qty |-> Total - mem.fills, filled |-> 0]]
    BY DEF SubmitAccepted, Place, NothingForgotten
  <1>2. /\ mem.oid = NoOrder /\ mem.fills = closed /\ mem.fills < Total
        /\ Accounts(orders, closed, row.state)
        /\ \A p \in OrderIds : orders[p].st \notin Live
    BY <1>1, ForgottenTypes DEF NothingForgotten, Accounts, Claims, FilledBy, LiveOrderIsTracked
  <1>3. Total - mem.fills \in Nat /\ 0 < Total - mem.fills /\ (Total - mem.fills) + mem.fills = Total
    BY <1>2, ForgottenTypes
  <1>4. /\ orders' \in [OrderIds -> [st : Statuses, qty : Nat, filled : Nat]]
        /\ orders'[o].st = "working" /\ orders'[o].filled = 0 /\ orders'[o].qty = Total - mem.fills
        /\ \A p \in OrderIds : p # o => orders'[p] = orders[p]
    <2>1. [st |-> "working", qty |-> Total - mem.fills, filled |-> 0]
            \in [st : Statuses, qty : Nat, filled : Nat]
      BY <1>3 DEF Statuses, Live
    <2> QED
      BY <1>1, <2>1, ForgottenTypes
  <1>5. mem' \in ExitMem /\ mem'.fills = mem.fills /\ mem'.oid = o /\ o # NoOrder
    BY <1>1, ForgottenTypes DEF ExitMem
  <1>6. TypeOK'
    BY <1>1, <1>4, <1>5, ForgottenTypes DEF TypeOK, Places, Statuses, Live
  <1>7. OrdersSound'
    BY <1>3, <1>4 DEF NothingForgotten, OrdersSound, Live
  <1>8. LiveOrderIsTracked'
    BY <1>1, <1>2, <1>4, <1>5 DEF LiveOrderIsTracked
  <1>9. Accounts(orders', closed', mem')
    BY <1>1, <1>2, <1>3, <1>4, <1>5, ForgottenTypes DEF Accounts, Claims, FilledBy
  <1> QED
    BY <1>1, <1>5, <1>6, <1>7, <1>8, <1>9 DEF NothingForgotten, Live

LEMMA ForgottenStep == Benign /\ NothingForgotten /\ [Next]_vars => NothingForgotten'
<1> SUFFICES ASSUME Benign, NothingForgotten, [Next]_vars PROVE NothingForgotten'
    OBVIOUS
<1>f. {"fetch", "save", "fills", "lost", "posted", "booking", "log"} \cap Faults = {}
    BY DEF Benign, BenignFaults
<1>t. /\ closed \in Nat /\ mem \in ExitMem /\ row.state \in ExitMem
      /\ row \in [open : BOOLEAN, state : ExitMem]
      /\ mem.fills \in Nat
      /\ seen \in Statuses /\ cancelled \in BOOLEAN /\ polls \in 0 .. MaxPolls
      /\ orders \in [OrderIds -> [st : Statuses, qty : Nat, filled : Nat]]
    BY ForgottenTypes
<1>o. pc \notin {"idle", "down"} => row.open
    BY DEF NothingForgotten
<1>l. pc # "down" => \A o \in OrderIds : orders[o].st \in Live => o = mem.oid
    BY DEF NothingForgotten, LiveOrderIsTracked
<1>0. CASE UNCHANGED vars
    BY <1>0 DEF vars, NothingForgotten, TypeOK, OrdersSound, LiveOrderIsTracked
<1>1. CASE StartPass
  <2>1. /\ pc = "idle" /\ row.open /\ UNCHANGED <<broker, pollVars>>
        /\ Accounts(orders, closed, mem)
    BY <1>1 DEF StartPass, NothingForgotten
  <2>2. CASE mem.fills >= Total
    <3>1. Book
      BY <1>1, <2>2 DEF StartPass
    <3>2. closed = Total
      <4>1. FilledBy(orders, mem.oid) \in Nat /\ closed = mem.fills + FilledBy(orders, mem.oid)
        BY <2>1, FilledByType DEF NothingForgotten, Accounts, Claims, TypeOK, ExitMem
      <4>2. closed <= Total
        BY DEF NothingForgotten
      <4> QED
        BY <4>1, <4>2, <2>2, <1>t
    <3>3. \A o \in OrderIds : orders[o].st \notin Live
      BY <2>1, <3>2, <1>l, <1>t, CoveredMeansNoneLive
    <3> QED
      BY <2>1, <3>1, <3>2, <3>3, <1>t, BookForgets DEF pollVars
  <2>3. CASE ~(mem.fills >= Total)
    <3>1. /\ pc' = IF mem.oid # NoOrder THEN "fetch" ELSE "submit"
          /\ UNCHANGED <<row, mem, copy, orders, closed, seen, cancelled, polls>>
          /\ mem.fills < Total
      BY <1>1, <2>3, <1>t DEF StartPass, broker, pollVars
    <3>2. TypeOK' /\ OrdersSound' /\ LiveOrderIsTracked'
      BY <2>1, <3>1 DEF NothingForgotten, TypeOK, OrdersSound, LiveOrderIsTracked, Places
    <3> QED
      BY <2>1, <3>1, <3>2 DEF NothingForgotten
  <2> QED
    BY <2>2, <2>3
<1>2. CASE FetchPrior
  <2>1. pc = "fetch" /\ row.open /\ UNCHANGED broker /\ mem.oid \in OrderIds
    BY <1>2, <1>o, ForgottenTypes DEF FetchPrior, NothingForgotten
  <2>2. CASE orders[mem.oid].st = "dead"
    <3>1. PICK n \in ReadFills(mem.oid) :
             /\ IF Harvest(n).fills >= Total THEN Book
                ELSE mem' = Harvest(n) /\ pc' = "submit" /\ UNCHANGED <<row, copy>>
             /\ UNCHANGED pollVars
      BY <1>2, <2>2 DEF FetchPrior
    <3>2. /\ Harvest(n) \in ExitMem /\ Harvest(n).oid = NoOrder
          /\ Accounts(orders, closed, Harvest(n)) /\ Harvest(n).fills = closed
          /\ \A o \in OrderIds : orders[o].st \notin Live
      BY <2>1, <2>2, HarvestAccounts DEF Live
    <3>3. CASE Harvest(n).fills >= Total
      <4>1. closed = Total
        BY <3>2, <3>3, <1>t DEF NothingForgotten
      <4> QED
        BY <2>1, <3>1, <3>2, <3>3, <4>1, <1>t, BookForgets DEF pollVars
    <3>4. CASE ~(Harvest(n).fills >= Total)
      <4>1. /\ mem' = Harvest(n) /\ pc' = "submit" /\ Harvest(n).fills < Total
            /\ UNCHANGED <<row, copy, orders, closed, seen, cancelled, polls>>
        BY <2>1, <3>1, <3>2, <3>4, <1>t DEF broker, pollVars
      <4>2. TypeOK' /\ OrdersSound' /\ LiveOrderIsTracked'
        BY <3>2, <4>1 DEF NothingForgotten, TypeOK, OrdersSound, LiveOrderIsTracked, Places
      <4>3. Accounts(orders, closed, row.state)
        BY <2>1 DEF NothingForgotten
      <4> QED
        BY <2>1, <3>2, <4>1, <4>2, <4>3 DEF NothingForgotten
    <3> QED
      BY <3>3, <3>4
  <2>3. CASE orders[mem.oid].st # "dead"
    <3>1. /\ seen' = orders[mem.oid].st /\ pc' = "poll" /\ cancelled' = FALSE /\ polls' = 0
          /\ UNCHANGED <<row, mem, copy, orders, closed>>
      BY <1>2, <2>3 DEF FetchPrior, StartPolling, broker
    <3>2. seen' \in Statuses
      BY <2>1, <3>1, <1>t
    <3>3. TypeOK' /\ OrdersSound' /\ LiveOrderIsTracked'
      BY <2>1, <3>1, <3>2, NoPolls
      DEF NothingForgotten, TypeOK, OrdersSound, LiveOrderIsTracked, Places
    <3> QED
      BY <2>1, <3>1, <3>3 DEF NothingForgotten
  <2> QED
    BY <2>2, <2>3
<1>3. CASE FetchFails
    BY <1>3, <1>f DEF FetchFails
<1>4. ASSUME NEW o \in OrderIds, SubmitAccepted(o) PROVE NothingForgotten'
    BY <1>4, SubmitForgets
<1>5. ASSUME NEW o \in OrderIds, SubmitLost(o) PROVE NothingForgotten'
    BY <1>5, <1>f DEF SubmitLost
<1>6. ASSUME pc \in {"submit", "waiting"}, EndPass(mem), UNCHANGED <<broker, pollVars>>
      PROVE  NothingForgotten'
  <2>1. row.open /\ Accounts(orders, closed, mem)
    BY <1>6, <1>o DEF NothingForgotten
  <2> QED
    BY <1>6, <2>1, <1>l, <1>t, EndPassForgets DEF pollVars
<1>7. CASE SaveOrder
  <2>1. /\ pc = "posted" /\ Save(mem) /\ pc' = "poll" /\ cancelled' = FALSE /\ polls' = 0
        /\ UNCHANGED <<orders, closed, mem, seen>> /\ row.open
    BY <1>7, <1>o DEF SaveOrder, StartPolling, broker
  <2>2. /\ row' \in [open : BOOLEAN, state : ExitMem] /\ row'.open
        /\ row'.state = Persisted(mem) /\ copy' = Persisted(mem)
    BY <2>1, <1>t, BenignSave
  <2>3. Accounts(orders, closed, mem)
    BY <2>1 DEF NothingForgotten
  <2>4. /\ Persisted(mem) \in ExitMem
        /\ Persisted(mem).fills = mem.fills /\ Persisted(mem).oid = mem.oid
        /\ Accounts(orders, closed, Persisted(mem))
    BY <2>3, <1>t, PersistedType, PersistedAccounts
  <2>5. TypeOK' /\ OrdersSound' /\ LiveOrderIsTracked'
    BY <2>1, <2>2, <2>4, NoPolls
    DEF NothingForgotten, TypeOK, OrdersSound, LiveOrderIsTracked, Places
  <2> QED
    BY <2>1, <2>2, <2>3, <2>4, <2>5 DEF NothingForgotten
<1>8. CASE Poll
  <2>1. /\ pc = "poll" /\ row.open /\ UNCHANGED <<broker, cancelled, polls>>
        /\ mem.oid \in OrderIds
    BY <1>8, <1>o, ForgottenTypes DEF Poll, NothingForgotten
  <2>2. /\ seen' \in Statuses
        /\ seen' \notin Live => seen' = orders[mem.oid].st
    BY <1>8, <2>1, <1>t DEF Poll, NothingForgotten
  <2>3. CASE seen' \in {"filled", "dead"}
    <3>1. orders[mem.oid].st \notin Live
      BY <2>2, <2>3 DEF Live
    <3>2. PICK n \in ReadFills(mem.oid) :
             IF Harvest(n).fills >= Total THEN Book ELSE EndPass(Harvest(n))
      BY <1>8, <2>3 DEF Poll, Live
    <3>3. /\ Harvest(n) \in ExitMem /\ Harvest(n).oid = NoOrder
          /\ Accounts(orders, closed, Harvest(n)) /\ Harvest(n).fills = closed
          /\ \A o \in OrderIds : orders[o].st \notin Live
      BY <2>1, <3>1, HarvestAccounts
    <3>4. CASE Harvest(n).fills >= Total
      <4>1. closed = Total
        BY <3>3, <3>4, <1>t DEF NothingForgotten
      <4> QED
        BY <2>1, <2>2, <3>2, <3>3, <3>4, <4>1, <1>t, BookForgets
    <3>5. CASE ~(Harvest(n).fills >= Total)
      BY <2>1, <2>2, <3>2, <3>3, <3>5, <1>t, EndPassForgets
    <3> QED
      BY <3>4, <3>5
  <2>4. CASE seen' = "rejected"
    <3> DEFINE m == [mem EXCEPT !.oid = NoOrder]
    <3>1. EndPass(m)
      BY <1>8, <2>4 DEF Poll, Live
    <3>2. m \in ExitMem /\ m.fills = mem.fills /\ m.oid = NoOrder
      BY <1>t DEF ExitMem
    <3>3. orders[mem.oid].st = "rejected" /\ orders[mem.oid].filled = 0
      BY <2>1, <2>2, <2>4 DEF NothingForgotten, OrdersSound, Live
    <3>4. Accounts(orders, closed, mem)
      BY <2>1 DEF NothingForgotten
    <3>5. Accounts(orders, closed, m)
      BY <2>1, <3>2, <3>3, <3>4, <1>t DEF Accounts, Claims, FilledBy
    <3>6. \A o \in OrderIds : orders[o].st \notin Live
      BY <2>1, <3>3, <1>l DEF Live
    <3> HIDE DEF m
    <3> QED
      BY <2>1, <2>2, <3>1, <3>2, <3>5, <3>6, <1>t, EndPassForgets
  <2>5. CASE seen' \in Live
    <3>1. pc' = "waiting" /\ UNCHANGED <<row, mem, copy, orders, closed, cancelled, polls>>
      BY <1>8, <2>5 DEF Poll, Live, broker
    <3>2. TypeOK' /\ OrdersSound' /\ LiveOrderIsTracked'
      BY <2>1, <2>2, <3>1 DEF NothingForgotten, TypeOK, OrdersSound, LiveOrderIsTracked, Places
    <3> QED
      BY <2>1, <2>2, <2>5, <3>1, <3>2 DEF NothingForgotten
  <2> QED
    BY <1>8, <2>3, <2>4, <2>5 DEF Poll
<1>9. CASE PollAgain
  <2>1. /\ pc = "waiting" /\ pc' = "poll" /\ polls' = polls + 1 /\ polls < MaxPolls
        /\ UNCHANGED <<orders, closed, row, mem, copy, seen, cancelled>> /\ row.open
    BY <1>9, <1>o DEF PollAgain, broker
  <2>2. polls' \in 0 .. MaxPolls
    BY <2>1, <1>t DEF BoundsAssumption
  <2>3. TypeOK' /\ OrdersSound' /\ LiveOrderIsTracked'
    BY <2>1, <2>2 DEF NothingForgotten, TypeOK, OrdersSound, LiveOrderIsTracked, Places
  <2> QED
    BY <2>1, <2>3 DEF NothingForgotten
<1>10. CASE DeadlineCancel
  <2>1. /\ pc = "waiting" /\ pc' = "poll" /\ row.open /\ mem.oid \in OrderIds
        /\ orders[mem.oid].st \in Live
        /\ orders' = [orders EXCEPT ![mem.oid] = WithStatus(@, "cancelling")]
        /\ UNCHANGED <<closed, row, mem, copy, seen>> /\ cancelled' = TRUE /\ polls' = 0
    BY <1>10, <1>o, ForgottenTypes DEF DeadlineCancel, NothingForgotten
  <2>2. /\ orders' \in [OrderIds -> [st : Statuses, qty : Nat, filled : Nat]]
        /\ \A p \in OrderIds : /\ orders'[p].filled = orders[p].filled
                               /\ orders'[p].qty = orders[p].qty
                               /\ orders'[p].st \in Live <=> orders[p].st \in Live
                               /\ p # mem.oid => orders'[p].st = orders[p].st
        /\ orders'[mem.oid].st = "cancelling"
    BY <2>1, <1>t DEF WithStatus, Statuses, Live
  <2>3. \A m \in ExitMem : Accounts(orders, closed, m) => Accounts(orders', closed', m)
    BY <2>1, <2>2 DEF Accounts, Claims, FilledBy, ExitMem
  <2>4. TypeOK'
    BY <2>1, <2>2, NoPolls DEF NothingForgotten, TypeOK, Places
  <2>5. OrdersSound' /\ LiveOrderIsTracked'
    BY <2>1, <2>2 DEF NothingForgotten, OrdersSound, LiveOrderIsTracked, Live
  <2>6. seen \in Live
    BY <2>1 DEF NothingForgotten
  <2> QED
    BY <2>1, <2>3, <2>4, <2>5, <2>6, <1>t DEF NothingForgotten
<1>11. CASE SubmitRefused \/ DeadlineCancelFails \/ GraceOver
    BY <1>11, <1>6 DEF SubmitRefused, DeadlineCancelFails, GraceOver
<1>12. CASE LogExit
  <2>1. /\ pc = "booking" /\ pc' = "idle" /\ row' = [row EXCEPT !.open = FALSE]
        /\ UNCHANGED <<orders, closed, mem, copy, seen, cancelled, polls>>
    BY <1>12 DEF LogExit, broker, pollVars
  <2>2. /\ row' \in [open : BOOLEAN, state : ExitMem] /\ row'.state = row.state /\ ~row'.open
    BY <2>1, <1>t
  <2>3. closed = Total /\ \A o \in OrderIds : orders[o].st \notin Live
    BY <2>1, <1>l, ForgottenTypes DEF NothingForgotten
  <2>4. TypeOK' /\ OrdersSound' /\ LiveOrderIsTracked'
    BY <2>1, <2>2, <2>3 DEF NothingForgotten, TypeOK, OrdersSound, LiveOrderIsTracked, Places
  <2> QED
    BY <2>1, <2>2, <2>3, <2>4 DEF NothingForgotten
<1>13. CASE LogExitRaises
    BY <1>13, <1>f DEF LogExitRaises
<1>14. CASE IntradayPhantom
  <2>1. /\ pc = "idle" /\ row.open /\ closed = Total /\ row' = [row EXCEPT !.open = FALSE]
        /\ UNCHANGED <<orders, closed, mem, copy, pc, seen, cancelled, polls>>
    BY <1>14 DEF IntradayPhantom, Phantom, broker, pollVars
  <2>2. /\ row' \in [open : BOOLEAN, state : ExitMem] /\ row'.state = row.state /\ ~row'.open
    BY <2>1, <1>t
  <2>3. Accounts(orders, closed, mem)
    BY <2>1 DEF NothingForgotten
  <2>4. \A o \in OrderIds : orders[o].st \notin Live
    BY <2>1, <2>3, <1>l, <1>t, CoveredMeansNoneLive
  <2>5. TypeOK' /\ OrdersSound' /\ LiveOrderIsTracked'
    BY <2>1, <2>2, <2>4 DEF NothingForgotten, TypeOK, OrdersSound, LiveOrderIsTracked
  <2> QED
    BY <2>1, <2>2, <2>4, <2>5 DEF NothingForgotten
<1>15. CASE IntradayResync
  <2>1. /\ pc = "idle" /\ row.open /\ mem' = row.state /\ copy' = row.state
        /\ UNCHANGED <<orders, closed, row, pc, seen, cancelled, polls>>
    BY <1>15 DEF IntradayResync, broker, pollVars
  <2>2. Accounts(orders, closed, row.state) /\ row.state.oid = mem.oid
    BY <2>1 DEF NothingForgotten
  <2>3. TypeOK' /\ OrdersSound' /\ LiveOrderIsTracked'
    BY <2>1, <2>2, <1>t DEF NothingForgotten, TypeOK, OrdersSound, LiveOrderIsTracked
  <2> QED
    BY <2>1, <2>2, <2>3 DEF NothingForgotten
<1>16. CASE Crash
  <2>1. /\ pc \notin {"down", "posted", "booking"} /\ pc' = "down" /\ mem' = Blank /\ copy' = Blank
        /\ UNCHANGED <<orders, closed, row, seen, cancelled, polls>>
    BY <1>16, <1>f DEF Crash, broker, pollVars
  <2>2. \A o \in OrderIds : orders[o].st \in Live => row.open /\ o = row.state.oid
    BY <2>1, <1>l, <1>o, <1>t, ForgottenTypes DEF NothingForgotten, TypeOK, Places
  <2>3. TypeOK' /\ OrdersSound' /\ LiveOrderIsTracked'
    BY <2>1, <2>2, BlankType
    DEF NothingForgotten, TypeOK, OrdersSound, LiveOrderIsTracked, Places
  <2> QED
    BY <2>1, <2>3 DEF NothingForgotten
<1>17. CASE Restart
  <2>1. /\ pc = "down" /\ pc' = "idle" /\ mem' = row.state /\ copy' = row.state
        /\ UNCHANGED <<closed, seen, cancelled, polls>>
        /\ row' = row \/ (row.open /\ closed = Total /\ row' = [row EXCEPT !.open = FALSE])
    BY <1>17 DEF Restart, Phantom, pollVars
  <2>2. row' \in [open : BOOLEAN, state : ExitMem] /\ row'.state = row.state
    BY <2>1, <1>t
  <2>3. \A o \in OrderIds : orders[o].st \in Live => o = row.state.oid /\ row.open
    BY <2>1 DEF NothingForgotten, LiveOrderIsTracked
  <2>4. orders' = orders \/ orders' = [o \in OrderIds |->
            IF orders[o].st = "working" /\ o \notin Kept
            THEN WithStatus(orders[o], "cancelling") ELSE orders[o]]
    BY <1>17 DEF Restart
  <2>5. \A o \in OrderIds : orders[o].st = "working" => o \in Kept
    BY <2>3 DEF Kept, Live
  <2>6. orders' = orders
    BY <2>4, <2>5, <1>t
  <2>7. row.open => Accounts(orders, closed, row.state)
    BY <2>1 DEF NothingForgotten
  <2>8. ~row'.open => closed = Total /\ \A o \in OrderIds : orders[o].st \notin Live
    BY <2>1, <2>2, <2>3, <2>7, <1>t, CoveredMeansNoneLive DEF NothingForgotten
  <2>9. TypeOK' /\ OrdersSound' /\ LiveOrderIsTracked'
    BY <2>1, <2>2, <2>3, <2>6, <1>t
    DEF NothingForgotten, TypeOK, OrdersSound, LiveOrderIsTracked, Places
  <2>10. row'.open => row.open
    BY <2>1, <2>2, <1>t
  <2> QED
    BY <2>1, <2>2, <2>6, <2>7, <2>8, <2>9, <2>10 DEF NothingForgotten
<1>18. ASSUME NEW o \in OrderIds, NEW n \in 1 .. Total, BrokerFills(o, n)
       PROVE  NothingForgotten'
  <2> DEFINE order == [st     |-> IF orders[o].filled + n = orders[o].qty
                                  THEN "filled" ELSE orders[o].st,
                       qty    |-> orders[o].qty,
                       filled |-> orders[o].filled + n]
  <2>1. /\ orders[o].st \in Live /\ n \in Nat
        /\ orders' = [orders EXCEPT ![o] = order]
        /\ closed' = closed + n /\ orders[o].filled + n <= orders[o].qty
        /\ UNCHANGED <<row, mem, copy, pc, pollVars>>
    BY <1>18, <1>t DEF BrokerFills
  <2>2. /\ order \in [st : Statuses, qty : Nat, filled : Nat]
        /\ order.qty = orders[o].qty /\ order.filled = orders[o].filled + n
        /\ order.st \in Live \cup {"filled"}
        /\ order.filled <= order.qty
        /\ order.st \in Live => order.filled < order.qty
    BY <2>1, <1>t DEF Statuses, Live
  <2> HIDE DEF order
  <2> QED
    BY <2>1, <2>2, BrokerForgets DEF Live
<1>19. ASSUME NEW o \in OrderIds, BrokerKills(o) \/ BrokerRejects(o)
       PROVE  NothingForgotten'
  <2>1. PICK s \in {"dead", "rejected"} :
          /\ orders' = [orders EXCEPT ![o] = WithStatus(@, s)]
          /\ orders[o].st \in Live
          /\ s = "rejected" => orders[o].filled = 0
          /\ closed' = closed /\ UNCHANGED <<row, mem, copy, pc, pollVars>>
    BY <1>19 DEF BrokerKills, BrokerRejects, Live
  <2> DEFINE order == WithStatus(orders[o], s)
  <2>2. /\ order \in [st : Statuses, qty : Nat, filled : Nat]
        /\ order.qty = orders[o].qty /\ order.filled = orders[o].filled + 0
        /\ order.st = s
    BY <2>1, <1>t DEF WithStatus, Statuses
  <2>3. order.filled <= order.qty /\ (s = "rejected" => order.filled = 0)
    BY <2>1, <2>2, <1>t DEF NothingForgotten, OrdersSound
  <2>4. orders' = [orders EXCEPT ![o] = order] /\ closed' = closed + 0
    BY <2>1, <1>t
  <2>5. order.st # "unused" /\ order.st \notin Live /\ (order.st = "rejected" => order.filled = 0)
    BY <2>2, <2>3 DEF Live
  <2> HIDE DEF order
  <2> DEFINE n == 0
  <2>6. /\ n \in Nat /\ closed' = closed + n /\ order.filled = orders[o].filled + n
    BY <2>2, <2>4
  <2> HIDE DEF n
  <2> QED
    BY <2>1, <2>2, <2>3, <2>4, <2>5, <2>6, BrokerForgets
<1>20. CASE Pass
    BY <1>20, <1>1, <1>2, <1>3, <1>4, <1>5, <1>7, <1>8, <1>9, <1>10, <1>11, <1>12, <1>13 DEF Pass
<1>21. CASE Broker
    BY <1>21, <1>18, <1>19 DEF Broker
<1> QED
    BY <1>0, <1>14, <1>15, <1>16, <1>17, <1>20, <1>21 DEF Next

-----------------------------------------------------------------------------
(* Under the benign faults the record and the row account for every        *)
(* contract the broker has closed, in every state.                         *)
THEOREM NothingIsForgotten == ASSUME Benign PROVE Spec => []NothingForgotten
<1>1. NothingForgotten /\ [Next]_vars => NothingForgotten'
    BY ForgottenStep
<1> QED
    BY <1>1, ForgottenInit, PTL DEF Spec

(* A close that may still fill is always named by the record or the row.   *)
THEOREM NoOrderForgotten == ASSUME Benign PROVE Spec => []LiveOrderIsTracked
<1>1. NothingForgotten => LiveOrderIsTracked
    BY DEF NothingForgotten
<1> QED
    BY <1>1, NothingIsForgotten, PTL

(* A kill outside the two windows loses no fill.                           *)
THEOREM NoFillForgotten == ASSUME Benign PROVE Spec => []RowRemembersEveryFill
<1>1. NothingForgotten => RowRemembersEveryFill
    BY DEF NothingForgotten, RowRemembersEveryFill, Accounts, Claims
<1> QED
    BY <1>1, NothingIsForgotten, PTL

(* A close is only submitted for what the position still holds.            *)
THEOREM RemainderOnly == ASSUME Benign PROVE Spec => SubmitsRemainderOnly
<1> DEFINE Sent == \A o \in OrderIds :
                     orders[o].st = "unused" /\ orders'[o].st # "unused" =>
                       orders'[o].qty <= Total - closed
<1>1. NothingForgotten /\ [Next]_vars => [Sent]_vars
  <2> SUFFICES ASSUME NothingForgotten, Next, NEW o \in OrderIds,
                      orders[o].st = "unused", orders'[o].st # "unused"
               PROVE  orders'[o].qty <= Total - closed
      OBVIOUS
  <2>1. ASSUME NEW p \in OrderIds, pc = "submit", Place(p)
        PROVE  orders'[o].qty <= Total - closed
    <3>1. mem.fills = closed
      BY <2>1, ForgottenTypes DEF NothingForgotten, Accounts, Claims, FilledBy
    <3>2. /\ orders \in [OrderIds -> [st : Statuses, qty : Nat, filled : Nat]]
          /\ orders' = [orders EXCEPT ![p] =
               [st |-> "working", qty |-> Total - mem.fills, filled |-> 0]]
      BY <2>1, ForgottenTypes DEF Place
    <3>3. o = p
      BY <3>2
    <3> QED
      BY <3>1, <3>2, <3>3, ForgottenTypes
  <2>2. ASSUME UNCHANGED orders PROVE FALSE
    BY <2>2
  <2>3. ASSUME NEW p \in OrderIds, orders[p].st # "unused", NEW order,
               orders' = [orders EXCEPT ![p] = order]
        PROVE  FALSE
    BY <2>3, ForgottenTypes
  <2>4. CASE Broker
    BY <2>4, <2>3 DEF Broker, BrokerFills, BrokerKills, BrokerRejects, Live
  <2>5. CASE Pass
    <3>1. CASE \E p \in OrderIds : SubmitAccepted(p) \/ SubmitLost(p)
      BY <3>1, <2>1 DEF SubmitAccepted, SubmitLost
    <3>2. CASE DeadlineCancel
      <4>1. mem.oid \in OrderIds /\ orders[mem.oid].st # "unused"
        BY <3>2, ForgottenTypes DEF DeadlineCancel, NothingForgotten, Live
      <4> QED
        BY <3>2, <4>1, <2>3 DEF DeadlineCancel
    <3> QED
      BY <2>5, <3>1, <3>2, <2>2
      DEF Pass, StartPass, FetchPrior, FetchFails, SubmitRefused, SaveOrder, Poll, PollAgain,
          DeadlineCancelFails, GraceOver, LogExit, LogExitRaises, broker
  <2>6. CASE Restart
    BY <2>6, <2>2, ForgottenTypes DEF Restart, WithStatus
  <2> QED
    BY <2>2, <2>4, <2>5, <2>6 DEF Next, IntradayPhantom, IntradayResync, Crash, broker
<1> QED
    BY <1>1, NothingIsForgotten, PTL DEF Spec, SubmitsRemainderOnly

(* Closing through orders, cancels, kills and retries implements closing   *)
(* once.                                                                   *)
THEOREM ImplementsCloseOnce == ASSUME Benign PROVE Spec => ClosesOnce
<1>1. Init => Abstract!Init
    BY DEF Init, Abstract!Init
<1>2. NothingForgotten /\ NothingForgotten' /\ [Next]_vars
        => [Abstract!Next]_<<closed, ~row.open>>
  <2> SUFFICES ASSUME NothingForgotten, NothingForgotten', [Next]_vars
               PROVE  [Abstract!Next]_<<closed, ~row.open>>
      OBVIOUS
  <2>1. ASSUME closed' = closed, row'.open = row.open
        PROVE  UNCHANGED <<closed, ~row.open>>
    BY <2>1
  <2>2. ASSUME closed' = closed, row.open, ~row'.open
        PROVE  Abstract!Next
    BY <2>2 DEF NothingForgotten, Abstract!Next, Abstract!BookAll
  <2>3. CASE \E o \in OrderIds, n \in 1 .. Total : BrokerFills(o, n)
    <3>1. closed' <= Total
      BY DEF NothingForgotten
    <3> QED
      BY <2>3, <3>1 DEF BrokerFills, Abstract!Next, Abstract!CloseSome
  <2>4. CASE UNCHANGED <<closed, row>>
    BY <2>4, <2>1
  <2>5. ASSUME closed' = closed, row' = [row EXCEPT !.open = FALSE]
        PROVE  [Abstract!Next]_<<closed, ~row.open>>
    <3>1. row'.open = FALSE /\ row.open \in BOOLEAN
      BY <2>5, ForgottenTypes
    <3> QED
      BY <2>5, <3>1, <2>1, <2>2
  <2>6. ASSUME closed' = closed, NEW m \in ExitMem, Save(m)
        PROVE  UNCHANGED <<closed, ~row.open>>
    BY <2>6, <2>1, SaveLemma, ForgottenTypes
  <2>7. ASSUME closed' = closed, Book PROVE UNCHANGED <<closed, ~row.open>>
    BY <2>7, <2>6, BlankType DEF Book
  <2>8. ASSUME closed' = closed, NEW m \in ExitMem, EndPass(m)
        PROVE  UNCHANGED <<closed, ~row.open>>
    BY <2>8, <2>6 DEF EndPass
  <2>9. ASSUME closed' = closed, mem.oid \in OrderIds, NEW n \in ReadFills(mem.oid),
               EndPass(Harvest(n))
        PROVE  UNCHANGED <<closed, ~row.open>>
    <3>1. n \in Nat
      BY <2>9, ForgottenTypes DEF ReadFills
    <3> QED
      BY <2>9, <3>1, <2>8, HarvestLemma, ForgottenTypes
  <2>10. CASE StartPass
    BY <2>10, <2>4, <2>7 DEF StartPass, broker
  <2>11. CASE FetchPrior
    BY <2>11, <2>4, <2>7 DEF FetchPrior, broker
  <2>12. CASE \E o \in OrderIds : SubmitAccepted(o) \/ SubmitLost(o)
    BY <2>12, <2>4, <2>8, ForgottenTypes DEF SubmitAccepted, SubmitLost, Place
  <2>13. CASE Poll
    <3>1. mem.oid \in OrderIds /\ closed' = closed
      BY <2>13, ForgottenTypes DEF Poll, NothingForgotten, broker
    <3>2. [mem EXCEPT !.oid = NoOrder] \in ExitMem
      BY ForgottenTypes DEF ExitMem
    <3>3. \/ Book
          \/ \E n \in ReadFills(mem.oid) : EndPass(Harvest(n))
          \/ EndPass([mem EXCEPT !.oid = NoOrder])
          \/ UNCHANGED row
      BY <2>13 DEF Poll
    <3> QED
      BY <3>1, <3>2, <3>3, <2>4, <2>7, <2>8, <2>9
  <2>14. CASE SubmitRefused \/ DeadlineCancelFails \/ GraceOver \/ SaveOrder
    BY <2>14, <2>6, <2>8, ForgottenTypes
    DEF SubmitRefused, DeadlineCancelFails, GraceOver, SaveOrder, broker
  <2>15. CASE LogExit \/ IntradayPhantom
    BY <2>15, <2>5 DEF LogExit, IntradayPhantom, broker
  <2>16. CASE FetchFails \/ PollAgain \/ DeadlineCancel \/ LogExitRaises \/ IntradayResync
              \/ Crash \/ UNCHANGED vars
    BY <2>16, <2>4
    DEF FetchFails, PollAgain, DeadlineCancel, LogExitRaises, IntradayResync, Crash, vars, broker
  <2>17. CASE Restart
    BY <2>17, <2>4, <2>5 DEF Restart
  <2>18. CASE \E o \in OrderIds : BrokerKills(o) \/ BrokerRejects(o)
    BY <2>18, <2>4 DEF BrokerKills, BrokerRejects
  <2>19. CASE Broker
    BY <2>19, <2>3, <2>18 DEF Broker
  <2>20. CASE Pass
    BY <2>20, <2>10, <2>11, <2>12, <2>13, <2>14, <2>15, <2>16 DEF Pass
  <2> QED
    BY <2>15, <2>16, <2>17, <2>19, <2>20 DEF Next
<1> QED
    BY <1>1, <1>2, NothingIsForgotten, PTL DEF Spec, ClosesOnce, Abstract!Spec
-----------------------------------------------------------------------------
(* A pass is bounded, whatever fails.                                      *)

PassIsSized ==
  /\ PassLeft \in 0 .. 4 * MaxPolls + 8
  /\ TurnsLeft \in 0 .. 2 * MaxPolls + 1
  /\ PassLeft = 0 <=> pc \in {"idle", "down"}

LEMMA PassLeftBounds == TypeOK => PassIsSized
<1> SUFFICES ASSUME TypeOK PROVE PassIsSized
    OBVIOUS
<1>1. pc \in Places /\ cancelled \in BOOLEAN /\ polls \in 0 .. MaxPolls /\ MaxPolls \in Nat
    BY DEF TypeOK
<1>2. TurnsLeft \in 0 .. 2 * MaxPolls + 1
    BY <1>1 DEF TurnsLeft
<1> QED
    BY <1>1, <1>2 DEF PassIsSized, PassLeft, Places

(* The broker owes nothing: every call of a pass, answered or not, uses up *)
(* one of the calls it has left, so that a tick is held up by its close    *)
(* for no longer than two deadlines, and by no fault for ever.             *)
THEOREM PassIsShort == Spec => PassRunsDown /\ [](PassLeft <= 4 * MaxPolls + 8)
<1> DEFINE Nearer == StartPass \/ PassLeft' < PassLeft \/ (~Pass /\ PassLeft' <= PassLeft)
<1>1. TypeOK /\ PassIsSized /\ PassIsSized' /\ [Next]_vars => [Nearer]_vars
  <2> SUFFICES ASSUME TypeOK, PassIsSized, PassIsSized', Next PROVE Nearer
      OBVIOUS
  <2>1. /\ PassLeft \in 0 .. 4 * MaxPolls + 8 /\ PassLeft' \in 0 .. 4 * MaxPolls + 8
        /\ TurnsLeft \in 0 .. 2 * MaxPolls + 1
        /\ PassLeft' = 0 <=> pc' \in {"idle", "down"}
        /\ polls \in 0 .. MaxPolls /\ cancelled \in BOOLEAN /\ MaxPolls \in Nat
    BY DEF PassIsSized, TypeOK
  <2>2. ASSUME UNCHANGED <<pc, cancelled, polls>> PROVE PassLeft' = PassLeft
    BY <2>2 DEF PassLeft, TurnsLeft
  <2>3. ASSUME pc \notin {"idle", "down"}, pc' \in {"idle", "down"} PROVE Nearer
    BY <2>1, <2>3 DEF PassIsSized
  <2>4. ASSUME pc \notin {"idle", "down", "booking"}, pc' = "booking" PROVE Nearer
    BY <2>4, <2>1 DEF PassLeft, TypeOK, Places
  <2>5. ASSUME StartPolling PROVE PassLeft' = 4 * MaxPolls + 5
    BY <2>5, <2>1 DEF StartPolling, PassLeft, TurnsLeft
  <2>6. CASE FetchPrior
    <3>1. pc = "fetch" /\ (Book \/ pc' = "submit" \/ StartPolling)
      BY <2>6 DEF FetchPrior
    <3> QED
      BY <3>1, <2>1, <2>4, <2>5 DEF Book, PassLeft
  <2>7. CASE FetchFails \/ (\E o \in OrderIds : SubmitAccepted(o))
    BY <2>7, <2>1 DEF FetchFails, SubmitAccepted, PassLeft
  <2>8. CASE (\E o \in OrderIds : SubmitLost(o)) \/ SubmitRefused \/ GraceOver
               \/ DeadlineCancelFails
    BY <2>8, <2>3 DEF SubmitLost, SubmitRefused, GraceOver, DeadlineCancelFails, EndPass
  <2>9. CASE SaveOrder
    BY <2>9, <2>1, <2>5 DEF SaveOrder, PassLeft
  <2>10. CASE Poll
    <3>1. pc = "poll" /\ UNCHANGED <<cancelled, polls>>
          /\ (pc' = "waiting" \/ pc' = "booking" \/ pc' = "idle")
      BY <2>10 DEF Poll, Book, EndPass
    <3>2. CASE pc' = "waiting"
      <4>1. TurnsLeft' = TurnsLeft
        BY <3>1 DEF TurnsLeft
      <4> QED
        BY <3>1, <3>2, <4>1, <2>1 DEF PassLeft
    <3> QED
      BY <3>1, <3>2, <2>3, <2>4
  <2>11. CASE PollAgain
    <3>1. TurnsLeft' = TurnsLeft - 1 /\ pc = "waiting" /\ pc' = "poll"
      BY <2>11, <2>1 DEF PollAgain, TurnsLeft
    <3> QED
      BY <3>1, <2>1 DEF PassLeft
  <2>12. CASE DeadlineCancel
    <3>1. TurnsLeft' = TurnsLeft - 1 /\ pc = "waiting" /\ pc' = "poll"
      BY <2>12, <2>1 DEF DeadlineCancel, TurnsLeft
    <3> QED
      BY <3>1, <2>1 DEF PassLeft
  <2>13. CASE LogExit \/ LogExitRaises
    BY <2>13, <2>3 DEF LogExit, LogExitRaises
  <2>14. CASE Pass
    BY <2>14, <2>6, <2>7, <2>8, <2>9, <2>10, <2>11, <2>12, <2>13 DEF Pass
  <2>15. CASE Broker \/ IntradayPhantom \/ IntradayResync
    BY <2>15, <2>14, <2>1, <2>2
    DEF Broker, BrokerFills, BrokerKills, BrokerRejects, IntradayPhantom, IntradayResync, pollVars
  <2>16. CASE Crash \/ Restart
    BY <2>16, <2>14, <2>1 DEF Crash, Restart
  <2> QED
    BY <2>14, <2>15, <2>16 DEF Next
<1>2. PassIsSized => PassLeft <= 4 * MaxPolls + 8
    BY DEF PassIsSized
<1> QED
    BY <1>1, <1>2, PassLeftBounds, TypeCorrect, PTL DEF Spec, PassRunsDown

-----------------------------------------------------------------------------
(* A closed position is booked within six calls that are answered.         *)

(* An order is named only while contracts are left to close.               *)
OrderIsForARest ==
  \A m \in {mem, row.state, copy} : m.oid # NoOrder => m.fills < Total

LEMMA SavedIsForARest ==
  ASSUME TypeOK, OrderIsForARest, NEW m \in ExitMem, mem' = m, Save(m),
         m.oid # NoOrder => m.fills < Total
  PROVE  OrderIsForARest'
  BY SaveLemma, PersistedType DEF OrderIsForARest, TypeOK

LEMMA OrderIsForARestAlways == Spec => []OrderIsForARest
<1>1. Init => OrderIsForARest
    BY BlankType DEF Init, OrderIsForARest
<1>2. NothingInvented /\ OrderIsForARest /\ [Next]_vars => OrderIsForARest'
  <2> SUFFICES ASSUME NothingInvented, OrderIsForARest, [Next]_vars PROVE OrderIsForARest'
      OBVIOUS
  <2>0. TypeOK /\ mem \in ExitMem /\ mem.fills \in Nat /\ mem.oid \in OrderIds \cup {NoOrder}
        /\ row.state \in ExitMem /\ row \in [open : BOOLEAN, state : ExitMem]
    BY DEF NothingInvented, TypeOK, ExitMem
  <2>1. ASSUME UNCHANGED <<row, mem, copy>> PROVE OrderIsForARest'
    BY <2>1 DEF OrderIsForARest
  <2>2. ASSUME Book PROVE OrderIsForARest'
    BY <2>2, <2>0, BlankType, SavedIsForARest DEF Book
  <2>3. ASSUME NEW m \in ExitMem, EndPass(m), m.oid # NoOrder => m.fills < Total
        PROVE  OrderIsForARest'
    BY <2>3, <2>0, SavedIsForARest DEF EndPass
  <2>4. mem.oid # NoOrder => mem.fills < Total
    BY DEF OrderIsForARest
  <2>5. ASSUME mem.oid \in OrderIds, NEW n \in ReadFills(mem.oid)
        PROVE  Harvest(n) \in ExitMem /\ Harvest(n).oid = NoOrder
    <3>1. n \in Nat
      BY <2>5, <2>0 DEF ReadFills, TypeOK
    <3> QED
      BY <3>1, <2>0, HarvestLemma
  <2>6. [mem EXCEPT !.oid = NoOrder] \in ExitMem /\ [mem EXCEPT !.oid = NoOrder].oid = NoOrder
    BY <2>0 DEF ExitMem
  <2>7. CASE StartPass
    BY <2>7, <2>1, <2>2 DEF StartPass
  <2>8. CASE FetchPrior
    <3>1. mem.oid \in OrderIds
      BY <2>8, <2>0 DEF FetchPrior, NothingInvented
    <3>2. \/ Book \/ UNCHANGED <<row, mem, copy>>
          \/ \E n \in ReadFills(mem.oid) : mem' = Harvest(n) /\ UNCHANGED <<row, copy>>
      BY <2>8 DEF FetchPrior
    <3>3. ASSUME NEW n \in ReadFills(mem.oid), mem' = Harvest(n), UNCHANGED <<row, copy>>
          PROVE  OrderIsForARest'
      BY <3>1, <3>3, <2>5 DEF OrderIsForARest
    <3> QED
      BY <3>2, <3>3, <2>1, <2>2
  <2>9. CASE FetchFails
    BY <2>9, <2>6 DEF FetchFails, OrderIsForARest
  <2>10. ASSUME NEW o \in OrderIds, SubmitAccepted(o) PROVE OrderIsForARest'
    BY <2>10, <2>0 DEF SubmitAccepted, OrderIsForARest, NothingInvented
  <2>11. CASE (\E o \in OrderIds : SubmitLost(o)) \/ SubmitRefused \/ DeadlineCancelFails
               \/ GraceOver
    BY <2>11, <2>0, <2>3, <2>4 DEF SubmitLost, SubmitRefused, DeadlineCancelFails, GraceOver
  <2>12. CASE SaveOrder
    BY <2>12, <2>0, <2>4, SavedIsForARest DEF SaveOrder
  <2>13. CASE Poll
    <3>1. mem.oid \in OrderIds
      BY <2>13, <2>0 DEF Poll, NothingInvented
    <3>2. \/ Book \/ UNCHANGED <<row, mem, copy>>
          \/ \E n \in ReadFills(mem.oid) : EndPass(Harvest(n))
          \/ EndPass([mem EXCEPT !.oid = NoOrder])
      BY <2>13 DEF Poll
    <3>3. ASSUME NEW n \in ReadFills(mem.oid), EndPass(Harvest(n)) PROVE OrderIsForARest'
      BY <3>1, <3>3, <2>5, <2>3
    <3> QED
      BY <3>2, <3>3, <2>1, <2>2, <2>3, <2>6
  <2>14. CASE PollAgain \/ DeadlineCancel \/ LogExitRaises \/ Broker \/ UNCHANGED vars
    BY <2>14, <2>1
    DEF PollAgain, DeadlineCancel, LogExitRaises, Broker, BrokerFills, BrokerKills,
        BrokerRejects, vars
  <2>15. CASE LogExit \/ IntradayPhantom
    BY <2>15, <2>0 DEF LogExit, IntradayPhantom, OrderIsForARest
  <2>16. CASE IntradayResync
    BY <2>16 DEF IntradayResync, OrderIsForARest
  <2>17. CASE Crash
    BY <2>17, BlankType DEF Crash, OrderIsForARest
  <2>18. CASE Restart
    BY <2>18, <2>0 DEF Restart, OrderIsForARest
  <2>19. CASE Pass
    BY <2>19, <2>7, <2>8, <2>9, <2>10, <2>11, <2>12, <2>13, <2>14, <2>15 DEF Pass
  <2> QED
    BY <2>14, <2>15, <2>16, <2>17, <2>18, <2>19 DEF Next
<1> QED
    BY <1>1, <1>2, InventedAlways, PTL DEF Spec

(* A memory of a closed position that names an order names a dead or       *)
(* filled one, whose fills complete it.                                    *)
LEMMA ClosedOrderIsOver ==
  ASSUME NothingForgotten, OrderIsForARest, closed = Total, row.open,
         pc \in {"idle", "fetch", "submit", "posted", "poll", "waiting"}
  PROVE  /\ mem.oid = NoOrder => mem.fills = Total
         /\ mem.oid # NoOrder =>
              /\ orders[mem.oid].st \in {"filled", "dead"}
              /\ mem.fills + orders[mem.oid].filled = Total
<1>1. Accounts(orders, closed, mem) /\ mem \in ExitMem /\ mem.fills \in Nat
    BY ForgottenTypes DEF NothingForgotten
<1>2. mem.oid = NoOrder => mem.fills = Total
    BY <1>1 DEF Accounts, Claims, FilledBy
<1>3. CASE mem.oid # NoOrder
  <2>1. mem.oid \in OrderIds
    BY <1>3, ForgottenTypes
  <2>2. orders[mem.oid] \in [st : Statuses, qty : Nat, filled : Nat]
    BY <2>1, ForgottenTypes
  <2>3. /\ mem.fills + orders[mem.oid].filled = Total
        /\ orders[mem.oid].st # "unused" /\ mem.fills < Total
    BY <1>1, <1>3 DEF Accounts, Claims, FilledBy, OrderIsForARest
  <2>4. orders[mem.oid].st \notin Live
    BY <1>1, <2>1, CoveredMeansNoneLive
  <2>5. orders[mem.oid].st # "rejected"
    BY <2>1, <2>2, <2>3, <1>1 DEF NothingForgotten, OrdersSound
  <2> QED
    BY <1>3, <2>2, <2>3, <2>4, <2>5 DEF Statuses
<1> QED
    BY <1>2, <1>3

(* When the broker has closed the whole position, every call of a pass     *)
(* that is answered brings the row nearer to being booked closed; what     *)
(* could put it off is a read that fails, or a kill.                       *)
THEOREM BookedWithinSixCalls == ASSUME Benign PROVE Spec => ClosedIsBookedSoon
<1> DEFINE Sooner ==
      closed = Total /\ row.open /\ pc # "down" =>
        \/ ~row'.open \/ pc' = "down" \/ ReadsNothing
        \/ ToBook' < ToBook
        \/ ~Pass /\ ToBook' = ToBook
<1>1. NothingForgotten /\ OrderIsForARest /\ [Next]_vars => [Sooner]_vars
  <2> SUFFICES ASSUME NothingForgotten, OrderIsForARest, Next, ~ReadsNothing,
                      closed = Total, row.open, pc # "down"
               PROVE  \/ ~row'.open \/ pc' = "down"
                      \/ ToBook' < ToBook
                      \/ ~Pass /\ ToBook' = ToBook
      OBVIOUS
  <2> DEFINE Nearer == ToBook' < ToBook
  <2>0. /\ pc \in Places /\ mem.fills \in Nat
        /\ "fills" \notin Faults /\ "fetch" \notin Faults /\ "log" \notin Faults
    BY ForgottenTypes DEF NothingForgotten, TypeOK, Benign, BenignFaults
  <2>1. CASE StartPass
    <3>1. pc = "idle" /\ (Book \/ pc' = "fetch")
      BY <2>1, ClosedOrderIsOver DEF StartPass
    <3> QED
      BY <3>1 DEF Book, ToBook
  <2>2. CASE FetchPrior
    <3>1. mem.oid \in OrderIds /\ orders[mem.oid].filled \in Nat /\ pc = "fetch"
      BY <2>2, ForgottenTypes DEF FetchPrior, NothingForgotten
    <3>2. mem.fills + orders[mem.oid].filled = Total /\ mem.oid # NoOrder
      BY <3>1, ClosedOrderIsOver, ForgottenTypes
    <3>3. \A n \in ReadFills(mem.oid) : Harvest(n).fills >= Total
      BY <2>0, <3>1, <3>2, HarvestLemma, ForgottenTypes DEF ReadFills
    <3>4. Book \/ pc' = "poll"
      BY <2>2, <3>3 DEF FetchPrior, StartPolling
    <3> QED
      BY <3>1, <3>4 DEF Book, ToBook
  <2>3. CASE FetchFails \/ LogExitRaises
    BY <2>3, <2>0 DEF FetchFails, LogExitRaises
  <2>4. pc # "submit"
    BY <2>0, ClosedOrderIsOver DEF NothingForgotten
  <2>5. CASE SubmitRefused \/ (\E o \in OrderIds : SubmitAccepted(o) \/ SubmitLost(o))
    BY <2>5, <2>4 DEF SubmitRefused, SubmitAccepted, SubmitLost
  <2>6. CASE SaveOrder
    BY <2>6 DEF SaveOrder, StartPolling, ToBook
  <2>7. CASE Poll
    <3>1. mem.oid \in OrderIds /\ orders[mem.oid].filled \in Nat /\ pc = "poll"
      BY <2>7, ForgottenTypes DEF Poll, NothingForgotten
    <3>2. /\ orders[mem.oid].st \in {"filled", "dead"}
          /\ mem.fills + orders[mem.oid].filled = Total
      BY <3>1, ClosedOrderIsOver, ForgottenTypes
    <3>3. \A n \in ReadFills(mem.oid) : Harvest(n).fills >= Total
      BY <2>0, <3>1, <3>2, HarvestLemma, ForgottenTypes DEF ReadFills
    <3>4. seen' = orders[mem.oid].st
      BY <2>7 DEF ReadsNothing
    <3>5. Book
      BY <2>7, <3>2, <3>3, <3>4 DEF Poll, Live
    <3> QED
      BY <3>1, <3>5 DEF Book, ToBook
  <2>8. CASE PollAgain
    BY <2>8 DEF PollAgain, ToBook
  <2>9. CASE DeadlineCancel \/ DeadlineCancelFails \/ GraceOver
    BY <2>9 DEF DeadlineCancel, DeadlineCancelFails, GraceOver, EndPass, ToBook
  <2>10. CASE LogExit
    <3>1. row \in [open : BOOLEAN, state : ExitMem]
      BY ForgottenTypes
    <3> QED
      BY <2>10, <3>1 DEF LogExit
  <2>11. CASE Pass
    BY <2>11, <2>1, <2>2, <2>3, <2>5, <2>6, <2>7, <2>8, <2>9, <2>10 DEF Pass
  <2>12. CASE Broker \/ IntradayPhantom \/ IntradayResync
    <3>1. pc' = pc
      BY <2>12 DEF Broker, BrokerFills, BrokerKills, BrokerRejects, IntradayPhantom, IntradayResync
    <3> QED
      BY <3>1, <2>11 DEF ToBook
  <2>13. CASE Crash \/ Restart
    BY <2>13 DEF Crash, Restart
  <2> QED
    BY <2>11, <2>12, <2>13 DEF Next
<1> QED
    BY <1>1, NothingIsForgotten, OrderIsForARestAlways, PTL DEF Spec, ClosedIsBookedSoon
=============================================================================
