---------------------------- MODULE CondorProofs ----------------------------
(***************************************************************************)
(* The verticals of a session, for every size, number of verticals and set *)
(* of upsets: an open row has what the broker has, no side is open twice,  *)
(* a final form is not rolled again, and the sizes of the contracts, the   *)
(* rows, the records and the walks stay in range.                          *)
(***************************************************************************)
EXTENDS Condor, TLAPS

Row == [side: Sides, qty: Int, wing: BOOLEAN, open: BOOLEAN]

\* One row for every vertical the broker was sent.
Shape == rows \in Seq(Row) /\ owned \in Seq(Int) /\ Len(owned) = Len(rows)

\* A record is of an open row, and asks its close for no more than a vertical's size.
Records ==
    /\ DOMAIN book \subseteq OpenRows
    /\ \A v \in DOMAIN book : book[v].qty \in Int /\ book[v].qty <= Lots

\* A remainder under a side's key is of a vertical of that side, knows what its row has while that
\* is open, and walks for exactly what is missing.
WalksAgree ==
    \A s \in Sides :
      /\ rem[s].id \in 0..Len(rows) /\ rem[s].left \in Int /\ rem[s].qty \in Int
      /\ rem[s].id # 0 =>
           /\ rows[rem[s].id].side = s
           /\ rem[s].qty + rem[s].left = Lots
           /\ rows[rem[s].id].open => rem[s].qty = rows[rem[s].id].qty

\* Between its close and its open a roll has left the side it sells again empty.
RollIsClear ==
    pc = "reopen" =>
      /\ deal.side \in Sides /\ deal.side \notin OpenSides
      /\ deal.qty \in Int /\ deal.qty <= Lots /\ deal.tested \in Verticals

CondorInv == Shape /\ Records /\ WalksAgree /\ RollIsClear /\ RowIsHeld /\ NeverTwoOfASide

\* A tick of the remainders keeps the invariant: what fills joins the record and the row alike.
LEMMA SupervisePreserves == ASSUME CondorInv, Supervise PROVE CondorInv'
<1> USE LotsAssumption
<1>1. PICK got \in [Sides -> Counts] :
        /\ \A s \in Sides : got[s] <= Asks(s)
        /\ owned' = [v \in Verticals |-> owned[v] + Gain(got, v)]
        /\ rows' = [v \in Verticals |-> Sized(got, v, rows[v])]
        /\ book' = [v \in DOMAIN book |->
                      IF \E s \in Growing(got, v) : rem[s].shared
                      THEN Sized(got, v, book[v]) ELSE book[v]]
        /\ rem' = [s \in Sides |->
                     IF Asks(s) = 0 \/ got[s] = rem[s].left THEN Nothing
                     ELSE Accrete(rem[s], got[s])]
  BY DEF Supervise
<1>2. pc' = "roll"
  BY DEF Supervise
<1>3. /\ Len(rows) \in Nat /\ Len(owned) = Len(rows) /\ DOMAIN rows = 1..Len(rows)
      /\ \A v \in Verticals : rows[v] \in Row /\ rows[v].qty \in Int /\ owned[v] \in Int
  <2>1. rows \in Seq(Row) /\ owned \in Seq(Int) /\ Len(owned) = Len(rows)
    BY DEF CondorInv, Shape
  <2>2. /\ Len(rows) \in Nat /\ DOMAIN rows = 1..Len(rows)
        /\ \A v \in Verticals : rows[v] \in Row /\ owned[v] \in Int
    BY <2>1 DEF Verticals
  <2> QED  BY <2>1, <2>2 DEF Row
\* What grows is a walk of an open row, which is the only walk of its row.
<1>4. ASSUME NEW v \in Verticals, Growing(got, v) # {}
      PROVE  \E s \in Sides : /\ Growing(got, v) = {s} /\ rem[s].id = v /\ rows[v].open
                              /\ got[s] \in Int /\ got[s] > 0 /\ got[s] <= rem[s].left
                              /\ rem[s].qty = rows[v].qty /\ rem[s].qty + rem[s].left = Lots
  <2>1. PICK s \in Sides : got[s] > 0 /\ rem[s].id = v
    BY <1>4 DEF Growing
  <2>2. got[s] \in Int /\ got[s] <= Asks(s)
    BY <1>1 DEF Counts
  <2>3. rem[s].id # 0 /\ rows[rem[s].id].open /\ got[s] <= rem[s].left
    BY <2>1, <2>2 DEF Asks
  <2>4. rows[v].side = s /\ rem[s].qty = rows[v].qty /\ rem[s].qty + rem[s].left = Lots
    BY <2>1, <2>3 DEF CondorInv, WalksAgree
  <2>5. ASSUME NEW r \in Growing(got, v) PROVE r = s
    <3>1. r \in Sides /\ rem[r].id = v
      BY DEF Growing
    <3> QED  BY <3>1, <2>1, <2>3, <2>4 DEF CondorInv, WalksAgree
  <2>6. Growing(got, v) = {s}
    BY <2>1, <2>5 DEF Growing
  <2> QED  BY <2>1, <2>2, <2>3, <2>4, <2>6
<1>5. ASSUME NEW v \in Verticals, Growing(got, v) # {}
      PROVE  \E s \in Sides : /\ Growing(got, v) = {s} /\ rem[s].id = v /\ rows[v].open
                              /\ Gain(got, v) = got[s] /\ Gain(got, v) \in Int
                              /\ \A r : Sized(got, v, r) = [r EXCEPT !.qty = rows[v].qty + Gain(got, v)]
                              /\ rows[v].qty + Gain(got, v) <= Lots
  <2>1. PICK s \in Sides :   /\ Growing(got, v) = {s} /\ rem[s].id = v /\ rows[v].open
                             /\ got[s] \in Int /\ got[s] > 0 /\ got[s] <= rem[s].left
                             /\ rem[s].qty = rows[v].qty /\ rem[s].qty + rem[s].left = Lots
    BY <1>4, <1>5
  <2>2. (CHOOSE x \in Growing(got, v) : TRUE) = s
    BY <2>1
  <2>3. Accrete(rem[s], got[s]).qty = rem[s].qty + got[s]
    BY DEF Accrete
  <2>4. Gain(got, v) = got[s]
    BY <2>2, <1>5 DEF Gain
  <2>5. ASSUME NEW r PROVE Sized(got, v, r) = [r EXCEPT !.qty = rows[v].qty + Gain(got, v)]
    <3>1. Sized(got, v, r) = [r EXCEPT !.qty = Accrete(rem[s], got[s]).qty]
      BY <2>2, <1>5 DEF Sized
    <3> QED  BY <3>1, <2>1, <2>3, <2>4
  <2>6. rem[s].left \in Int /\ rem[s].qty \in Int
    BY DEF CondorInv, WalksAgree
  <2> QED  BY <2>1, <2>4, <2>5, <2>6
<1>6. ASSUME NEW v \in Verticals, Growing(got, v) = {}
      PROVE  Gain(got, v) = 0 /\ \A r : Sized(got, v, r) = r
  BY <1>6 DEF Gain, Sized
<1>7. ASSUME NEW v \in Verticals
      PROVE  /\ Gain(got, v) \in Int /\ Sized(got, v, rows[v]) \in Row
             /\ Sized(got, v, rows[v]).side = rows[v].side
             /\ Sized(got, v, rows[v]).open = rows[v].open
             /\ Sized(got, v, rows[v]).qty = rows[v].qty + Gain(got, v)
  <2>1. rows[v] \in Row /\ rows[v].qty \in Int
    BY <1>3
  <2>2. CASE Growing(got, v) = {}
    BY <2>1, <2>2, <1>6
  <2>3. CASE Growing(got, v) # {}
    <3>1. Gain(got, v) \in Int /\ Sized(got, v, rows[v]) = [rows[v] EXCEPT !.qty = rows[v].qty + Gain(got, v)]
      BY <2>3, <1>5
    <3> QED  BY <2>1, <3>1 DEF Row
  <2> QED  BY <2>2, <2>3
<1>8. rows' \in Seq(Row) /\ owned' \in Seq(Int) /\ Len(rows') = Len(rows) /\ Len(owned') = Len(rows)
  <2>1. \A v \in 1..Len(rows) : Sized(got, v, rows[v]) \in Row /\ owned[v] + Gain(got, v) \in Int
    BY <1>3, <1>7 DEF Verticals
  <2>2. rows' \in Seq(Row) /\ Len(rows') = Len(rows)
    BY <1>1, <1>3, <2>1 DEF Verticals
  <2>3. owned' \in Seq(Int) /\ Len(owned') = Len(rows)
    BY <1>1, <1>3, <2>1 DEF Verticals
  <2> QED  BY <2>2, <2>3
<1>9. Shape' /\ Verticals' = Verticals
  BY <1>8 DEF Shape, Verticals
<1>10. ASSUME NEW v \in Verticals
       PROVE  /\ rows'[v].side = rows[v].side /\ rows'[v].open = rows[v].open
              /\ rows'[v].qty = rows[v].qty + Gain(got, v)
              /\ owned'[v] = owned[v] + Gain(got, v)
  BY <1>1, <1>7
<1>13. OpenRows' = OpenRows /\ NeverTwoOfASide'
  BY <1>9, <1>10 DEF OpenRows, NeverTwoOfASide, CondorInv
<1>14. RowIsHeld'
  <2> SUFFICES ASSUME NEW v \in OpenRows PROVE rows'[v].qty = owned'[v] /\ owned'[v] <= Lots
    BY <1>13 DEF RowIsHeld
  <2>1. v \in Verticals /\ rows[v].qty = owned[v] /\ owned[v] <= Lots /\ owned[v] \in Int
    BY <1>3 DEF OpenRows, CondorInv, RowIsHeld
  <2>2. CASE Growing(got, v) = {}
    BY <2>1, <2>2, <1>6, <1>10
  <2>3. CASE Growing(got, v) # {}
    BY <2>1, <2>3, <1>5, <1>10
  <2> QED  BY <2>2, <2>3
<1>15. Records'
  <2>1. DOMAIN book' = DOMAIN book
    BY <1>1
  <2>2. DOMAIN book \subseteq OpenRows /\ DOMAIN book \subseteq Verticals
    BY DEF CondorInv, Records, OpenRows
  <2>3. ASSUME NEW v \in DOMAIN book PROVE book'[v].qty \in Int /\ book'[v].qty <= Lots
    <3>1. book[v].qty \in Int /\ book[v].qty <= Lots /\ v \in Verticals
      BY <2>2 DEF CondorInv, Records
    <3>2. CASE ~ \E s \in Growing(got, v) : rem[s].shared
      BY <3>1, <3>2, <1>1
    <3>3. CASE \E s \in Growing(got, v) : rem[s].shared
      <4>1. Growing(got, v) # {}
        BY <3>3
      <4>2. book'[v] = Sized(got, v, book[v])
        BY <3>1, <3>3, <1>1
      <4>3. Sized(got, v, book[v]) = [book[v] EXCEPT !.qty = rows[v].qty + Gain(got, v)]
        BY <3>1, <4>1, <1>5
      <4>4. book'[v].qty = rows[v].qty + Gain(got, v) \/ book'[v].qty = book[v].qty
        BY <4>2, <4>3
      <4> QED  BY <3>1, <4>1, <4>4, <1>3, <1>5
    <3> QED  BY <3>2, <3>3
  <2> QED  BY <2>1, <2>2, <2>3, <1>13 DEF Records
<1>16. WalksAgree'
  <2> SUFFICES ASSUME NEW s \in Sides
        PROVE /\ rem'[s].id \in 0..Len(rows') /\ rem'[s].left \in Int /\ rem'[s].qty \in Int
              /\ rem'[s].id # 0 =>
                   /\ rows'[rem'[s].id].side = s
                   /\ rem'[s].qty + rem'[s].left = Lots
                   /\ rows'[rem'[s].id].open => rem'[s].qty = rows'[rem'[s].id].qty
    BY DEF WalksAgree
  <2>0. Len(rows') = Len(rows) /\ Len(rows) \in Nat
    BY <1>3, <1>8
  <2>1. CASE Asks(s) = 0 \/ got[s] = rem[s].left
    <3>1. rem'[s] = Nothing
      BY <2>1, <1>1
    <3> QED  BY <3>1, <2>0 DEF Nothing
  <2>2. CASE ~(Asks(s) = 0 \/ got[s] = rem[s].left)
    <3>1. rem'[s] = Accrete(rem[s], got[s])
      BY <2>2, <1>1
    <3>2. rem[s].id # 0 /\ rows[rem[s].id].open /\ got[s] <= rem[s].left
      BY <2>2, <1>1 DEF Asks
    <3>3. got[s] \in Int /\ got[s] >= 0
      BY DEF Counts
    <3>4. rem[s].left \in Int /\ rem[s].qty \in Int /\ rem[s].id \in Verticals
      BY <3>2, <2>0 DEF CondorInv, WalksAgree, Verticals
    <3>5. rem'[s].id = rem[s].id /\ rem'[s].left = rem[s].left - got[s] /\ rem'[s].qty = rem[s].qty + got[s]
      <4>1. rem[s].left > got[s]
        BY <2>2, <3>2, <3>3, <3>4
      <4> QED  BY <3>1, <4>1 DEF Accrete
    <3>6. rows[rem[s].id].side = s /\ rem[s].qty + rem[s].left = Lots /\ rem[s].qty = rows[rem[s].id].qty
      BY <3>2 DEF CondorInv, WalksAgree
    <3>7. Gain(got, rem[s].id) = got[s]
      <4>1. CASE got[s] > 0
        <5>1. s \in Growing(got, rem[s].id)
          BY <4>1 DEF Growing
        <5>2. PICK r \in Sides : Growing(got, rem[s].id) = {r} /\ Gain(got, rem[s].id) = got[r]
          BY <5>1, <3>4, <1>5
        <5> QED  BY <5>1, <5>2
      <4>2. CASE ~(got[s] > 0)
        <5>1. Growing(got, rem[s].id) = {}
          <6> SUFFICES ASSUME NEW r \in Growing(got, rem[s].id) PROVE FALSE
            OBVIOUS
          <6>1. r \in Sides /\ got[r] > 0 /\ rem[r].id = rem[s].id
            BY DEF Growing
          <6>2. rows[rem[r].id].side = r
            BY <6>1, <3>2 DEF CondorInv, WalksAgree
          <6> QED  BY <6>1, <6>2, <3>6, <4>2
        <5> QED  BY <5>1, <3>3, <3>4, <4>2, <1>6
      <4> QED  BY <4>1, <4>2
    <3>8. rows'[rem[s].id].side = s /\ rows'[rem[s].id].qty = rem[s].qty + got[s]
      BY <3>4, <3>6, <3>7, <1>10
    <3>9. rem[s].id \in 0..Len(rows)
      BY DEF CondorInv, WalksAgree
    <3>10. rem'[s].id \in 0..Len(rows')
      BY <3>5, <3>9, <2>0
    <3>11. rem'[s].left \in Int /\ rem'[s].qty \in Int /\ rem'[s].qty + rem'[s].left = Lots
      BY <3>3, <3>4, <3>5, <3>6
    <3> QED  BY <3>5, <3>8, <3>10, <3>11
  <2> QED  BY <2>1, <2>2
<1>17. RollIsClear'
  BY <1>2 DEF RollIsClear
<1> QED  BY <1>9, <1>13, <1>14, <1>15, <1>16, <1>17 DEF CondorInv

\* The other actions either leave what the invariant reads, or do one of three things to the rows.
LEMMA WindowPreserves == ASSUME CondorInv, WindowCloses \/ NoRoll \/ RollHalts \/ NoEntry PROVE CondorInv'
<1>1. owned' = owned /\ rows' = rows /\ book' = book /\ rem' = rem
  BY DEF WindowCloses, NoRoll, RollHalts, NoEntry
<1>2. pc' # "reopen" \/ (pc' = pc /\ deal' = deal)
  BY DEF WindowCloses, NoRoll, RollHalts, NoEntry
<1> QED
  BY <1>1, <1>2 DEF CondorInv, Shape, Records, WalksAgree, RollIsClear, RowIsHeld, NeverTwoOfASide,
     OpenRows, OpenSides, Verticals

\* Closing: the rows of gone are closed, the others and all walks are as they were.
ClosesRows(gone) ==
    /\ Shape' /\ Len(rows') = Len(rows)
    /\ \A v \in Verticals : rows'[v].side = rows[v].side /\ rows'[v].qty = rows[v].qty
    /\ \A v \in Verticals \ gone : rows'[v].open = rows[v].open /\ owned'[v] = owned[v]
    /\ \A v \in gone : ~rows'[v].open

LEMMA ClosingPreserves ==
    ASSUME CondorInv, NEW gone \in SUBSET Verticals, ClosesRows(gone),
           \A s \in Sides : /\ rem'[s].id = rem[s].id /\ rem'[s].left = rem[s].left
                            /\ rem'[s].qty = rem[s].qty
    PROVE  /\ Verticals' = Verticals /\ OpenRows' = OpenRows \ gone
           /\ Shape' /\ WalksAgree' /\ RowIsHeld' /\ NeverTwoOfASide'
<1>1. Verticals' = Verticals /\ Len(rows') = Len(rows)
  BY DEF ClosesRows, Verticals
<1>2. OpenRows' = OpenRows \ gone
  BY <1>1 DEF ClosesRows, OpenRows
<1>3. RowIsHeld' /\ NeverTwoOfASide'
  BY <1>1, <1>2 DEF ClosesRows, CondorInv, RowIsHeld, NeverTwoOfASide, OpenRows
<1>4. WalksAgree'
  <2> SUFFICES ASSUME NEW s \in Sides
        PROVE /\ rem'[s].id \in 0..Len(rows') /\ rem'[s].left \in Int /\ rem'[s].qty \in Int
              /\ rem'[s].id # 0 =>
                   /\ rows'[rem'[s].id].side = s
                   /\ rem'[s].qty + rem'[s].left = Lots
                   /\ rows'[rem'[s].id].open => rem'[s].qty = rows'[rem'[s].id].qty
    BY DEF WalksAgree
  <2>1. /\ rem[s].id \in 0..Len(rows) /\ rem[s].left \in Int /\ rem[s].qty \in Int
        /\ rem[s].id # 0 =>
             /\ rows[rem[s].id].side = s
             /\ rem[s].qty + rem[s].left = Lots
             /\ rows[rem[s].id].open => rem[s].qty = rows[rem[s].id].qty
    BY DEF CondorInv, WalksAgree
  <2>2. rem[s].id # 0 => rem[s].id \in Verticals
    BY <2>1 DEF CondorInv, Shape, Verticals
  <2> QED  BY <1>1, <2>1, <2>2 DEF ClosesRows
<1> QED  BY <1>1, <1>2, <1>3, <1>4 DEF ClosesRows

\* Opening: a row of a side nothing is open on is added, with what was bought.
OpensRow(side, got) ==
    /\ Shape' /\ Len(rows') = Len(rows) + 1
    /\ \A v \in Verticals : /\ rows'[v].side = rows[v].side /\ rows'[v].qty = rows[v].qty
                            /\ rows'[v].open = rows[v].open /\ owned'[v] = owned[v]
    /\ rows'[Len(rows) + 1].side = side /\ rows'[Len(rows) + 1].qty = got
    /\ rows'[Len(rows) + 1].open /\ owned'[Len(rows) + 1] = got

LEMMA OpeningPreserves ==
    ASSUME CondorInv, NEW side \in Sides, side \notin OpenSides, NEW got \in Int, got <= Lots,
           OpensRow(side, got)
    PROVE  /\ Verticals' = Verticals \cup {Len(rows) + 1}
           /\ OpenRows' = OpenRows \cup {Len(rows) + 1}
           /\ Shape' /\ RowIsHeld' /\ NeverTwoOfASide'
<1>1. Len(rows) \in Nat
  BY DEF CondorInv, Shape
<1>2. Verticals' = Verticals \cup {Len(rows) + 1}
  BY <1>1 DEF OpensRow, Verticals
<1>3. OpenRows' = OpenRows \cup {Len(rows) + 1}
  BY <1>2 DEF OpensRow, OpenRows
<1>4. RowIsHeld'
  BY <1>3 DEF OpensRow, CondorInv, RowIsHeld, OpenRows
<1>5. NeverTwoOfASide'
  BY <1>3 DEF OpensRow, CondorInv, NeverTwoOfASide, OpenRows, OpenSides
<1> QED  BY <1>2, <1>3, <1>4, <1>5 DEF OpensRow

\* What the invariant says of the shape of rows, owned and book.
LEMMA ShapeOf ==
    ASSUME CondorInv
    PROVE  /\ rows \in Seq(Row) /\ owned \in Seq(Int) /\ Len(rows) \in Nat /\ Len(owned) = Len(rows)
           /\ DOMAIN rows = Verticals /\ DOMAIN owned = Verticals
           /\ \A v \in Verticals : rows[v] \in Row /\ owned[v] \in Int
           /\ DOMAIN book \subseteq OpenRows /\ OpenRows \subseteq Verticals
           /\ \A v \in Verticals : [rows[v] EXCEPT !.open = FALSE] \in Row
<1>1. rows \in Seq(Row) /\ owned \in Seq(Int) /\ Len(owned) = Len(rows)
  BY DEF CondorInv, Shape
<1>2. /\ Len(rows) \in Nat /\ DOMAIN rows = Verticals /\ DOMAIN owned = Verticals
      /\ \A v \in Verticals : rows[v] \in Row /\ owned[v] \in Int
  BY <1>1 DEF Verticals
<1>3. \A v \in Verticals : [rows[v] EXCEPT !.open = FALSE] \in Row
  BY <1>2 DEF Row
<1> QED  BY <1>1, <1>2, <1>3 DEF CondorInv, Records, OpenRows

\* A set of rows closed at once, as the manager and the reconcile close theirs.
LEMMA SetCloses ==
    ASSUME CondorInv, NEW gone \in SUBSET Verticals,
           rows' = [v \in Verticals |->
                      IF v \in gone THEN [rows[v] EXCEPT !.open = FALSE] ELSE rows[v]],
           owned' \in [Verticals -> Int], \A v \in Verticals \ gone : owned'[v] = owned[v]
    PROVE  ClosesRows(gone)
<1>1. \A v \in 1..Len(rows) : (IF v \in gone THEN [rows[v] EXCEPT !.open = FALSE] ELSE rows[v]) \in Row
  BY ShapeOf DEF Verticals
<1>2. rows' \in Seq(Row) /\ Len(rows') = Len(rows)
  BY <1>1, ShapeOf DEF Verticals
<1>3. owned' \in Seq(Int) /\ Len(owned') = Len(rows)
  <2>1. owned' = [v \in 1..Len(rows) |-> owned'[v]] /\ \A v \in 1..Len(rows) : owned'[v] \in Int
    BY DEF Verticals
  <2>2. Len(rows) \in Nat
    BY ShapeOf
  <2> QED  BY <2>1, <2>2
<1>4. \A v \in Verticals : rows'[v].side = rows[v].side /\ rows'[v].qty = rows[v].qty
  BY ShapeOf DEF Row
<1>5. \A v \in gone : ~rows'[v].open
  BY ShapeOf DEF Row
<1> QED  BY <1>2, <1>3, <1>4, <1>5 DEF ClosesRows, Shape

\* The roll's close keeps the invariant and leaves its side empty.
LEMMA RollClosesPreserves == ASSUME CondorInv, RollCloses PROVE CondorInv'
<1>1. PICK t, u \in DOMAIN book :
         /\ MayRoll(t, u)
         /\ deal' = [tested |-> t, side |-> rows[u].side, qty |-> book[u].qty]
         /\ owned' = [owned EXCEPT ![u] = @ - book[u].qty]
         /\ rows' = [rows EXCEPT ![u].open = FALSE]
         /\ book' = Only(book, {t})
  BY DEF RollCloses
<1>2. pc' = "reopen" /\ rem' = rem
  BY DEF RollCloses
<1>3. /\ t \in OpenRows /\ u \in OpenRows /\ t \in Verticals /\ u \in Verticals
      /\ rows[t].side # rows[u].side /\ rows[u].open
      /\ book[u].qty \in Int /\ book[u].qty <= Lots /\ book[t].qty \in Int /\ book[t].qty <= Lots
  BY <1>1, ShapeOf DEF CondorInv, Records, MayRoll, OpenRows
<1>4. ClosesRows({u})
  <2>1. rows' = [v \in Verticals |-> IF v \in {u} THEN [rows[v] EXCEPT !.open = FALSE] ELSE rows[v]]
    BY <1>1, <1>3, ShapeOf
  <2>2. owned' \in [Verticals -> Int] /\ \A v \in Verticals \ {u} : owned'[v] = owned[v]
    BY <1>1, <1>3, ShapeOf
  <2> QED  BY <1>3, <2>1, <2>2, SetCloses
<1>5. /\ Verticals' = Verticals /\ OpenRows' = OpenRows \ {u}
      /\ Shape' /\ WalksAgree' /\ RowIsHeld' /\ NeverTwoOfASide'
  BY <1>2, <1>3, <1>4, ClosingPreserves
<1>6. Records'
  <2>1. DOMAIN book' = {t} /\ book'[t] = book[t]
    BY <1>1 DEF Only
  <2> QED  BY <1>3, <1>5, <2>1 DEF Records
<1>7. RollIsClear'
  <2>1. deal'.side = rows[u].side /\ deal'.qty = book[u].qty /\ deal'.tested = t
    BY <1>1
  <2>2. rows[u].side \in Sides
    BY <1>3, ShapeOf DEF Row
  <2>3. ASSUME NEW v \in OpenRows' PROVE rows'[v].side # rows[u].side
    <3>1. v \in OpenRows /\ v # u /\ v \in Verticals
      BY <1>5, ShapeOf
    <3>2. rows'[v].side = rows[v].side
      BY <1>4, <3>1 DEF ClosesRows
    <3> QED  BY <1>3, <3>1, <3>2 DEF CondorInv, NeverTwoOfASide
  <2>4. rows[u].side \notin OpenSides'
    BY <2>3 DEF OpenSides
  <2> QED  BY <1>3, <1>5, <2>1, <2>2, <2>4 DEF RollIsClear
<1> QED  BY <1>5, <1>6, <1>7 DEF CondorInv

\* The manager's exits keep the invariant.
LEMMA ManagePreserves == ASSUME CondorInv, Manage PROVE CondorInv'
<1>1. PICK done \in SUBSET DOMAIN book :
         /\ owned' = [v \in Verticals |-> IF v \in done THEN owned[v] - book[v].qty ELSE owned[v]]
         /\ rows' = [v \in Verticals |->
                       IF v \in done THEN [rows[v] EXCEPT !.open = FALSE] ELSE rows[v]]
         /\ book' = Only(book, DOMAIN book \ done)
  BY DEF Manage
<1>2. pc' = "enter" /\ rem' = rem
  BY DEF Manage
<1>3. done \in SUBSET Verticals /\ \A v \in DOMAIN book : book[v].qty \in Int /\ book[v].qty <= Lots
  BY ShapeOf DEF CondorInv, Records
<1>4. owned' \in [Verticals -> Int] /\ \A v \in Verticals \ done : owned'[v] = owned[v]
  BY <1>1, <1>3, ShapeOf
<1>5. ClosesRows(done)
  BY <1>1, <1>3, <1>4, SetCloses
<1>6. /\ OpenRows' = OpenRows \ done /\ Shape' /\ WalksAgree' /\ RowIsHeld' /\ NeverTwoOfASide'
  BY <1>2, <1>3, <1>5, ClosingPreserves
<1>7. Records'
  <2>1. DOMAIN book' = DOMAIN book \ done /\ \A v \in DOMAIN book' : book'[v] = book[v]
    BY <1>1 DEF Only
  <2> QED  BY <1>3, <1>6, <2>1, ShapeOf DEF Records
<1> QED  BY <1>2, <1>6, <1>7 DEF CondorInv, RollIsClear

\* The manager's records read from the rows are of what is open.
LEMMA RecordsFromRows ==
    ASSUME Shape', RowIsHeld',
           book' = [v \in OpenRows' |-> [qty |-> rows'[v].qty, wing |-> rows'[v].wing]]
    PROVE  Records'
<1>1. DOMAIN book' = OpenRows'
  OBVIOUS
<1>2. ASSUME NEW v \in DOMAIN book' PROVE book'[v].qty \in Int /\ book'[v].qty <= Lots
  <2>1. book'[v].qty = rows'[v].qty /\ v \in Verticals'
    BY <1>1, <1>2 DEF OpenRows
  <2>2. rows'[v].qty = owned'[v] /\ owned'[v] <= Lots
    BY <1>1 DEF RowIsHeld
  <2>3. owned'[v] \in Int
    BY <2>1 DEF Shape, Verticals
  <2> QED  BY <2>1, <2>2, <2>3
<1> QED  BY <1>1, <1>2 DEF Records

\* The resync keeps the invariant: its records are of the rows still open.
LEMMA ReconcilePreserves == ASSUME CondorInv, Reconcile PROVE CondorInv'
<1> USE LotsAssumption
<1>1. PICK gone \in SUBSET OpenRows :
         /\ owned' = [v \in Verticals |-> IF v \in gone THEN 0 ELSE owned[v]]
         /\ rows' = [v \in Verticals |->
                       IF v \in gone THEN [rows[v] EXCEPT !.open = FALSE] ELSE rows[v]]
         /\ book' = FromRows(rows')
         /\ rem' = [s \in Sides |-> [id |-> rem[s].id, left |-> rem[s].left, qty |-> rem[s].qty,
                                     shared |-> FALSE]]
  BY DEF Reconcile
<1>2. gone \in SUBSET Verticals /\ pc = "supervise" /\ pc' = pc
  BY ShapeOf DEF Reconcile
<1>3. owned' \in [Verticals -> Int] /\ \A v \in Verticals \ gone : owned'[v] = owned[v]
  BY <1>1, ShapeOf
<1>4. ClosesRows(gone)
  BY <1>1, <1>2, <1>3, SetCloses
<1>5. ASSUME NEW s \in Sides
      PROVE  rem'[s].id = rem[s].id /\ rem'[s].left = rem[s].left /\ rem'[s].qty = rem[s].qty
  BY <1>1
<1>6. Shape' /\ WalksAgree' /\ RowIsHeld' /\ NeverTwoOfASide'
  BY <1>2, <1>4, <1>5, ClosingPreserves
<1>7. Records'
  <2>1. Verticals' = Verticals
    BY <1>2, <1>4, <1>5, ClosingPreserves
  <2>2. book' = [v \in OpenRows' |-> [qty |-> rows'[v].qty, wing |-> rows'[v].wing]]
    BY <1>1, <2>1 DEF FromRows, OpenRows
  <2> QED  BY <1>6, <2>2, RecordsFromRows
<1> QED  BY <1>2, <1>6, <1>7 DEF CondorInv, RollIsClear

\* A restart keeps the invariant: no walk is left and the records are of the open rows.
LEMMA RestartPreserves == ASSUME CondorInv, Restart PROVE CondorInv'
<1>1. owned' = owned /\ rows' = rows /\ book' = FromRows(rows) /\ pc' = "supervise"
      /\ rem' = [s \in Sides |-> Nothing]
  BY DEF Restart
<1>2. Shape' /\ RowIsHeld' /\ NeverTwoOfASide'
  BY <1>1 DEF CondorInv, Shape, RowIsHeld, NeverTwoOfASide, OpenRows, Verticals
<1>3. Records'
  <2>1. book' = [v \in OpenRows' |-> [qty |-> rows'[v].qty, wing |-> rows'[v].wing]]
    BY <1>1 DEF FromRows, OpenRows, Verticals
  <2> QED  BY <1>2, <2>1, RecordsFromRows
<1>4. WalksAgree'
  <2>1. \A s \in Sides : rem'[s].id = 0 /\ rem'[s].left = 0 /\ rem'[s].qty = 0
    BY <1>1 DEF Nothing
  <2> QED  BY <1>1, <2>1, ShapeOf DEF WalksAgree
<1> QED  BY <1>1, <1>2, <1>3, <1>4 DEF CondorInv, RollIsClear

\* The roll's open keeps the invariant: it books what filled, marked or not.
LEMMA RollReopensPreserves == ASSUME CondorInv, RollReopens PROVE CondorInv'
<1> DEFINE new == Len(rows) + 1
           t == deal.tested
           grown(got) == Append(rows, [side |-> deal.side, qty |-> RolledQty(got), wing |-> TRUE,
                                       open |-> TRUE])
           both(got) == [v \in DOMAIN book \cup {new} |->
                           IF v = new THEN [qty |-> RolledQty(got), wing |-> TRUE] ELSE book[v]]
<1>1. PICK got \in 1..deal.qty :
         /\ owned' = Append(owned, got)
         /\ \/ rows' = grown(got) /\ book' = both(got)
            \/ /\ rows' = Marks(grown(got), t)
               /\ book' = [both(got) EXCEPT ![t] = [qty |-> both(got)[t].qty, wing |-> TRUE]]
  BY DEF RollReopens
<1>2. pc = "reopen" /\ pc' = "manage" /\ rem' = rem
  BY DEF RollReopens
<1>3. /\ deal.side \in Sides /\ deal.side \notin OpenSides /\ deal.qty \in Int /\ deal.qty <= Lots
      /\ deal.tested \in Verticals
  BY <1>2 DEF CondorInv, RollIsClear
<1>4. got \in Int /\ got <= Lots
  BY <1>3, LotsAssumption
<1>5. /\ grown(got) \in Seq(Row) /\ Len(grown(got)) = new
      /\ \A v \in Verticals : grown(got)[v] = rows[v]
      /\ grown(got)[new] = [side |-> deal.side, qty |-> got, wing |-> TRUE, open |-> TRUE]
  <2>1. [side |-> deal.side, qty |-> got, wing |-> TRUE, open |-> TRUE] \in Row
    BY <1>3, <1>4 DEF Row
  <2> QED  BY <2>1, ShapeOf DEF RolledQty, Verticals
<1>6. owned' \in Seq(Int) /\ Len(owned') = new /\ owned'[new] = got
      /\ \A v \in Verticals : owned'[v] = owned[v]
  BY <1>1, <1>4, ShapeOf DEF Verticals
<1>7. /\ rows' \in Seq(Row) /\ Len(rows') = new
      /\ \A v \in Verticals \cup {new} : /\ rows'[v].side = grown(got)[v].side
                                        /\ rows'[v].qty = grown(got)[v].qty
                                        /\ rows'[v].open = grown(got)[v].open
  <2> HIDE DEF grown
  <2>1. CASE rows' = grown(got)
    BY <2>1, <1>5
  <2>2. CASE rows' = Marks(grown(got), t)
    <3>1. rows' = [grown(got) EXCEPT ![t].wing = TRUE] /\ DOMAIN grown(got) = 1..new
      BY <2>2, <1>5 DEF Marks
    <3>2. \A v \in 1..new : grown(got)[v] \in Row
      BY <1>5
    <3>3. \A v \in 1..new : rows'[v] = IF v = t THEN [grown(got)[v] EXCEPT !.wing = TRUE] ELSE grown(got)[v]
      BY <3>1
    <3>4. rows' \in Seq(Row) /\ Len(rows') = new
      <4>1. \A v \in 1..new : rows'[v] \in Row
        BY <3>2, <3>3 DEF Row
      <4>2. rows' = [v \in 1..new |-> rows'[v]]
        <5> HIDE DEF new, t
        <5> QED  BY <3>1
      <4>3. new \in Nat
        BY ShapeOf
      <4> HIDE DEF new
      <4> QED  BY <4>1, <4>2, <4>3
    <3>5. Verticals \cup {new} = 1..new
      <4>1. Len(rows) \in Nat
        BY ShapeOf
      <4> QED  BY <4>1 DEF Verticals
    <3> QED  BY <3>2, <3>3, <3>4, <3>5 DEF Row
  <2> QED  BY <1>1, <2>1, <2>2
<1>8. OpensRow(deal.side, got)
  <2>1. Shape'
    BY <1>6, <1>7 DEF Shape
  <2>2. \A v \in Verticals : /\ rows'[v].side = rows[v].side /\ rows'[v].qty = rows[v].qty
                             /\ rows'[v].open = rows[v].open /\ owned'[v] = owned[v]
    BY <1>5, <1>6, <1>7
  <2>3. rows'[new].side = deal.side /\ rows'[new].qty = got /\ rows'[new].open
    <3> HIDE DEF grown, new
    <3>1. /\ rows'[new].side = grown(got)[new].side /\ rows'[new].qty = grown(got)[new].qty
          /\ rows'[new].open = grown(got)[new].open
      BY <1>7
    <3>2. grown(got)[new].side = deal.side /\ grown(got)[new].qty = got /\ grown(got)[new].open = TRUE
      BY <1>5
    <3> QED  BY <3>1, <3>2
  <2> HIDE DEF grown
  <2> QED  BY <1>6, <1>7, <2>1, <2>2, <2>3 DEF OpensRow
<1> HIDE DEF grown
<1>9. Verticals' = Verticals \cup {new} /\ OpenRows' = OpenRows \cup {new}
      /\ Shape' /\ RowIsHeld' /\ NeverTwoOfASide'
  BY <1>3, <1>4, <1>8, OpeningPreserves
<1>10. Records'
  <2>1. DOMAIN book' = DOMAIN book \cup {new}
    BY <1>1
  <2>2. ASSUME NEW v \in DOMAIN book' PROVE book'[v].qty = IF v = new THEN got ELSE book[v].qty
    <3>1. both(got)[v].qty = IF v = new THEN got ELSE book[v].qty
      BY <2>1 DEF RolledQty
    <3>2. book'[v].qty = both(got)[v].qty
      <4>1. v \in DOMAIN both(got)
        BY <2>1
      <4>2. DOMAIN both(got) = DOMAIN book \cup {new}
        OBVIOUS
      <4> HIDE DEF both
      <4>3. CASE book' = both(got)
        BY <4>3
      <4>4. CASE book' = [both(got) EXCEPT ![t] = [qty |-> both(got)[t].qty, wing |-> TRUE]]
        <5>1. CASE v = t
          <6>1. book'[v] = [qty |-> both(got)[v].qty, wing |-> TRUE]
            BY <4>1, <4>4, <5>1
          <6> QED  BY <6>1
        <5>2. CASE v # t
          BY <4>1, <4>4, <5>2
        <5> QED  BY <5>1, <5>2
      <4> QED  BY <1>1, <4>3, <4>4
    <3> QED  BY <3>1, <3>2
  <2>3. \A v \in DOMAIN book : book[v].qty \in Int /\ book[v].qty <= Lots
    BY DEF CondorInv, Records
  <2> QED  BY <1>4, <1>9, <2>1, <2>2, <2>3, ShapeOf DEF Records
<1>11. WalksAgree'
  <2> SUFFICES ASSUME NEW s \in Sides
        PROVE /\ rem'[s].id \in 0..Len(rows') /\ rem'[s].left \in Int /\ rem'[s].qty \in Int
              /\ rem'[s].id # 0 =>
                   /\ rows'[rem'[s].id].side = s
                   /\ rem'[s].qty + rem'[s].left = Lots
                   /\ rows'[rem'[s].id].open => rem'[s].qty = rows'[rem'[s].id].qty
    BY DEF WalksAgree
  <2>1. /\ rem[s].id \in 0..Len(rows) /\ rem[s].left \in Int /\ rem[s].qty \in Int
        /\ rem[s].id # 0 =>
             /\ rows[rem[s].id].side = s
             /\ rem[s].qty + rem[s].left = Lots
             /\ rows[rem[s].id].open => rem[s].qty = rows[rem[s].id].qty
    BY DEF CondorInv, WalksAgree
  <2>2. rem[s].id # 0 => rem[s].id \in Verticals
    BY <2>1, ShapeOf DEF Verticals
  <2>3. rem[s].id \in 0..Len(rows')
    BY <2>1, <1>7, ShapeOf
  <2> QED  BY <1>2, <1>8, <2>1, <2>2, <2>3 DEF OpensRow
<1> QED  BY <1>2, <1>9, <1>10, <1>11 DEF CondorInv, RollIsClear

\* An entry keeps the invariant: what filled is booked, the rest is registered.
LEMMA EnterPreserves == ASSUME CondorInv, Enter PROVE CondorInv'
<1> DEFINE new == Len(rows) + 1
<1>1. PICK s \in Sides, got \in 1..Lots :
         /\ MayOpen(s)
         /\ owned' = Append(owned, got)
         /\ rows' = Append(rows, [side |-> s, qty |-> got, wing |-> FALSE, open |-> TRUE])
         /\ book' = [v \in DOMAIN book \cup {new} |->
                       IF v = new THEN [qty |-> got, wing |-> FALSE] ELSE book[v]]
         /\ rem' = IF got = Lots THEN rem
                   ELSE [rem EXCEPT ![s] = [id |-> new, left |-> Lots - got, qty |-> got,
                                            shared |-> TRUE]]
  BY DEF Enter
<1>2. pc' = "supervise"
  BY DEF Enter
<1>3. got \in Int /\ got <= Lots /\ s \notin OpenSides /\ Lots \in Int
  BY <1>1, LotsAssumption DEF MayOpen
<1>4. OpensRow(s, got)
  <2>1. [side |-> s, qty |-> got, wing |-> FALSE, open |-> TRUE] \in Row
    BY <1>3 DEF Row
  <2>2. rows' \in Seq(Row) /\ Len(rows') = new /\ \A v \in Verticals : rows'[v] = rows[v]
    BY <1>1, <2>1, ShapeOf DEF Verticals
  <2>3. rows'[new] = [side |-> s, qty |-> got, wing |-> FALSE, open |-> TRUE]
    BY <1>1, <2>1, ShapeOf
  <2>4. owned' \in Seq(Int) /\ Len(owned') = new /\ owned'[new] = got
        /\ \A v \in Verticals : owned'[v] = owned[v]
    BY <1>1, <1>3, ShapeOf DEF Verticals
  <2> QED  BY <2>2, <2>3, <2>4 DEF OpensRow, Shape
<1>5. Verticals' = Verticals \cup {new} /\ OpenRows' = OpenRows \cup {new}
      /\ Shape' /\ RowIsHeld' /\ NeverTwoOfASide'
  BY <1>3, <1>4, OpeningPreserves
<1>6. Records'
  <2>1. DOMAIN book' = DOMAIN book \cup {new}
        /\ \A v \in DOMAIN book' : book'[v].qty = IF v = new THEN got ELSE book[v].qty
    BY <1>1
  <2>2. \A v \in DOMAIN book : book[v].qty \in Int /\ book[v].qty <= Lots
    BY DEF CondorInv, Records
  <2> QED  BY <1>3, <1>5, <2>1, <2>2, ShapeOf DEF Records
<1>7. WalksAgree'
  <2> SUFFICES ASSUME NEW x \in Sides
        PROVE /\ rem'[x].id \in 0..Len(rows') /\ rem'[x].left \in Int /\ rem'[x].qty \in Int
              /\ rem'[x].id # 0 =>
                   /\ rows'[rem'[x].id].side = x
                   /\ rem'[x].qty + rem'[x].left = Lots
                   /\ rows'[rem'[x].id].open => rem'[x].qty = rows'[rem'[x].id].qty
    BY DEF WalksAgree
  <2>1. /\ rem[x].id \in 0..Len(rows) /\ rem[x].left \in Int /\ rem[x].qty \in Int
        /\ rem[x].id # 0 =>
             /\ rows[rem[x].id].side = x
             /\ rem[x].qty + rem[x].left = Lots
             /\ rows[rem[x].id].open => rem[x].qty = rows[rem[x].id].qty
    BY DEF CondorInv, WalksAgree
  <2>2. Len(rows') = new /\ Len(rows) \in Nat
    BY <1>4, ShapeOf DEF OpensRow
  <2>3. CASE rem'[x] = rem[x]
    <3>1. rem[x].id # 0 => rem[x].id \in Verticals
      BY <2>1, <2>2 DEF Verticals
    <3>2. rem[x].id \in 0..Len(rows')
      BY <2>1, <2>2
    <3> QED  BY <1>4, <2>1, <2>3, <3>1, <3>2 DEF OpensRow
  <2>4. CASE rem'[x] # rem[x]
    <3>1. x = s /\ rem'[x] = [id |-> new, left |-> Lots - got, qty |-> got, shared |-> TRUE]
      BY <1>1, <2>4
    <3>2. rem'[x].id = new /\ rem'[x].left = Lots - got /\ rem'[x].qty = got
      BY <3>1
    <3>3. rows'[new].side = s /\ rows'[new].qty = got /\ new \in 0..Len(rows')
      BY <1>4, <2>2 DEF OpensRow
    <3> QED  BY <1>3, <3>1, <3>2, <3>3
  <2> QED  BY <2>3, <2>4
<1> QED  BY <1>2, <1>5, <1>6, <1>7 DEF CondorInv, RollIsClear

\* The invariant holds in every reachable state.
LEMMA CondorInvHolds == CondorSpec => []CondorInv
<1>1. CondorInit => CondorInv
  <2> SUFFICES ASSUME CondorInit PROVE CondorInv
    OBVIOUS
  <2>1. owned = <<>> /\ rows = <<>> /\ book = <<>> /\ pc = "supervise"
        /\ rem = [s \in Sides |-> Nothing]
    BY DEF CondorInit
  <2>2. Len(rows) = 0 /\ Verticals = {} /\ OpenRows = {} /\ DOMAIN book = {}
    BY <2>1 DEF Verticals, OpenRows
  <2>3. Shape
    BY <2>1 DEF Shape
  <2>4. WalksAgree
    BY <2>1, <2>2 DEF WalksAgree, Nothing
  <2> QED  BY <2>1, <2>2, <2>3, <2>4 DEF CondorInv, Records, RollIsClear, RowIsHeld, NeverTwoOfASide
<1>2. CondorInv /\ [CondorNext]_cdVars => CondorInv'
  <2> SUFFICES ASSUME CondorInv, [CondorNext]_cdVars PROVE CondorInv'
    OBVIOUS
  <2>1. CASE UNCHANGED cdVars
    BY <2>1 DEF cdVars, CondorInv, Shape, Records, WalksAgree, RollIsClear, RowIsHeld, NeverTwoOfASide,
       OpenRows, OpenSides, Verticals
  <2> QED
    BY <2>1, SupervisePreserves, WindowPreserves, RollClosesPreserves, RollReopensPreserves,
       ManagePreserves, EnterPreserves, ReconcilePreserves, RestartPreserves DEF CondorNext
<1> QED  BY <1>1, <1>2, PTL DEF CondorSpec

\* Through partial fills, remainders that walk on, rolls, replaced records and restarts an open
\* row has the contracts the broker has (credit_remainder.py, condor_roll.py, main.py).
THEOREM RowsAreHeld == CondorSpec => []RowIsHeld
<1>1. CondorInv => RowIsHeld
  BY DEF CondorInv
<1> QED  BY <1>1, CondorInvHolds, PTL

\* No entry, roll or restart leaves two open verticals of one side (_can_open_credit_spread and
\* check_and_execute_roll).
THEOREM SidesStayApart == CondorSpec => []NeverTwoOfASide
<1>1. CondorInv => NeverTwoOfASide
  BY DEF CondorInv
<1> QED  BY <1>1, CondorInvHolds, PTL

(***************************************************************************)
(* The final form of a roll.                                               *)
(***************************************************************************)
Record == [qty: Int, wing: BOOLEAN]

\* The manager's record carries the mark its row has, and the rows of a final form carry it.
WingsAgree ==
    /\ \A v \in DOMAIN book : book[v] \in Record /\ book[v].wing = rows[v].wing
    /\ \A p \in formed : \A v \in p : v \in Verticals /\ rows[v].wing = TRUE

\* A step that marks and unmarks nothing.
LEMMA WingsKept ==
    ASSUME WingsAgree, formed' = formed, Verticals \subseteq Verticals',
           \A v \in Verticals : rows'[v].wing = rows[v].wing,
           \A v \in DOMAIN book' : book'[v] \in Record /\ book'[v].wing = rows'[v].wing
    PROVE  WingsAgree'
<1>1. ASSUME NEW p \in formed', NEW v \in p PROVE v \in Verticals' /\ rows'[v].wing = TRUE
  BY DEF WingsAgree
<1> QED  BY <1>1 DEF WingsAgree

\* Records read from the rows have the marks of the rows.
LEMMA WingsFromRows ==
    ASSUME Shape', book' = [v \in OpenRows' |-> [qty |-> rows'[v].qty, wing |-> rows'[v].wing]]
    PROVE  \A v \in DOMAIN book' : book'[v] \in Record /\ book'[v].wing = rows'[v].wing
<1> SUFFICES ASSUME NEW v \in OpenRows' PROVE book'[v] \in Record /\ book'[v].wing = rows'[v].wing
  OBVIOUS
<1>1. book'[v] = [qty |-> rows'[v].qty, wing |-> rows'[v].wing]
  OBVIOUS
<1>2. rows'[v] \in Row
  BY DEF Shape, OpenRows, Verticals
<1> QED  BY <1>1, <1>2 DEF Row, Record

LEMMA SuperviseWings == ASSUME CondorInv, CondorInv', WingsAgree, Supervise PROVE WingsAgree'
<1>1. PICK got \in [Sides -> Counts] :
        /\ rows' = [v \in Verticals |-> Sized(got, v, rows[v])]
        /\ book' = [v \in DOMAIN book |->
                      IF \E s \in Growing(got, v) : rem[s].shared
                      THEN Sized(got, v, book[v]) ELSE book[v]]
        /\ \A s \in Sides : got[s] <= Asks(s)
  BY DEF Supervise
<1>2. formed' = formed
  BY DEF Supervise
<1>3. Verticals' = Verticals
  <2>1. Verticals = DOMAIN rows' /\ Verticals' = DOMAIN rows'
    <3>1. DOMAIN rows' = Verticals'
      BY DEF CondorInv, Shape, Verticals
    <3> QED  BY <1>1, <3>1
  <2> QED  BY <2>1
<1>4. ASSUME NEW v \in Verticals, NEW r, "wing" \in DOMAIN r
      PROVE  Sized(got, v, r).wing = r.wing
  BY <1>4 DEF Sized
<1>5. \A v \in Verticals : rows'[v].wing = rows[v].wing
  <2> SUFFICES ASSUME NEW v \in Verticals PROVE rows'[v].wing = rows[v].wing
    OBVIOUS
  <2>1. "wing" \in DOMAIN rows[v]
    BY ShapeOf DEF Row
  <2> QED  BY <1>1, <1>4, <2>1
<1>6. ASSUME NEW v \in DOMAIN book'
      PROVE  book'[v] \in Record /\ book'[v].wing = rows'[v].wing
  <2>1. v \in DOMAIN book /\ v \in Verticals /\ book[v] \in Record /\ book[v].wing = rows[v].wing
    BY <1>1, <1>6, ShapeOf DEF WingsAgree
  <2>2. book'[v] = book[v] \/ book'[v] = Sized(got, v, book[v])
    BY <1>1, <2>1
  <2>3. book'[v].wing = rows'[v].wing
    <3>1. "wing" \in DOMAIN book[v]
      BY <2>1 DEF Record
    <3> QED  BY <1>4, <1>5, <2>1, <2>2, <3>1
  <2>4. book'[v].qty \in Int
    BY <1>6 DEF CondorInv, Records
  <2>5. \/ book'[v] = book[v]
        \/ \E q : book'[v] = [book[v] EXCEPT !.qty = q]
    BY <2>2 DEF Sized
  <2>6. book'[v] \in Record
    BY <2>1, <2>4, <2>5 DEF Record
  <2> QED  BY <2>3, <2>6
<1> QED  BY <1>2, <1>3, <1>5, <1>6, WingsKept

LEMMA RollClosesWings == ASSUME CondorInv, CondorInv', WingsAgree, RollCloses PROVE WingsAgree'
<1>1. PICK t, u \in DOMAIN book :
         /\ rows' = [rows EXCEPT ![u].open = FALSE] /\ book' = Only(book, {t})
  BY DEF RollCloses
<1>2. formed' = formed
  BY DEF RollCloses
<1>3. DOMAIN rows' = DOMAIN rows /\ DOMAIN rows' = Verticals' /\ DOMAIN rows = Verticals
  <2>1. DOMAIN rows' = Verticals'
    BY DEF CondorInv, Shape, Verticals
  <2> QED  BY <1>1, <2>1, ShapeOf
<1>4. \A v \in Verticals : rows'[v].wing = rows[v].wing
  BY <1>1, ShapeOf DEF Row
<1>5. \A v \in DOMAIN book' : book'[v] \in Record /\ book'[v].wing = rows'[v].wing
  BY <1>1, <1>4, ShapeOf DEF Only, WingsAgree
<1> QED  BY <1>2, <1>3, <1>4, <1>5, WingsKept

LEMMA ManageWings == ASSUME CondorInv, CondorInv', WingsAgree, Manage PROVE WingsAgree'
<1>1. PICK done \in SUBSET DOMAIN book :
         /\ rows' = [v \in Verticals |->
                       IF v \in done THEN [rows[v] EXCEPT !.open = FALSE] ELSE rows[v]]
         /\ book' = Only(book, DOMAIN book \ done)
  BY DEF Manage
<1>2. formed' = formed
  BY DEF Manage
<1>3. DOMAIN rows' = Verticals /\ DOMAIN rows' = Verticals'
  <2>1. DOMAIN rows' = Verticals'
    BY DEF CondorInv, Shape, Verticals
  <2> QED  BY <1>1, <2>1
<1>4. \A v \in Verticals : rows'[v].wing = rows[v].wing
  BY <1>1, ShapeOf DEF Row
<1>5. \A v \in DOMAIN book' : book'[v] \in Record /\ book'[v].wing = rows'[v].wing
  BY <1>1, <1>4, ShapeOf DEF Only, WingsAgree
<1> QED  BY <1>2, <1>3, <1>4, <1>5, WingsKept

LEMMA ReconcileWings == ASSUME CondorInv, CondorInv', WingsAgree, Reconcile PROVE WingsAgree'
<1>1. PICK gone \in SUBSET OpenRows :
         /\ rows' = [v \in Verticals |->
                       IF v \in gone THEN [rows[v] EXCEPT !.open = FALSE] ELSE rows[v]]
         /\ book' = FromRows(rows')
  BY DEF Reconcile
<1>2. formed' = formed
  BY DEF Reconcile
<1>3. DOMAIN rows' = Verticals /\ DOMAIN rows' = Verticals' /\ Shape'
  <2>1. DOMAIN rows' = Verticals' /\ Shape'
    BY DEF CondorInv, Shape, Verticals
  <2> QED  BY <1>1, <2>1
<1>4. \A v \in Verticals : rows'[v].wing = rows[v].wing
  BY <1>1, ShapeOf DEF Row
<1>5. book' = [v \in OpenRows' |-> [qty |-> rows'[v].qty, wing |-> rows'[v].wing]]
  BY <1>1, <1>3 DEF FromRows, OpenRows
<1> QED  BY <1>2, <1>3, <1>4, <1>5, WingsFromRows, WingsKept

LEMMA RestartWings == ASSUME CondorInv, CondorInv', WingsAgree, Restart PROVE WingsAgree'
<1>1. rows' = rows /\ formed' = formed /\ Verticals' = Verticals /\ Shape'
  BY DEF Restart, Verticals, CondorInv
<1>2. book' = [v \in OpenRows' |-> [qty |-> rows'[v].qty, wing |-> rows'[v].wing]]
  BY <1>1 DEF Restart, FromRows, OpenRows
<1> QED  BY <1>1, <1>2, WingsFromRows, WingsKept

\* The final form is announced when both its rows are marked, and not otherwise.
LEMMA RollReopensWings == ASSUME CondorInv, CondorInv', WingsAgree, RollReopens PROVE WingsAgree'
<1> DEFINE new == Len(rows) + 1
           t == deal.tested
           grown(got) == Append(rows, [side |-> deal.side, qty |-> RolledQty(got), wing |-> TRUE,
                                       open |-> TRUE])
           both(got) == [v \in DOMAIN book \cup {new} |->
                           IF v = new THEN [qty |-> RolledQty(got), wing |-> TRUE] ELSE book[v]]
<1>1. PICK got \in 1..deal.qty :
         \/ /\ rows' = grown(got) /\ book' = both(got) /\ formed' = formed
         \/ /\ rows' = Marks(grown(got), t)
            /\ book' = [both(got) EXCEPT ![t] = [qty |-> both(got)[t].qty, wing |-> TRUE]]
            /\ formed' = formed \cup {{t, new}}
  BY DEF RollReopens
<1>2. t \in Verticals /\ deal.side \in Sides /\ got \in Int /\ Len(rows) \in Nat /\ new \notin Verticals
  <2>1. deal.qty \in Int /\ t \in Verticals /\ deal.side \in Sides
    BY DEF RollReopens, CondorInv, RollIsClear
  <2>2. Len(rows) \in Nat
    BY ShapeOf
  <2> QED  BY <2>1, <2>2 DEF Verticals
<1>3. /\ DOMAIN grown(got) = Verticals \cup {new}
      /\ \A v \in Verticals : grown(got)[v] = rows[v]
      /\ grown(got)[new] = [side |-> deal.side, qty |-> got, wing |-> TRUE, open |-> TRUE]
  <2>1. [side |-> deal.side, qty |-> got, wing |-> TRUE, open |-> TRUE] \in Row
    BY <1>2 DEF Row
  <2>2. Len(grown(got)) = new /\ DOMAIN grown(got) = 1..new
    BY <1>2, <2>1, ShapeOf DEF RolledQty
  <2>3. 1..new = Verticals \cup {new}
    BY <1>2 DEF Verticals
  <2> QED  BY <1>2, <2>1, <2>2, <2>3, ShapeOf DEF RolledQty, Verticals
<1>4. /\ DOMAIN both(got) = DOMAIN book \cup {new}
      /\ \A v \in DOMAIN book : both(got)[v] = book[v]
      /\ both(got)[new] = [qty |-> got, wing |-> TRUE]
  BY <1>2, ShapeOf DEF RolledQty
<1>5. \A v \in Verticals : rows[v] \in Row /\ "wing" \in DOMAIN rows[v] /\ "qty" \in DOMAIN rows[v]
  BY ShapeOf DEF Row
<1>6. \A v \in DOMAIN both(got) :
        both(got)[v] \in Record /\ both(got)[v].wing = grown(got)[v].wing
  <2> HIDE DEF new, both, grown
  <2>1. both(got)[new] \in Record /\ both(got)[new].wing = grown(got)[new].wing
    BY <1>2, <1>3, <1>4 DEF Record
  <2>2. \A v \in DOMAIN book : both(got)[v] \in Record /\ both(got)[v].wing = grown(got)[v].wing
    BY <1>3, <1>4, ShapeOf DEF WingsAgree
  <2> QED  BY <1>4, <2>1, <2>2
<1>7. Verticals' = DOMAIN rows'
  BY DEF CondorInv, Shape, Verticals
<1> HIDE DEF new, both, grown
<1>8. CASE rows' = grown(got) /\ book' = both(got) /\ formed' = formed
  <2>1. Verticals \subseteq Verticals'
    BY <1>3, <1>7, <1>8
  <2> QED  BY <1>3, <1>6, <1>8, <2>1, WingsKept
<1>9. CASE /\ rows' = Marks(grown(got), t)
           /\ book' = [both(got) EXCEPT ![t] = [qty |-> both(got)[t].qty, wing |-> TRUE]]
           /\ formed' = formed \cup {{t, new}}
  <2>1. DOMAIN rows' = Verticals \cup {new}
    BY <1>3, <1>9 DEF Marks
  <2>2. \A v \in Verticals \cup {new} :
          rows'[v].wing = IF v = t THEN TRUE ELSE grown(got)[v].wing
    <3>1. \A v \in Verticals \cup {new} :
            rows'[v] = IF v = t THEN [grown(got)[v] EXCEPT !.wing = TRUE] ELSE grown(got)[v]
      BY <1>3, <1>9 DEF Marks
    <3>2. "wing" \in DOMAIN grown(got)[t]
      BY <1>2, <1>3, <1>5
    <3> QED  BY <1>2, <3>1, <3>2
  <2>3. rows'[t].wing = TRUE /\ rows'[new].wing = TRUE
    <3>1. grown(got)[new].wing = TRUE
      BY <1>3
    <3> HIDE DEF t
    <3>2. rows'[new].wing = grown(got)[new].wing
      BY <1>2, <2>2
    <3> QED  BY <1>2, <2>2, <3>1, <3>2
  <2>4. ASSUME NEW p \in formed', NEW v \in p PROVE v \in Verticals' /\ rows'[v].wing = TRUE
    <3>1. CASE p = {t, new}
      BY <1>2, <1>7, <2>1, <2>3, <3>1
    <3>2. CASE p \in formed
      BY <1>3, <1>7, <2>1, <2>2, <3>2 DEF WingsAgree
    <3> QED  BY <1>9, <3>1, <3>2
  <2>5. ASSUME NEW v \in DOMAIN book' PROVE book'[v] \in Record /\ book'[v].wing = rows'[v].wing
    <3>1. v \in DOMAIN both(got) /\ v \in Verticals \cup {new}
      BY <1>4, <1>9, ShapeOf
    <3>2. CASE v = t
      <4>1. book'[v] = [qty |-> both(got)[v].qty, wing |-> TRUE]
        BY <1>9, <3>1, <3>2
      <4>2. both(got)[v].qty \in Int
        BY <1>6, <3>1 DEF Record
      <4>3. book'[v] \in Record /\ book'[v].wing = TRUE
        BY <4>1, <4>2 DEF Record
      <4> QED  BY <2>3, <3>2, <4>3
    <3>3. CASE v # t
      BY <1>6, <1>9, <2>2, <3>1, <3>3
    <3> QED  BY <3>2, <3>3
  <2> QED  BY <2>4, <2>5 DEF WingsAgree
<1> QED  BY <1>1, <1>8, <1>9

LEMMA EnterWings == ASSUME CondorInv, CondorInv', WingsAgree, Enter PROVE WingsAgree'
<1> DEFINE new == Len(rows) + 1
<1>1. PICK s \in Sides, got \in 1..Lots :
        /\ rows' = Append(rows, [side |-> s, qty |-> got, wing |-> FALSE, open |-> TRUE])
        /\ book' = [v \in DOMAIN book \cup {new} |->
                      IF v = new THEN [qty |-> got, wing |-> FALSE] ELSE book[v]]
  BY DEF Enter
<1>2. formed' = formed /\ Len(rows) \in Nat /\ got \in Int /\ new \notin Verticals
  BY ShapeOf, LotsAssumption DEF Enter, Verticals
<1>3. Verticals \subseteq Verticals' /\ \A v \in Verticals : rows'[v] = rows[v]
  BY <1>1, <1>2, ShapeOf DEF Verticals
<1>4. rows'[new] = [side |-> s, qty |-> got, wing |-> FALSE, open |-> TRUE]
  BY <1>1, <1>2, ShapeOf
<1> HIDE DEF new
<1>5. ASSUME NEW v \in DOMAIN book' PROVE book'[v] \in Record /\ book'[v].wing = rows'[v].wing
  <2>1. CASE v = new
    <3>1. book'[v] = [qty |-> got, wing |-> FALSE]
      BY <1>1, <2>1
    <3>2. rows'[v].wing = FALSE
      BY <1>4, <2>1
    <3>3. book'[v] \in Record /\ book'[v].wing = FALSE
      BY <1>2, <3>1 DEF Record
    <3> QED  BY <3>2, <3>3
  <2>2. CASE v \in DOMAIN book /\ v # new
    BY <1>1, <1>3, <2>2, ShapeOf DEF WingsAgree
  <2> QED  BY <1>1, <1>5, <2>1, <2>2
<1> QED  BY <1>2, <1>3, <1>5, WingsKept

LEMMA WingsAlwaysAgree == CondorSpec => []WingsAgree
<1>1. CondorInit => WingsAgree
  BY DEF CondorInit, WingsAgree
<1>2. CondorInv /\ CondorInv' /\ WingsAgree /\ [CondorNext]_cdVars => WingsAgree'
  <2> SUFFICES ASSUME CondorInv, CondorInv', WingsAgree, [CondorNext]_cdVars PROVE WingsAgree'
    OBVIOUS
  <2>1. CASE WindowCloses \/ NoRoll \/ RollHalts \/ NoEntry \/ UNCHANGED cdVars
    BY <2>1 DEF WindowCloses, NoRoll, RollHalts, NoEntry, cdVars, WingsAgree, Verticals
  <2> QED
    BY <2>1, SuperviseWings, RollClosesWings, RollReopensWings, ManageWings, EnterWings,
       ReconcileWings, RestartWings DEF CondorNext
<1> QED  BY <1>1, <1>2, CondorInvHolds, PTL DEF CondorSpec

\* No leg of an announced final form is in a later roll, also after its partner has closed, a new
\* complement has opened, the records were replaced or the process restarted
\* (check_and_execute_roll).
THEOREM FinalFormStands == CondorSpec => FinalFormIsFinal
<1>1. ASSUME CondorInv, WingsAgree, [CondorNext]_cdVars, pc = "roll", pc' = "reopen",
             NEW p \in formed
      PROVE  p \cap DOMAIN book = {}
  <2>1. RollCloses
    BY <1>1 DEF CondorNext, Supervise, WindowCloses, RollCloses, NoRoll, RollReopens, RollHalts,
       Manage, Enter, NoEntry, Reconcile, Restart, cdVars
  <2>2. PICK t, u \in DOMAIN book : MayRoll(t, u)
    BY <2>1 DEF RollCloses
  <2>3. \A v \in DOMAIN book : ~book[v].wing
    BY <2>2 DEF MayRoll
  <2> QED  BY <1>1, <2>3 DEF WingsAgree
<1>2. CondorInv /\ WingsAgree /\ [CondorNext]_cdVars =>
        [pc = "roll" /\ pc' = "reopen" => \A p \in formed : p \cap DOMAIN book = {}]_cdVars
  BY <1>1
<1> QED  BY <1>2, CondorInvHolds, WingsAlwaysAgree, PTL DEF CondorSpec, FinalFormIsFinal

(***************************************************************************)
(* The types.                                                              *)
(***************************************************************************)
Walk == [id: Nat, left: Counts, qty: Counts, shared: BOOLEAN]
Deal == [tested: Nat, side: Sides, qty: Counts]

\* A row is of one contract or more, its record of no more than the row, a walk and a roll of no
\* more than a vertical's size.
Sizes ==
    /\ Len(rows) <= MaxVerticals
    /\ \A v \in Verticals : rows[v].qty \in 1..Lots /\ owned[v] \in Counts
    /\ \A v \in DOMAIN book : 1 <= book[v].qty /\ book[v].qty <= rows[v].qty
    /\ rem \in [Sides -> Walk]
    /\ deal \in Deal /\ deal.tested <= Len(rows)
    /\ pc \in {"supervise", "roll", "reopen", "manage", "enter"} /\ over \in BOOLEAN

\* A tick of the remainders keeps the sizes: a row grows by what its walk still had to get.
LEMMA SuperviseSizes == ASSUME CondorInv, CondorInv', WingsAgree, Sizes, Supervise PROVE Sizes'
<1> USE LotsAssumption
<1>1. PICK got \in [Sides -> Counts] :
        /\ \A s \in Sides : got[s] <= Asks(s)
        /\ owned' = [v \in Verticals |-> owned[v] + Gain(got, v)]
        /\ rows' = [v \in Verticals |-> Sized(got, v, rows[v])]
        /\ book' = [v \in DOMAIN book |->
                      IF \E s \in Growing(got, v) : rem[s].shared
                      THEN Sized(got, v, book[v]) ELSE book[v]]
        /\ rem' = [s \in Sides |->
                     IF Asks(s) = 0 \/ got[s] = rem[s].left THEN Nothing
                     ELSE Accrete(rem[s], got[s])]
  BY DEF Supervise
<1>2. pc' = "roll" /\ over' = over /\ deal' = deal
  BY DEF Supervise
<1>3. Verticals' = Verticals /\ Len(rows') = Len(rows)
  <2>1. DOMAIN rows' = Verticals' /\ Len(rows') \in Nat
    BY DEF CondorInv, Shape, Verticals
  <2>2. 1..Len(rows') = 1..Len(rows) /\ Len(rows) \in Nat
    BY <1>1, <2>1, ShapeOf DEF Verticals
  <2>3. ASSUME NEW m \in Nat, NEW n \in Nat, 1..m = 1..n PROVE m = n
    <3>1. m \in 1..n \/ m = 0
      BY <2>3
    <3>2. n \in 1..m \/ n = 0
      BY <2>3
    <3> QED  BY <3>1, <3>2
  <2>4. Len(rows') = Len(rows)
    BY <2>1, <2>2, <2>3
  <2> QED  BY <2>4 DEF Verticals
<1>4. ASSUME NEW v \in Verticals, Growing(got, v) # {}
      PROVE  \E s \in Sides : /\ (CHOOSE x \in Growing(got, v) : TRUE) = s
                              /\ got[s] \in Counts /\ got[s] > 0 /\ rows[v].open
                              /\ Accrete(rem[s], got[s]).qty = rows[v].qty + got[s]
  <2> DEFINE s == CHOOSE x \in Growing(got, v) : TRUE
  <2>1. s \in Growing(got, v)
    BY <1>4
  <2> HIDE DEF s
  <2>2. s \in Sides /\ got[s] > 0 /\ rem[s].id = v /\ got[s] \in Counts /\ got[s] <= Asks(s)
    BY <1>1, <2>1 DEF Growing
  <2>3. rem[s].id # 0 /\ rows[rem[s].id].open
    BY <2>2 DEF Asks, Counts
  <2>4. rem[s].qty = rows[v].qty
    BY <2>2, <2>3 DEF CondorInv, WalksAgree
  <2>5. Accrete(rem[s], got[s]).qty = rem[s].qty + got[s]
    BY DEF Accrete
  <2> QED  BY <2>2, <2>3, <2>4, <2>5 DEF s
<1>5. ASSUME NEW v \in Verticals
      PROVE  /\ rows'[v].qty \in Int /\ rows'[v].qty >= rows[v].qty /\ rows[v].qty \in 1..Lots
             /\ rows'[v].open = rows[v].open
             /\ ~rows[v].open => rows'[v].qty = rows[v].qty /\ owned'[v] = owned[v]
             /\ Growing(got, v) # {} => \A r : "qty" \in DOMAIN r => Sized(got, v, r).qty = rows'[v].qty
  <2>0. rows[v] \in Row /\ owned[v] \in Int /\ rows'[v] = Sized(got, v, rows[v]) /\ rows[v].qty \in 1..Lots
    BY <1>1, ShapeOf DEF Sizes
  <2>1. CASE Growing(got, v) = {}
    <3>1. rows'[v] = rows[v] /\ owned'[v] = owned[v] + 0
      BY <1>1, <2>0, <2>1 DEF Sized, Gain
    <3> QED  BY <2>0, <2>1, <3>1
  <2>2. CASE Growing(got, v) # {}
    <3>1. PICK s \in Sides : /\ (CHOOSE x \in Growing(got, v) : TRUE) = s
                             /\ got[s] \in Counts /\ got[s] > 0 /\ rows[v].open
                             /\ Accrete(rem[s], got[s]).qty = rows[v].qty + got[s]
      BY <1>4, <2>2
    <3>2. \A r : Sized(got, v, r) = [r EXCEPT !.qty = rows[v].qty + got[s]]
      BY <2>2, <3>1 DEF Sized
    <3>3. "qty" \in DOMAIN rows[v] /\ "open" \in DOMAIN rows[v]
      BY <2>0 DEF Row
    <3>4. \A r : "qty" \in DOMAIN r => Sized(got, v, r).qty = rows[v].qty + got[s]
      BY <3>2
    <3>5. rows'[v].qty = rows[v].qty + got[s] /\ rows'[v].open = rows[v].open
      BY <2>0, <3>2, <3>3
    <3> QED  BY <2>0, <3>1, <3>4, <3>5 DEF Counts
  <2> QED  BY <2>1, <2>2
<1>6. ASSUME NEW v \in Verticals PROVE rows'[v].qty \in 1..Lots /\ owned'[v] \in Counts
  <2>1. CASE rows[v].open
    <3>1. v \in OpenRows'
      BY <1>3, <1>5, <2>1 DEF OpenRows
    <3>2. rows'[v].qty = owned'[v] /\ owned'[v] <= Lots
      BY <3>1 DEF CondorInv, RowIsHeld
    <3> QED  BY <1>5, <3>2 DEF Counts
  <2>2. CASE ~rows[v].open
    BY <1>5, <2>2 DEF Sizes
  <2> QED  BY <2>1, <2>2
<1>7. ASSUME NEW v \in DOMAIN book' PROVE 1 <= book'[v].qty /\ book'[v].qty <= rows'[v].qty
  <2>1. v \in DOMAIN book /\ v \in Verticals /\ book[v].qty \in Int
    BY <1>1, ShapeOf DEF CondorInv, Records
  <2>2. 1 <= book[v].qty /\ book[v].qty <= rows[v].qty
    BY <2>1 DEF Sizes
  <2>3. CASE book'[v] = book[v]
    BY <1>5, <2>1, <2>2, <2>3
  <2>4. CASE book'[v] # book[v]
    <3>1. Growing(got, v) # {} /\ book'[v] = Sized(got, v, book[v])
      BY <1>1, <2>1, <2>4
    <3>2. "qty" \in DOMAIN book[v]
      BY <2>1 DEF WingsAgree, Record
    <3> QED  BY <1>5, <2>1, <3>1, <3>2
  <2> QED  BY <2>3, <2>4
<1>8. rem' \in [Sides -> Walk]
  <2>1. ASSUME NEW s \in Sides
        PROVE  (IF Asks(s) = 0 \/ got[s] = rem[s].left THEN Nothing ELSE Accrete(rem[s], got[s])) \in Walk
    <3>1. Nothing \in Walk
      BY DEF Nothing, Walk, Counts
    <3>2. ASSUME ~(Asks(s) = 0 \/ got[s] = rem[s].left) PROVE Accrete(rem[s], got[s]) \in Walk
      <4>1. rem[s] \in Walk /\ got[s] \in Counts /\ got[s] <= rem[s].left /\ rem[s].id # 0
        BY <1>1, <3>2 DEF Asks, Sizes
      <4>2. rem[s].qty + rem[s].left = Lots
        BY <4>1 DEF CondorInv, WalksAgree
      <4>3. /\ rem[s].id \in Nat /\ rem[s].left \in Counts /\ rem[s].qty \in Counts
            /\ rem[s].shared \in BOOLEAN
        BY <4>1 DEF Walk
      <4>4. /\ (IF rem[s].left > got[s] THEN rem[s].left - got[s] ELSE 0) \in Counts
            /\ rem[s].qty + got[s] \in Counts
        BY <4>1, <4>2, <4>3 DEF Counts
      <4> QED  BY <4>3, <4>4 DEF Accrete, Walk
    <3> QED  BY <3>1, <3>2
  <2> QED  BY <1>1, <2>1
<1> QED  BY <1>2, <1>3, <1>6, <1>7, <1>8 DEF Sizes

\* What a closing leaves: records are dropped, or read again from the rows.
LEMMA ClosingSizes ==
    ASSUME CondorInv, CondorInv', Sizes, NEW gone \in SUBSET DOMAIN rows, ClosesRows(gone),
           \A v \in gone : owned'[v] \in Counts,
           \A v \in DOMAIN book' : \/ v \in DOMAIN book /\ book'[v] = book[v]
                                   \/ book'[v].qty = rows'[v].qty,
           rem' \in [Sides -> Walk], deal' \in Deal, deal'.tested <= Len(rows),
           pc' \in {"supervise", "roll", "reopen", "manage", "enter"}, over' \in BOOLEAN
    PROVE  Sizes'
<1>1. Len(rows') = Len(rows) /\ Verticals' = Verticals
  BY DEF ClosesRows, Verticals
<1>2. \A v \in Verticals : rows'[v].qty \in 1..Lots /\ owned'[v] \in Counts
  BY DEF ClosesRows, Sizes
<1>3. ASSUME NEW v \in DOMAIN book' PROVE 1 <= book'[v].qty /\ book'[v].qty <= rows'[v].qty
  <2>1. v \in Verticals /\ rows'[v].qty \in 1..Lots /\ rows'[v].qty = rows[v].qty
    BY <1>1, <1>2 DEF CondorInv, Records, OpenRows, ClosesRows
  <2> QED  BY <2>1, LotsAssumption DEF Sizes
<1> QED  BY <1>1, <1>2, <1>3 DEF Sizes

LEMMA RollClosesSizes == ASSUME CondorInv, CondorInv', Sizes, RollCloses PROVE Sizes'
<1>1. PICK t, u \in DOMAIN book :
         /\ MayRoll(t, u)
         /\ deal' = [tested |-> t, side |-> rows[u].side, qty |-> book[u].qty]
         /\ owned' = [owned EXCEPT ![u] = @ - book[u].qty]
         /\ rows' = [rows EXCEPT ![u].open = FALSE]
         /\ book' = Only(book, {t})
  BY DEF RollCloses
<1>2. pc' = "reopen" /\ rem' = rem /\ over' = over
  BY DEF RollCloses
<1>3. /\ t \in Verticals /\ u \in OpenRows /\ u \in Verticals
      /\ book[u].qty \in Int /\ 1 <= book[u].qty /\ book[u].qty <= rows[u].qty
      /\ rows[u].qty = owned[u] /\ rows[u].qty \in 1..Lots
  BY <1>1, ShapeOf DEF CondorInv, Records, Sizes, RowIsHeld
<1>4. ClosesRows({u})
  <2>1. rows' = [v \in Verticals |-> IF v \in {u} THEN [rows[v] EXCEPT !.open = FALSE] ELSE rows[v]]
    BY <1>1, <1>3, ShapeOf
  <2>2. owned' \in [Verticals -> Int] /\ \A v \in Verticals \ {u} : owned'[v] = owned[v]
    BY <1>1, <1>3, ShapeOf
  <2> QED  BY <1>3, <2>1, <2>2, SetCloses
<1>5. \A v \in {u} : owned'[v] \in Counts
  <2>1. owned'[u] = owned[u] - book[u].qty
    BY <1>1, <1>3, ShapeOf
  <2> QED  BY <1>3, <2>1, LotsAssumption DEF Counts
<1>6. deal' \in Deal /\ deal'.tested <= Len(rows)
  <2>1. t \in Nat /\ t <= Len(rows) /\ book[u].qty \in Counts
    BY <1>3, LotsAssumption, ShapeOf DEF Verticals, Counts
  <2>2. rows[u].side \in Sides
    BY <1>3, ShapeOf DEF Row
  <2> QED  BY <1>1, <2>1, <2>2 DEF Deal
<1>7. \A v \in DOMAIN book' : v \in DOMAIN book /\ book'[v] = book[v]
  BY <1>1 DEF Only
<1>8. {u} \in SUBSET DOMAIN rows
  BY <1>3, ShapeOf
<1> QED  BY <1>2, <1>4, <1>5, <1>6, <1>7, <1>8, ClosingSizes DEF Sizes

LEMMA ManageSizes == ASSUME CondorInv, CondorInv', Sizes, Manage PROVE Sizes'
<1>1. PICK done \in SUBSET DOMAIN book :
         /\ owned' = [v \in Verticals |-> IF v \in done THEN owned[v] - book[v].qty ELSE owned[v]]
         /\ rows' = [v \in Verticals |->
                       IF v \in done THEN [rows[v] EXCEPT !.open = FALSE] ELSE rows[v]]
         /\ book' = Only(book, DOMAIN book \ done)
  BY DEF Manage
<1>2. pc' = "enter" /\ rem' = rem /\ over' = over /\ deal' = deal
  BY DEF Manage
<1>3. done \in SUBSET Verticals /\ \A v \in DOMAIN book : book[v].qty \in Int /\ v \in OpenRows
  BY ShapeOf DEF CondorInv, Records
<1>4. owned' \in [Verticals -> Int] /\ \A v \in Verticals \ done : owned'[v] = owned[v]
  BY <1>1, <1>3, ShapeOf
<1>5. ClosesRows(done)
  BY <1>1, <1>3, <1>4, SetCloses
<1>6. ASSUME NEW v \in done PROVE owned'[v] \in Counts
  <2>1. owned'[v] = owned[v] - book[v].qty /\ v \in Verticals
    BY <1>1, <1>3
  <2>2. /\ rows[v].qty = owned[v] /\ rows[v].qty \in 1..Lots
        /\ 1 <= book[v].qty /\ book[v].qty <= rows[v].qty /\ book[v].qty \in Int
    BY <1>3, <2>1 DEF CondorInv, RowIsHeld, Sizes
  <2> QED  BY <2>1, <2>2, LotsAssumption DEF Counts
<1>7. \A v \in DOMAIN book' : v \in DOMAIN book /\ book'[v] = book[v]
  BY <1>1 DEF Only
<1>8. done \in SUBSET DOMAIN rows
  BY <1>3, ShapeOf
<1> QED  BY <1>2, <1>5, <1>6, <1>7, <1>8, ClosingSizes DEF Sizes

LEMMA ReconcileSizes == ASSUME CondorInv, CondorInv', Sizes, Reconcile PROVE Sizes'
<1>1. PICK gone \in SUBSET OpenRows :
         /\ owned' = [v \in Verticals |-> IF v \in gone THEN 0 ELSE owned[v]]
         /\ rows' = [v \in Verticals |->
                       IF v \in gone THEN [rows[v] EXCEPT !.open = FALSE] ELSE rows[v]]
         /\ book' = FromRows(rows')
         /\ rem' = [s \in Sides |-> [id |-> rem[s].id, left |-> rem[s].left, qty |-> rem[s].qty,
                                     shared |-> FALSE]]
  BY DEF Reconcile
<1>2. pc' = pc /\ over' = over /\ deal' = deal /\ gone \in SUBSET Verticals
  BY ShapeOf DEF Reconcile
<1>3. owned' \in [Verticals -> Int] /\ \A v \in Verticals \ gone : owned'[v] = owned[v]
  BY <1>1, ShapeOf
<1>4. ClosesRows(gone)
  BY <1>1, <1>2, <1>3, SetCloses
<1>5. \A v \in gone : owned'[v] \in Counts
  BY <1>1, <1>2, LotsAssumption DEF Counts
<1>6. \A v \in DOMAIN book' : book'[v].qty = rows'[v].qty
  BY <1>1 DEF FromRows
<1>7. rem' \in [Sides -> Walk]
  <2>1. \A s \in Sides : [id |-> rem[s].id, left |-> rem[s].left, qty |-> rem[s].qty,
                           shared |-> FALSE] \in Walk
    BY DEF Sizes, Walk
  <2> QED  BY <1>1, <2>1
<1>8. gone \in SUBSET DOMAIN rows
  BY <1>2, ShapeOf
<1> QED  BY <1>2, <1>4, <1>5, <1>6, <1>7, <1>8, ClosingSizes DEF Sizes

LEMMA RestartSizes == ASSUME CondorInv, CondorInv', Sizes, Restart PROVE Sizes'
<1>1. /\ owned' = owned /\ rows' = rows /\ book' = FromRows(rows) /\ pc' = "supervise"
      /\ rem' = [s \in Sides |-> Nothing] /\ over' = over /\ deal' = NoDeal
  BY DEF Restart
<1>2. Nothing \in Walk /\ NoDeal \in Deal /\ NoDeal.tested <= Len(rows)
  BY LotsAssumption, ShapeOf DEF Nothing, NoDeal, Walk, Deal, Counts, Sides
<1>3. rem' \in [Sides -> Walk]
  BY <1>1, <1>2
<1>4. ASSUME NEW v \in DOMAIN book' PROVE 1 <= book'[v].qty /\ book'[v].qty <= rows'[v].qty
  <2>1. v \in Verticals /\ book'[v].qty = rows[v].qty
    BY <1>1 DEF FromRows
  <2> QED  BY <1>1, <2>1, LotsAssumption DEF Sizes
<1> QED  BY <1>1, <1>2, <1>3, <1>4 DEF Sizes, Verticals

\* What an opening leaves: a record more, for what the row says.
LEMMA OpeningSizes ==
    ASSUME CondorInv, CondorInv', Sizes, Len(rows) < MaxVerticals,
           NEW side, NEW got \in 1..Lots, OpensRow(side, got),
           \A v \in DOMAIN book' : IF v = Len(rows) + 1 THEN book'[v].qty = got
                                   ELSE v \in DOMAIN book /\ book'[v].qty = book[v].qty,
           rem' \in [Sides -> Walk], deal' \in Deal, deal'.tested <= Len(rows) + 1,
           pc' \in {"supervise", "roll", "reopen", "manage", "enter"}, over' \in BOOLEAN
    PROVE  Sizes'
<1> USE LotsAssumption
<1>1. Len(rows) \in Nat /\ Len(rows') = Len(rows) + 1 /\ Verticals' = Verticals \cup {Len(rows) + 1}
  <2>1. Len(rows) \in Nat /\ Len(rows') = Len(rows) + 1
    BY ShapeOf DEF OpensRow
  <2> QED  BY <2>1 DEF Verticals
<1>2. \A v \in Verticals' : rows'[v].qty \in 1..Lots /\ owned'[v] \in Counts
  <2>1. rows'[Len(rows) + 1].qty = got /\ owned'[Len(rows) + 1] = got
    BY DEF OpensRow
  <2>2. got \in Counts
    BY DEF Counts
  <2> QED  BY <1>1, <2>1, <2>2 DEF OpensRow, Sizes
<1>3. ASSUME NEW v \in DOMAIN book' PROVE 1 <= book'[v].qty /\ book'[v].qty <= rows'[v].qty
  <2>1. CASE v = Len(rows) + 1
    BY <2>1 DEF OpensRow
  <2>2. CASE v # Len(rows) + 1
    <3>1. v \in DOMAIN book /\ book'[v].qty = book[v].qty /\ v \in Verticals
      BY <2>2, ShapeOf
    <3> QED  BY <3>1 DEF OpensRow, Sizes
  <2> QED  BY <2>1, <2>2
<1>4. Len(rows') <= MaxVerticals
  BY <1>1
<1>5. deal'.tested <= Len(rows')
  BY <1>1
<1> QED  BY <1>2, <1>3, <1>4, <1>5 DEF Sizes

LEMMA EnterSizes == ASSUME CondorInv, CondorInv', Sizes, Enter PROVE Sizes'
<1> DEFINE new == Len(rows) + 1
<1>1. PICK s \in Sides, got \in 1..Lots :
         /\ owned' = Append(owned, got)
         /\ rows' = Append(rows, [side |-> s, qty |-> got, wing |-> FALSE, open |-> TRUE])
         /\ book' = [v \in DOMAIN book \cup {new} |->
                       IF v = new THEN [qty |-> got, wing |-> FALSE] ELSE book[v]]
         /\ rem' = IF got = Lots THEN rem
                   ELSE [rem EXCEPT ![s] = [id |-> new, left |-> Lots - got, qty |-> got,
                                            shared |-> TRUE]]
  BY DEF Enter
<1>2. pc' = "supervise" /\ over' = over /\ deal' = deal /\ Len(rows) < MaxVerticals
  BY DEF Enter
<1>3. got \in Int /\ Lots \in Int
  BY LotsAssumption
<1>4. OpensRow(s, got)
  <2>1. [side |-> s, qty |-> got, wing |-> FALSE, open |-> TRUE] \in Row
    BY <1>3 DEF Row
  <2>2. rows' \in Seq(Row) /\ Len(rows') = new /\ \A v \in Verticals : rows'[v] = rows[v]
    BY <1>1, <2>1, ShapeOf DEF Verticals
  <2>3. rows'[new] = [side |-> s, qty |-> got, wing |-> FALSE, open |-> TRUE]
    BY <1>1, <2>1, ShapeOf
  <2>4. owned' \in Seq(Int) /\ Len(owned') = new /\ owned'[new] = got
        /\ \A v \in Verticals : owned'[v] = owned[v]
    BY <1>1, <1>3, ShapeOf DEF Verticals
  <2> QED  BY <2>2, <2>3, <2>4 DEF OpensRow, Shape
<1>5. \A v \in DOMAIN book' : IF v = new THEN book'[v].qty = got
                               ELSE v \in DOMAIN book /\ book'[v].qty = book[v].qty
  BY <1>1
<1>6. rem' \in [Sides -> Walk]
  <2>1. new \in Nat
    BY ShapeOf
  <2>2. Lots - got \in Counts /\ got \in Counts
    BY LotsAssumption DEF Counts
  <2> HIDE DEF new
  <2>3. [id |-> new, left |-> Lots - got, qty |-> got, shared |-> TRUE] \in Walk
    BY <2>1, <2>2 DEF Walk
  <2>4. rem \in [Sides -> Walk]
    BY DEF Sizes
  <2> QED  BY <1>1, <2>3, <2>4
<1>7. deal' \in Deal /\ deal'.tested <= Len(rows) + 1
  BY <1>2, ShapeOf DEF Sizes, Deal
<1> QED  BY <1>2, <1>4, <1>5, <1>6, <1>7, OpeningSizes DEF Sizes

LEMMA RollReopensSizes == ASSUME CondorInv, CondorInv', Sizes, RollReopens PROVE Sizes'
<1> DEFINE new == Len(rows) + 1
           t == deal.tested
           grown(got) == Append(rows, [side |-> deal.side, qty |-> RolledQty(got), wing |-> TRUE,
                                       open |-> TRUE])
           both(got) == [v \in DOMAIN book \cup {new} |->
                           IF v = new THEN [qty |-> RolledQty(got), wing |-> TRUE] ELSE book[v]]
<1>1. PICK got \in 1..deal.qty :
         /\ owned' = Append(owned, got)
         /\ \/ rows' = grown(got) /\ book' = both(got)
            \/ /\ rows' = Marks(grown(got), t)
               /\ book' = [both(got) EXCEPT ![t] = [qty |-> both(got)[t].qty, wing |-> TRUE]]
  BY DEF RollReopens
<1>2. pc = "reopen" /\ pc' = "manage" /\ rem' = rem /\ over' = over /\ deal' = NoDeal
      /\ Len(rows) < MaxVerticals
  BY DEF RollReopens
<1>3. deal.side \in Sides /\ deal.qty \in Counts /\ got \in 1..Lots /\ got \in Int
  <2>1. deal \in Deal
    BY DEF Sizes
  <2>2. deal.side \in Sides /\ deal.qty \in Counts
    BY <2>1 DEF Deal
  <2> QED  BY <2>2, LotsAssumption DEF Counts
<1>4. /\ grown(got) \in Seq(Row) /\ Len(grown(got)) = new
      /\ \A v \in Verticals : grown(got)[v] = rows[v]
      /\ grown(got)[new] = [side |-> deal.side, qty |-> got, wing |-> TRUE, open |-> TRUE]
  <2>1. [side |-> deal.side, qty |-> got, wing |-> TRUE, open |-> TRUE] \in Row
    BY <1>3 DEF Row
  <2> QED  BY <2>1, ShapeOf DEF RolledQty, Verticals
<1>5. new \in Nat /\ Verticals \cup {new} = 1..new /\ DOMAIN grown(got) = 1..new
  <2>1. Len(rows) \in Nat
    BY ShapeOf
  <2> QED  BY <1>4, <2>1 DEF Verticals
<1>6. \A v \in 1..new : grown(got)[v] \in Row
  <2> HIDE DEF grown, new
  <2> QED  BY <1>4, <1>5
<1>7. \A v \in Verticals \cup {new} :
        /\ rows'[v].side = grown(got)[v].side /\ rows'[v].qty = grown(got)[v].qty
        /\ rows'[v].open = grown(got)[v].open
  <2> HIDE DEF grown, new, both, t
  <2>1. CASE rows' = Marks(grown(got), t)
    <3>1. \A v \in 1..new : rows'[v] = IF v = t THEN [grown(got)[v] EXCEPT !.wing = TRUE] ELSE grown(got)[v]
      BY <2>1, <1>5 DEF Marks
    <3> QED  BY <1>5, <1>6, <3>1 DEF Row
  <2> QED  BY <1>1, <2>1
<1>8. Len(rows') = new
  <2>1. DOMAIN rows' = 1..new
    <3> HIDE DEF grown, new, both, t
    <3> QED  BY <1>1, <1>5 DEF Marks
  <2>2. DOMAIN rows' = 1..Len(rows') /\ Len(rows') \in Nat
    BY DEF CondorInv, Shape
  <2> HIDE DEF new
  <2> QED  BY <1>5, <2>1, <2>2
<1>9. owned'[new] = got /\ \A v \in Verticals : owned'[v] = owned[v]
  BY <1>1, <1>3, ShapeOf DEF Verticals
<1>10. OpensRow(deal.side, got)
  <2>1. grown(got)[new].side = deal.side /\ grown(got)[new].qty = got /\ grown(got)[new].open
    <3> HIDE DEF grown, new
    <3> QED  BY <1>4
  <2> HIDE DEF grown
  <2> QED  BY <1>4, <1>7, <1>8, <1>9, <2>1 DEF OpensRow, CondorInv
<1>11. \A v \in DOMAIN book' : IF v = new THEN book'[v].qty = got
                                ELSE v \in DOMAIN book /\ book'[v].qty = book[v].qty
  <2>1. /\ DOMAIN both(got) = DOMAIN book \cup {new}
        /\ \A v \in DOMAIN both(got) : both(got)[v].qty = IF v = new THEN got ELSE book[v].qty
    BY DEF RolledQty
  <2> HIDE DEF both, new, grown, t
  <2>2. DOMAIN book' = DOMAIN both(got) /\ \A v \in DOMAIN both(got) : book'[v].qty = both(got)[v].qty
    <3>1. CASE book' = both(got)
      BY <3>1
    <3>2. CASE book' = [both(got) EXCEPT ![t] = [qty |-> both(got)[t].qty, wing |-> TRUE]]
      <4>1. DOMAIN book' = DOMAIN both(got)
        BY <3>2
      <4>2. ASSUME NEW v \in DOMAIN both(got), v = t PROVE book'[v].qty = both(got)[v].qty
        <5>1. book'[v] = [qty |-> both(got)[v].qty, wing |-> TRUE]
          BY <3>2, <4>2
        <5> QED  BY <5>1
      <4>3. ASSUME NEW v \in DOMAIN both(got), v # t PROVE book'[v].qty = both(got)[v].qty
        BY <3>2, <4>3
      <4> QED  BY <4>1, <4>2, <4>3
    <3> QED  BY <1>1, <3>1, <3>2
  <2> QED  BY <2>1, <2>2
<1>12. NoDeal \in Deal /\ NoDeal.tested <= Len(rows) + 1
  BY LotsAssumption, ShapeOf DEF NoDeal, Deal, Counts, Sides
<1> HIDE DEF grown, both, t
<1> QED  BY <1>2, <1>3, <1>10, <1>11, <1>12, OpeningSizes DEF Sizes

LEMMA SizesHold == CondorSpec => []Sizes
<1>1. CondorInit => Sizes
  <2> SUFFICES ASSUME CondorInit PROVE Sizes
    OBVIOUS
  <2>1. Nothing \in Walk /\ NoDeal \in Deal /\ NoDeal.tested = 0
    BY LotsAssumption DEF Nothing, NoDeal, Walk, Deal, Counts, Sides
  <2>2. Len(rows) = 0 /\ Verticals = {} /\ DOMAIN book = {}
    BY DEF CondorInit, Verticals
  <2>3. rem \in [Sides -> Walk] /\ deal \in Deal /\ deal.tested <= Len(rows)
    BY <2>1, <2>2 DEF CondorInit
  <2>4. pc \in {"supervise", "roll", "reopen", "manage", "enter"} /\ over \in BOOLEAN
    BY DEF CondorInit
  <2>5. Len(rows) <= MaxVerticals
    BY <2>2, LotsAssumption
  <2> QED  BY <2>2, <2>3, <2>4, <2>5 DEF Sizes
<1>2. CondorInv /\ CondorInv' /\ WingsAgree /\ Sizes /\ [CondorNext]_cdVars => Sizes'
  <2> SUFFICES ASSUME CondorInv, CondorInv', WingsAgree, Sizes, [CondorNext]_cdVars PROVE Sizes'
    OBVIOUS
  <2>1. CASE WindowCloses \/ NoRoll \/ RollHalts \/ NoEntry
    <3>1. owned' = owned /\ rows' = rows /\ book' = book /\ rem' = rem
          /\ (deal' = deal \/ deal' = NoDeal) /\ over' \in BOOLEAN
          /\ pc' \in {"supervise", "roll", "reopen", "manage", "enter"}
      BY <2>1 DEF WindowCloses, NoRoll, RollHalts, NoEntry, Sizes
    <3>2. NoDeal \in Deal /\ NoDeal.tested <= Len(rows)
      BY LotsAssumption, ShapeOf DEF NoDeal, Deal, Counts, Sides
    <3>3. deal' \in Deal /\ deal'.tested <= Len(rows)
      BY <3>1, <3>2 DEF Sizes
    <3> QED  BY <3>1, <3>3 DEF Sizes, Verticals
  <2>2. CASE UNCHANGED cdVars
    BY <2>2 DEF cdVars, Sizes, Verticals
  <2> QED
    BY <2>1, <2>2, SuperviseSizes, RollClosesSizes, RollReopensSizes, ManageSizes, EnterSizes,
       ReconcileSizes, RestartSizes DEF CondorNext
<1> QED  BY <1>1, <1>2, CondorInvHolds, WingsAlwaysAgree, PTL DEF CondorSpec

\* The broker's contracts, the rows, the records and the walks are of a size's range: no order of
\* the manager or the roll buys back more than is there, also when a remainder's record is no
\* longer the manager's (credit_remainder.accrete, set_open_positions).
THEOREM CondorIsTyped == CondorSpec => []CondorTypeOK
<1>1. CondorInv /\ WingsAgree /\ Sizes => CondorTypeOK
  <2> SUFFICES ASSUME CondorInv, WingsAgree, Sizes PROVE CondorTypeOK
    OBVIOUS
  <2>1. owned \in [Verticals -> Counts]
    <3>1. owned = [v \in Verticals |-> owned[v]]
      BY ShapeOf
    <3> QED  BY <3>1 DEF Sizes
  <2>2. \A v \in Verticals : rows[v] \in [side: Sides, qty: 1..Lots, wing: BOOLEAN, open: BOOLEAN]
    BY ShapeOf DEF Sizes, Row
  <2>3. ASSUME NEW v \in DOMAIN book PROVE book[v] \in [qty: 1..Lots, wing: BOOLEAN]
    <3>1. book[v] \in Record /\ v \in Verticals
      BY ShapeOf DEF WingsAgree
    <3>2. book[v].qty \in 1..Lots
      <4>1. book[v].qty \in Int /\ 1 <= book[v].qty /\ book[v].qty <= Lots
        BY DEF Sizes, CondorInv, Records
      <4> QED  BY <4>1, LotsAssumption
    <3> QED  BY <3>1, <3>2 DEF Record
  <2>4. rem \in [Sides -> [id: 0..Len(rows), left: Counts, qty: Counts, shared: BOOLEAN]]
    <3>1. rem = [s \in Sides |-> rem[s]] /\ \A s \in Sides : rem[s] \in Walk
      BY DEF Sizes
    <3>2. \A s \in Sides : rem[s] \in [id: 0..Len(rows), left: Counts, qty: Counts, shared: BOOLEAN]
      BY <3>1 DEF CondorInv, WalksAgree, Walk
    <3> QED  BY <3>1, <3>2
  <2>5. deal \in [tested: 0..Len(rows), side: Sides, qty: Counts]
    <3>1. deal.tested \in 0..Len(rows)
      BY ShapeOf DEF Sizes, Deal
    <3> QED  BY <3>1 DEF Sizes, Deal
  <2> QED  BY <2>1, <2>2, <2>3, <2>4, <2>5, ShapeOf DEF CondorTypeOK, Sizes
<1> QED  BY <1>1, CondorInvHolds, WingsAlwaysAgree, SizesHold, PTL
=============================================================================
