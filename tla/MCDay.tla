-------------------------------- MODULE MCDay -------------------------------
(***************************************************************************)
(* Values for a day of the position manager.                               *)
(***************************************************************************)
EXTENDS PositionBook

Ruled == {"GEXPinButterfly", "SweepCreditSpread", "ORBStrategy"}

\* A fly, a vertical, an offer's trade, and the long that an assigned vertical leaves.
FewTrades == {[type |-> x, n |-> 1] : x \in Ruled \cup {"ADOPTED"}}

\* The same with a second vertical.
ManyTrades == FewTrades \cup {[type |-> "SweepCreditSpread", n |-> 2]}

OfEach == [type \in Ruled |-> IF type = "SweepCreditSpread" THEN 2 ELSE 1]
=============================================================================
