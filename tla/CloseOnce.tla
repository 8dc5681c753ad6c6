------------------------------ MODULE CloseOnce ------------------------------
(***************************************************************************)
(* What closing a live position promises: its contracts are closed at the  *)
(* broker, never more of them than it has, and it is booked closed once,   *)
(* when all of them are.  LiveExit implements it (LiveExitProofs).         *)
(***************************************************************************)
EXTENDS Naturals

CONSTANT Total

VARIABLES closed, booked

Init == closed = 0 /\ booked = FALSE

(* Some more contracts are closed at the broker.                           *)
CloseSome ==
  /\ \E n \in 1 .. Total : closed' = closed + n
  /\ closed' <= Total
  /\ booked' = booked

BookAll == closed = Total /\ ~booked /\ booked' = TRUE /\ closed' = closed

Next == CloseSome \/ BookAll

Spec == Init /\ [][Next]_<<closed, booked>>
=============================================================================
