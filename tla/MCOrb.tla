-------------------------------- MODULE MCOrb -------------------------------
(***************************************************************************)
(* The bars of the checked sessions.                                       *)
(***************************************************************************)
EXTENDS OrbEngine

\* Bars from the range (0 inside, 1 on the high, 2 above it, 3 beyond the 50%): still inside,
\* to the line, through it, resting on it, wick to it, on to the 50, back inside; and two of the
\* short side.
Bar(o, c, l, h) == [open |-> o, close |-> c, low |-> l, high |-> h]
Shapes ==
    {Bar(0, 0, 0, 0), Bar(0, 1, 0, 1), Bar(0, 2, 0, 2), Bar(2, 2, 2, 2), Bar(2, 2, 1, 2),
     Bar(2, 3, 2, 3), Bar(2, 0, 0, 2), Bar(0, 3, 0, 3), Bar(0, -2, -2, 0), Bar(-2, -2, -2, -1)}
=============================================================================
