------------------------------ MODULE MCReturns -----------------------------
(***************************************************************************)
(* What must come about: the close of one position under the faults its    *)
(* code absorbs, the entry under the faults from which it returns, the     *)
(* bars the store ends with, and the book that is flat in the evening.  A  *)
(* behaviour is of one of the four, chosen at the start; the others stay   *)
(* in their initial states.                                                *)
(***************************************************************************)
EXTENDS LiveExit, CandleStore, MCDay

CONSTANTS Returning    (* the faults under which the entry must return      *)

VARIABLES
  case, st, filled, held, own, adopted, suspect, boot, at, cur, attempt, saw,
  cancels, tries, fill, todo, asked, bad, stale, crashes

R == INSTANCE GuardedEntry
       WITH Size <- 2, Attempts <- 2, MaxOrders <- 2, MaxCrashes <- 1, Faults <- Returning,
            pc <- at, seen <- saw, polls <- tries

entryVars ==
  <<st, filled, held, own, adopted, suspect, boot, at, cur, attempt, saw,
    cancels, tries, fill, todo, asked, bad, stale, crashes>>

all == <<case, vars, entryVars, tapeVars, dayVars>>

CaseInit ==
  /\ case \in {"exit", "entry", "tape", "day"} /\ Init /\ R!Init /\ TapeInit /\ DayInit
  /\ case # "tape" => kept = [b \in Slots |-> NoBar]

CaseNext ==
  /\ UNCHANGED case
  /\ \/ case = "exit" /\ Next /\ UNCHANGED <<entryVars, tapeVars, dayVars>>
     \/ case = "entry" /\ R!Next /\ UNCHANGED <<vars, tapeVars, dayVars>>
     \/ case = "tape" /\ TapeNext /\ UNCHANGED <<vars, entryVars, dayVars>>
     \/ case = "day" /\ DayNext /\ UNCHANGED <<vars, entryVars, tapeVars>>

Exits(A) == case = "exit" /\ A /\ UNCHANGED <<case, entryVars, tapeVars, dayVars>>
Enters(A) == case = "entry" /\ A /\ UNCHANGED <<case, vars, tapeVars, dayVars>>
Tapes(A) == case = "tape" /\ A /\ UNCHANGED <<case, vars, entryVars, dayVars>>
Days(A) == case = "day" /\ A /\ UNCHANGED <<case, vars, entryVars, tapeVars>>

(* The code of a tick is straight-line with bounded polls; strategies keep *)
(* signalling, and the broker carries a cancel of an entry out.  To an     *)
(* exit the broker owes nothing.  A vendor that replays sends the true bar *)
(* again and again.  From 15:50 the loop ticks on, and the broker carries  *)
(* a close of any one position out in the end.                             *)
FairCases ==
  /\ CaseInit /\ [][CaseNext]_all
  /\ WF_all(Exits(Pass))
  /\ WF_all(Enters(R!Sweep \/ R!Enter))
  /\ WF_all(Enters(R!Signal))
  /\ \A o \in 1 .. 2 : WF_all(Enters(st[o] = "cancelling" /\ R!BrokerEnds(o, "dead")))
  /\ WF_all(Tapes(MinuteEnds))
  /\ \A b \in Slots : SF_all(Tapes(RepeatsTheTruth(b)))
  /\ WF_all(Days(NothingGone)) /\ WF_all(Days(HardClose))
  /\ \A t \in DayTrades : SF_all(Days(HardClose /\ rowOf[t] = "open" /\ rowOf'[t] = "closed"))

-----------------------------------------------------------------------------
(* A call of the entry always returns to the loop, however its orders end,  *)
(* and a blocked boot does not block for good.                             *)
EntryReturns == case = "entry" => R!EntryReturns /\ R!BlockedResumes

(* Whatever is replayed between, the store ends with the true bars.        *)
TruthStands == case = "tape" => TruthPrevails
=============================================================================
