------------------------------ MODULE MCFaults ------------------------------
(***************************************************************************)
(* Every fault at once, in the entry and in the exit; the entry under the  *)
(* two smaller sets of faults in which more is claimed of it; and whatever *)
(* keeps the bot from seeing.  A behaviour is of one case, chosen at the   *)
(* start.                                                                  *)
(***************************************************************************)
EXTENDS GuardedEntry, BlindWatch

VARIABLES case, orders, closed, row, mem, copy, at, saw, cancelled, tries

G == INSTANCE GuardedEntry WITH Faults <- GuardedFaults
S == INSTANCE GuardedEntry WITH Faults <- SettledFaults, MaxCrashes <- 1
L == INSTANCE LiveExit
       WITH Total <- 2, MaxPolls <- 1,
            Faults <- {"fetch", "poll", "cancel", "refuse", "save", "crash", "resync",
                       "fills", "lost", "posted", "booking", "log"},
            pc <- at, seen <- saw, polls <- tries

exitVars == <<orders, closed, row, mem, copy, at, saw, cancelled, tries>>
caseVars == <<case, vars, exitVars, bwVars>>

CaseInit ==
  /\ case \in {"all", "guarded", "settled", "exit", "blind"}
  /\ Init /\ L!Init /\ BlindInit
  /\ case # "blind" => ~exposed

CaseNext ==
  /\ UNCHANGED case
  /\ \/ case = "all" /\ Next /\ UNCHANGED <<exitVars, bwVars>>
     \/ case = "guarded" /\ G!Next /\ UNCHANGED <<exitVars, bwVars>>
     \/ case = "settled" /\ S!Next /\ UNCHANGED <<exitVars, bwVars>>
     \/ case = "exit" /\ L!Next /\ UNCHANGED <<vars, bwVars>>
     \/ case = "blind" /\ BlindNext /\ UNCHANGED <<vars, exitVars>>

CaseSpec == CaseInit /\ [][CaseNext]_caseVars

-----------------------------------------------------------------------------
(* Errors after a post, failed sweeps and two restarts never put two       *)
(* orders of the intent to work at once.                                   *)
GuardedNeverTwo == case = "guarded" => OneLiveEntry

(* Between ticks nothing works and every contract held is in a row.        *)
QuietIsSettled == case = "settled" => SettledWhenIdle

(* Whatever goes wrong, a row never claims a fill the broker did not make  *)
(* and is never booked closed with contracts left.                         *)
ExitInventsNothing == L!NothingInvented /\ L!BookedMeansClosed
=============================================================================
