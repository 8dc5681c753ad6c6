------------------------------ MODULE MCParts ------------------------------
(***************************************************************************)
(* The parts that share no state with each other, checked side by side: a  *)
(* behaviour is of one of them, chosen at the start, while the others stay *)
(* in an initial state.                                                    *)
(***************************************************************************)
EXTENDS Warehouse, EmergencyWatchdog, MCOrb, Condor, LadderWalk,
        CandleFeed, LevelBook, LossCap, ExitTrail, MCDay

VARIABLE part

partVars == <<part, whVars, wdVars, orbVars, cdVars, lwVars, feedVars, lbVars, capVars,
              trailVars, dayVars>>

\* The chain of today, today's with a strike more, the next expiry's.
Requests == {[expiry |-> "today", contracts |-> {"a"}], [expiry |-> "today", contracts |-> {"a", "b"}],
             [expiry |-> "next", contracts |-> {"c"}]}

\* Books: a cent wide, on the nickel grid, off it, wide, locked.
Books == {<<0, 1>>, <<10, 20>>, <<31, 36>>, <<15, 60>>, <<20, 20>>}

\* Two levels of a session that has closed, and a third, close to one of them, of the next.
SessionLevels ==
    LET level(side, price) == [side |-> side, price |-> price, flip |-> FALSE]
    IN [l \in {level("resistance", 2), level("resistance", 3), level("support", 1)} |->
          IF l.price = 3 THEN 3 ELSE 1]

\* Minutes that reach a level, close beyond one or both, open beyond, come back, and break below.
Candles ==
    {[open |-> b[1], high |-> b[2], low |-> b[3], close |-> b[4]] :
       b \in {<<1, 2, 1, 1>>, <<1, 3, 1, 3>>, <<1, 4, 1, 4>>, <<4, 4, 4, 4>>, <<4, 4, 1, 1>>, <<0, 0, 0, 0>>}}

PartsInit ==
    /\ part \in {"warehouse", "watchdog", "orb", "condor", "ladder", "feed", "levels",
                  "cap", "trail", "day"}
    /\ WarehouseInit /\ WatchdogInit /\ OrbInit /\ CondorInit
    /\ LadderInit /\ FeedInit /\ LevelInit /\ CapInit /\ TrailInit /\ DayInit
    /\ part # "watchdog" => held = 0
    /\ part # "orb" => tape = <<Bar(0, 0, 0, 0)>>
    /\ part # "ladder" => intent = "close_long"
    /\ part # "levels" => zoneWidth = 0
    /\ part # "trail" => trailKind = "debit"

PartsNext ==
    /\ UNCHANGED part
    /\ \/ part = "warehouse" /\ WarehouseNext
          /\ UNCHANGED <<wdVars, orbVars, cdVars, lwVars, feedVars, lbVars, capVars, trailVars, dayVars>>
       \/ part = "watchdog" /\ WatchdogNext
          /\ UNCHANGED <<whVars, orbVars, cdVars, lwVars, feedVars, lbVars, capVars, trailVars, dayVars>>
       \/ part = "orb" /\ OrbNext
          /\ UNCHANGED <<whVars, wdVars, cdVars, lwVars, feedVars, lbVars, capVars, trailVars, dayVars>>
       \/ part = "condor" /\ CondorNext
          /\ UNCHANGED <<whVars, wdVars, orbVars, lwVars, feedVars, lbVars, capVars, trailVars, dayVars>>
       \/ part = "ladder" /\ LadderNext
          /\ UNCHANGED <<whVars, wdVars, orbVars, cdVars, feedVars, lbVars, capVars, trailVars, dayVars>>
       \/ part = "feed" /\ FeedNext
          /\ UNCHANGED <<whVars, wdVars, orbVars, cdVars, lwVars, lbVars, capVars, trailVars, dayVars>>
       \/ part = "levels" /\ LevelNext
          /\ UNCHANGED <<whVars, wdVars, orbVars, cdVars, lwVars, feedVars, capVars, trailVars, dayVars>>
       \/ part = "cap" /\ CapNext
          /\ UNCHANGED <<whVars, wdVars, orbVars, cdVars, lwVars, feedVars, lbVars, trailVars, dayVars>>
       \/ part = "trail" /\ TrailNext
          /\ UNCHANGED <<whVars, wdVars, orbVars, cdVars, lwVars, feedVars, lbVars, capVars, dayVars>>
       \/ part = "day" /\ DayNext
          /\ UNCHANGED <<whVars, wdVars, orbVars, cdVars, lwVars, feedVars, lbVars, capVars, trailVars>>

PartsSpec == PartsInit /\ [][PartsNext]_partVars

\* Every part is well typed; the parts a behaviour is not of are as they were at the start.
PartsTypeOK ==
    /\ part = "warehouse" => WarehouseTypeOK
    /\ part = "watchdog" => WatchdogTypeOK
    /\ part = "orb" => OrbTypeOK
    /\ part = "condor" => CondorTypeOK
    /\ part = "ladder" => LadderTypeOK
    /\ part = "feed" => FeedTypeOK
    /\ part = "levels" => LevelTypeOK
    /\ part = "cap" => CapTypeOK
    /\ part = "trail" => TrailTypeOK
    /\ part = "day" => DayTypeOK
=============================================================================
