---------------------------- MODULE PartsProofs ----------------------------
(***************************************************************************)
(* The parts that stand alone, for every value of their constants.         *)
(*                                                                         *)
(* The two messages that must be sent once: the watchdog's close of the    *)
(* day, with the page that positions are unattended, and the loss cap's    *)
(* page of an episode.  The position manager's list.  The latch's outage   *)
(* and its all-clear.  The candle feed's memory of its socket, and the     *)
(* true bars its store takes and keeps.  The trailing stop across a        *)
(* restart.  The prices an order walk refuses.  The evening, in which the  *)
(* book only shrinks and two hard closes flatten it.  And the types of the *)
(* parts of MCParts, side by side.                                         *)
(***************************************************************************)
EXTENDS MCParts, CondorProofs, TapeProofs, WarehouseProofs, BlindWatch, CandleStore,
        FiniteSetTheorems, WellFoundedInduction, TLAPS

(***************************************************************************)
(* The emergency watchdog.                                                 *)
(***************************************************************************)
\* A close under way is the day's one, noted before it began, and nothing has been paged; beyond
\* the stop the bot is down.
CloseIsNoted ==
    /\ pages \in Nat
    /\ watch # "idle" => acted = TRUE /\ pages = 0
    /\ acted = TRUE \/ (acted = FALSE /\ pages = 0)
    /\ OnePage /\ NeverBeside

\* The note is written before the close begins and outlives the watchdog.
LEMMA CloseIsNotedHolds == WatchdogSpec => []CloseIsNoted
<1>1. WatchdogInit => CloseIsNoted
  <2> SUFFICES ASSUME WatchdogInit PROVE CloseIsNoted
    OBVIOUS
  <2>1. acted = FALSE /\ pages = 0 /\ watch = "idle"
    BY DEF WatchdogInit
  <2> QED  BY <2>1 DEF CloseIsNoted, OnePage, NeverBeside
<1>2. CloseIsNoted /\ [WatchdogNext]_wdVars => CloseIsNoted'
  <2> SUFFICES ASSUME CloseIsNoted, [WatchdogNext]_wdVars PROVE CloseIsNoted'
    OBVIOUS
  <2> USE DEF CloseIsNoted, OnePage, NeverBeside
  <2>1. CASE MinutePasses
    BY <2>1 DEF MinutePasses, botVars, fileVars, tellVars
  <2>2. CASE Trades
    BY <2>2 DEF Trades, botVars, fileVars, tellVars
  <2>3. CASE Hangs \/ Recovers \/ Crashes \/ Stopped
    BY <2>3 DEF Hangs, Recovers, Crashes, Stopped, Turns, Alive, fileVars, tellVars
  <2>4. CASE Started
    BY <2>4 DEF Started, Turns, fileVars, tellVars
  <2>5. CASE Restarts
    BY <2>5 DEF Restarts, fileVars, tellVars
  <2>6. CASE Fire
    BY <2>6 DEF Fire, FindsWell, FindsUnwell, botVars
  <2>7. CASE StopBot
    BY <2>7 DEF StopBot, fileVars, tellVars
  <2>8. CASE WouldNotStop
    BY <2>8 DEF WouldNotStop, botVars, fileVars, tellVars
  <2>9. CASE CancelWorking
    BY <2>9 DEF CancelWorking, botVars, fileVars, tellVars
  <2>10. CASE FlattenPass
    BY <2>10 DEF FlattenPass, botVars, fileVars, tellVars
  <2>11. CASE WatchdogDies
    BY <2>11 DEF WatchdogDies, botVars, fileVars
  <2>12. CASE UNCHANGED wdVars
    BY <2>12 DEF wdVars, botVars, fileVars
  <2> QED
    BY <2>1, <2>2, <2>3, <2>4, <2>5, <2>6, <2>7, <2>8, <2>9, <2>10, <2>11, <2>12 DEF WatchdogNext
<1> QED  BY <1>1, <1>2, PTL DEF WatchdogSpec

\* The book is closed only beside a dead bot (emergency_close).
THEOREM ClosedBesideNobody == WatchdogSpec => []NeverBeside
<1>1. CloseIsNoted => NeverBeside
  BY DEF CloseIsNoted
<1> QED  BY <1>1, CloseIsNotedHolds, PTL

\* One close, one message, a day (emergency_watchdog.json).
THEOREM PagedOnceADay == WatchdogSpec => []OnePage
<1>1. CloseIsNoted => OnePage
  BY DEF CloseIsNoted
<1> QED  BY <1>1, CloseIsNotedHolds, PTL

LEMMA WatchdogTypesHold == WatchdogSpec => [](WatchdogTypeOK /\ born <= minute /\ beat <= minute)
<1> DEFINE Inv == WatchdogTypeOK /\ born <= minute /\ beat <= minute
<1>1. WatchdogInit => Inv
  <2> SUFFICES ASSUME WatchdogInit PROVE Inv
    OBVIOUS
  <2>1. 0 \in 0..LastMinute /\ 0 \in 0..MaxTroubles
    BY WindowAssumption, WatchAssumption DEF LastMinute
  <2>2. /\ minute = 0 /\ born = 0 /\ beat = 0 /\ held \in 0..MaxOpen /\ since = Never /\ pages = 0
        /\ troubles = 0 /\ bot = "passing" /\ watch = "idle" /\ before = "none" /\ last = "none"
    BY DEF WatchdogInit
  <2>3. resting \in BOOLEAN /\ acted \in BOOLEAN /\ fired \in BOOLEAN /\ passed \in BOOLEAN
        /\ unread \in BOOLEAN
    BY DEF WatchdogInit
  <2> QED  BY <2>1, <2>2, <2>3 DEF WatchdogTypeOK, Alive
<1>2. Inv /\ [WatchdogNext]_wdVars => Inv'
  <2> SUFFICES ASSUME Inv, [WatchdogNext]_wdVars PROVE Inv'
    OBVIOUS
  <2>0. LastMinute \in Nat /\ CloseEnd \in Nat /\ MaxOpen \in Nat /\ MaxTroubles \in Nat
    BY WindowAssumption, WatchAssumption DEF LastMinute
  <2> USE <2>0 DEF WatchdogTypeOK, Alive, Never
  <2>1. CASE MinutePasses
    <3>1. fired' \in BOOLEAN /\ passed' \in BOOLEAN
      BY <2>1 DEF MinutePasses
    <3>2. minute' = minute + 1 /\ minute' \in 0..LastMinute /\ beat' \in {beat, minute'}
      BY <2>1 DEF MinutePasses
    <3> QED  BY <2>1, <3>1, <3>2 DEF MinutePasses, botVars, fileVars, tellVars
  <2>2. CASE Trades
    BY <2>2, WindowAssumption DEF Trades, botVars, fileVars, tellVars
  <2>3. CASE Hangs \/ Recovers \/ Crashes \/ Stopped
    BY <2>3 DEF Hangs, Recovers, Crashes, Stopped, Turns, fileVars, tellVars
  <2>4. CASE Started \/ Restarts
    BY <2>4 DEF Started, Restarts, Turns, fileVars, tellVars
  <2>5. CASE Fire
    <3>1. acted' \in BOOLEAN /\ watch' \in {"idle", "stopping"} /\ unread' \in BOOLEAN /\ fired' = TRUE
      BY <2>5 DEF Fire, FindsWell, FindsUnwell
    <3>2. since' \in 0..LastMinute \cup {Never}
      BY <2>5 DEF Fire, FindsWell, FindsUnwell
    <3>3. before' = last /\ last' \in {"ok", "flat", "unwell"}
      BY <2>5 DEF Fire, FindsWell, FindsUnwell, Says
    <3> QED  BY <2>5, <3>1, <3>2, <3>3 DEF Fire, botVars
  <2>6. CASE StopBot \/ WouldNotStop \/ CancelWorking \/ WatchdogDies
    <3>1. CASE StopBot
      BY <3>1 DEF StopBot, botVars, fileVars, tellVars
    <3>2. CASE WouldNotStop
      BY <3>2 DEF WouldNotStop, botVars, fileVars, tellVars
    <3>3. CASE CancelWorking
      <4>1. resting' \in BOOLEAN
        BY <3>3 DEF CancelWorking
      <4> QED  BY <3>3, <4>1 DEF CancelWorking, botVars, fileVars, tellVars
    <3>4. CASE WatchdogDies
      BY <3>4 DEF WatchdogDies, botVars, fileVars
    <3> QED  BY <2>6, <3>1, <3>2, <3>3, <3>4
  <2>7. CASE FlattenPass
    BY <2>7 DEF FlattenPass, botVars, fileVars, tellVars
  <2>8. CASE UNCHANGED wdVars
    BY <2>8 DEF wdVars, botVars, fileVars, tellVars
  <2> QED
    BY <2>1, <2>2, <2>3, <2>4, <2>5, <2>6, <2>7, <2>8 DEF WatchdogNext
<1> QED  BY <1>1, <1>2, PTL DEF WatchdogSpec

\* The state file, the window's last minute but one, and a book nobody watches: the firing of that
\* minute notes the trouble, the next one, the last of the window, acts on it.
Unattended ==
    /\ beat + Stale + 1 <= CloseEnd - 2 /\ born + Grace <= CloseEnd - 2
    /\ held > 0 /\ ~unread

SeenTwice ==
    /\ WatchdogTypeOK /\ born <= minute /\ beat <= minute /\ CloseIsNoted
    /\ acted /\ watch = "idle" /\ ~unread => pages = 1
    /\ Unattended /\ (minute > CloseEnd - 2 \/ (minute = CloseEnd - 2 /\ fired)) => acted \/ since # Never
    /\ Unattended /\ (minute > CloseEnd - 1 \/ (minute = CloseEnd - 1 /\ fired)) => acted

\* From the last minute but one no position is opened, and what is old was older.
LEMMA UnattendedBefore ==
  ASSUME WatchdogTypeOK, born <= minute, beat <= minute, CloseAt + 2 <= CloseEnd,
         minute >= CloseEnd - 2, [WatchdogNext]_wdVars, Unattended'
  PROVE  Unattended
<1>0. /\ CloseAt \in Nat /\ CloseEnd \in Nat /\ Stale \in Nat /\ Grace \in Nat
      /\ minute \in Nat /\ born \in Nat /\ beat \in Nat /\ held \in Nat
  BY WindowAssumption, WatchAssumption DEF WatchdogTypeOK, LastMinute
<1>1. born' \in {born, minute} /\ beat' \in {beat, minute, minute + 1}
  BY DEF WatchdogNext, MinutePasses, Trades, Hangs, Recovers, Crashes, Stopped, Started, Restarts,
     Turns, Fire, StopBot, WouldNotStop, CancelWorking, FlattenPass, WatchdogDies, wdVars, botVars
<1>2. born' >= born /\ beat' >= beat /\ born' \in Nat /\ beat' \in Nat
  BY <1>0, <1>1
<1>3. held' = held \/ Trades \/ FlattenPass
  BY DEF WatchdogNext, MinutePasses, Hangs, Recovers, Crashes, Stopped, Started, Restarts,
     Turns, Fire, StopBot, WouldNotStop, CancelWorking, WatchdogDies, wdVars
<1>4. held' <= held /\ held' \in Int
  <2>1. CASE Trades
    BY <1>0, <2>1 DEF Trades
  <2>2. CASE FlattenPass
    BY <1>0, <2>2 DEF FlattenPass
  <2> QED  BY <1>0, <1>3, <2>1, <2>2
<1>5. unread' = unread \/ unread'
  BY DEF WatchdogNext, MinutePasses, Trades, Hangs, Recovers, Crashes, Stopped, Started, Restarts,
     Turns, Fire, StopBot, WouldNotStop, CancelWorking, FlattenPass, WatchdogDies, wdVars, tellVars
<1>6. /\ beat' + Stale + 1 <= CloseEnd - 2 /\ born' + Grace <= CloseEnd - 2
      /\ held' > 0 /\ ~unread'
  BY DEF Unattended
<1>7. beat + Stale + 1 <= CloseEnd - 2 /\ born + Grace <= CloseEnd - 2
  <2>1. \A a, b, c, d \in Nat : a <= b /\ b + c + 1 <= d - 2 => a + c + 1 <= d - 2
    OBVIOUS
  <2>2. \A a, b, c, d \in Nat : a <= b /\ b + c <= d - 2 => a + c <= d - 2
    OBVIOUS
  <2>3. beat + Stale + 1 <= CloseEnd - 2
    BY <1>0, <1>2, <1>6, <2>1
  <2>4. born + Grace <= CloseEnd - 2
    BY <1>0, <1>2, <1>6, <2>2
  <2> QED  BY <2>3, <2>4
<1>8. held > 0
  BY <1>0, <1>4, <1>6
<1>9. ~unread
  BY <1>5, <1>6
<1> QED  BY <1>7, <1>8, <1>9 DEF Unattended

LEMMA SeenTwiceHolds == ASSUME CloseAt + 2 <= CloseEnd PROVE WatchdogSpec => []SeenTwice
<1>1. WatchdogInit /\ WatchdogTypeOK /\ CloseIsNoted => SeenTwice
  BY WindowAssumption DEF WatchdogInit, SeenTwice
<1>2. /\ SeenTwice /\ [WatchdogNext]_wdVars
      /\ (WatchdogTypeOK /\ born <= minute /\ beat <= minute /\ CloseIsNoted)'
      => SeenTwice'
  <2> SUFFICES ASSUME SeenTwice, [WatchdogNext]_wdVars,
                      (WatchdogTypeOK /\ born <= minute /\ beat <= minute /\ CloseIsNoted)'
               PROVE  SeenTwice'
    OBVIOUS
  <2>0. /\ CloseAt \in Nat /\ CloseEnd \in Nat /\ Stale \in Nat /\ Grace \in Nat
        /\ minute \in Nat /\ born \in Nat /\ beat \in Nat /\ held \in Nat /\ pages \in Nat
    BY WindowAssumption, WatchAssumption DEF SeenTwice, WatchdogTypeOK, LastMinute
  <2>u. minute >= CloseEnd - 2 /\ Unattended' => Unattended
    BY UnattendedBefore DEF SeenTwice
  <2>1. acted' /\ watch' = "idle" /\ ~unread' => pages' = 1
    <3>1. CASE Fire
      <4>1. pages' = pages /\ watch = "idle" /\ (unread' \/ unread' = unread)
        BY <3>1 DEF Fire
      <4>2. (acted' = acted /\ watch' = watch) \/ watch' = "stopping"
        BY <3>1 DEF Fire, FindsWell, FindsUnwell
      <4>3. acted /\ ~unread => pages = 1
        BY <4>1 DEF SeenTwice
      <4> SUFFICES ASSUME acted', watch' = "idle", ~unread' PROVE pages' = 1
        OBVIOUS
      <4>4. acted' = acted
        BY <4>2
      <4>5. acted /\ ~unread
        BY <4>1, <4>4
      <4> QED  BY <4>1, <4>3, <4>5
    <3>2. CASE WouldNotStop \/ FlattenPass
      BY <3>2, <2>0 DEF WouldNotStop, FlattenPass, SeenTwice, CloseIsNoted
    <3>3. CASE StopBot \/ CancelWorking \/ WatchdogDies
      BY <3>3 DEF StopBot, CancelWorking, WatchdogDies
    <3>4. CASE UNCHANGED <<acted, watch, unread, pages>>
      BY <3>4 DEF SeenTwice
    <3> QED
      BY <3>1, <3>2, <3>3, <3>4 DEF WatchdogNext, MinutePasses, Trades, Hangs, Recovers, Crashes,
         Stopped, Started, Restarts, Turns, wdVars, tellVars, fileVars
  <2>2. CASE Fire
    <3>1. minute' = minute /\ born' = born /\ beat' = beat /\ held' = held /\ fired' = TRUE
          /\ ~fired /\ watch = "idle"
      BY <2>2 DEF Fire, botVars
    <3>2. ASSUME Unattended', minute >= CloseEnd - 2
          PROVE  FindsUnwell(held)
      <4>1. ~unread' /\ held > 0
        BY <3>1, <3>2 DEF Unattended
      <4>2. minute - born >= Grace /\ minute - beat > Stale
        BY <2>0, <3>1, <3>2 DEF Unattended
      <4>3. ~Healthy
        BY <2>0, <4>2 DEF Healthy
      <4> QED  BY <2>2, <2>0, <4>1, <4>3 DEF Fire, FindsWell
    <3>3. ASSUME Unattended', minute >= CloseEnd - 2 PROVE since' # Never /\ (acted => acted')
      <4>1. since' # Never
        BY <3>2, <3>3, <2>0 DEF FindsUnwell, Never
      <4>2. acted' = TRUE \/ acted' = acted
        BY <3>2, <3>3 DEF FindsUnwell
      <4> QED  BY <4>1, <4>2
    <3>4. ASSUME Unattended', minute = CloseEnd - 1 PROVE acted'
      <4>1. Unattended /\ minute > CloseEnd - 2 /\ minute >= CloseEnd - 2
        BY <2>0, <2>u, <3>4
      <4>2. acted \/ since # Never
        BY <4>1 DEF SeenTwice
      <4>3. CloseAt <= minute /\ minute < CloseEnd
        BY <2>0, <3>4
      <4>4. CASE acted
        BY <3>3, <3>4, <4>1, <4>4
      <4>5. CASE ~acted
        <5>1. acted' = TRUE
          BY <3>2, <3>4, <4>1, <4>2, <4>3, <4>5 DEF FindsUnwell
        <5> QED  BY <5>1
      <4> QED  BY <4>4, <4>5
    <3>5. ASSUME Unattended', minute > CloseEnd - 1 PROVE acted'
      <4>1. Unattended /\ minute >= CloseEnd - 2
        BY <2>0, <2>u, <3>5
      <4>2. acted
        BY <4>1, <3>5 DEF SeenTwice
      <4> QED  BY <3>3, <3>5, <4>1, <4>2
    <3>6. minute > CloseEnd - 2 \/ minute = CloseEnd - 2 => minute >= CloseEnd - 2
      BY <2>0
    <3> QED  BY <2>1, <3>1, <3>3, <3>4, <3>5, <3>6 DEF SeenTwice
  <2>3. CASE MinutePasses
    <3>1. minute' = minute + 1 /\ acted' = acted /\ since' = since /\ watch' = watch
          /\ (fired \/ watch = "closing") /\ (fired' => watch # "idle")
      BY <2>3 DEF MinutePasses, fileVars
    <3>2. watch # "idle" => acted
      BY DEF SeenTwice, CloseIsNoted
    <3>3. ASSUME Unattended', minute' > CloseEnd - 2 PROVE acted' \/ since' # Never
      <4>1. Unattended /\ (minute > CloseEnd - 2 \/ minute = CloseEnd - 2)
        BY <2>0, <2>u, <3>1, <3>3
      <4> QED  BY <3>1, <3>2, <4>1 DEF SeenTwice
    <3>4. ASSUME Unattended', minute' > CloseEnd - 1 PROVE acted'
      <4>1. Unattended /\ (minute > CloseEnd - 1 \/ minute = CloseEnd - 1)
        BY <2>0, <2>u, <3>1, <3>4
      <4> QED  BY <3>1, <3>2, <4>1 DEF SeenTwice
    <3> QED  BY <2>1, <3>1, <3>2, <3>3, <3>4 DEF SeenTwice
  <2>4. CASE UNCHANGED <<minute, fired, since, acted>>
    <3>1. Unattended' /\ (minute > CloseEnd - 2 \/ minute = CloseEnd - 2 \/ minute > CloseEnd - 1 \/ minute = CloseEnd - 1)
          => Unattended
      BY <2>0, <2>u
    <3> QED  BY <2>1, <2>4, <3>1 DEF SeenTwice
  <2>5. CASE ~Fire /\ ~MinutePasses
    <3>1. UNCHANGED <<minute, fired, since, acted>>
      BY <2>5 DEF WatchdogNext, Trades, Hangs, Recovers, Crashes, Stopped, Started, Restarts, Turns,
         StopBot, WouldNotStop, CancelWorking, FlattenPass, WatchdogDies, wdVars, fileVars
    <3> QED  BY <2>4, <3>1
  <2> QED  BY <2>2, <2>3, <2>5
<1> QED  BY <1>1, <1>2, WatchdogTypesHold, CloseIsNotedHolds, PTL DEF WatchdogSpec

\* A bot that was down or silent long enough to be seen twice before the window's end, which is two
\* minutes or more, leaves no position behind that nobody was paged about (watchdog.tick).
THEOREM UnattendedIsAlwaysPaged ==
  ASSUME CloseAt + 2 <= CloseEnd PROVE WatchdogSpec => []UnattendedIsPaged
<1>1. SeenTwice => UnattendedIsPaged
  BY WindowAssumption DEF SeenTwice, UnattendedIsPaged, Unattended, WatchdogTypeOK, LastMinute
<1> QED  BY <1>1, SeenTwiceHolds, PTL

\* The watchdog's files and the bot it watches are well typed (emergency_watchdog.py).
THEOREM WatchdogIsTyped == WatchdogSpec => []WatchdogTypeOK
<1> QED  BY WatchdogTypesHold, PTL

(***************************************************************************)
(* The loss cap.                                                           *)
(***************************************************************************)
\* The page that needs no fault: once the stamp is open it may have been sent.
Owing == IF stampLine = "open" THEN 1 ELSE 0

\* The halt is what the process made of the number it holds; and past the cap the pages sent are
\* no more than the faults and, once the stamp is open, one: a page leaves its mark in the file
\* before anything can ask again, and the file outlives the process.
PagedIsStamped ==
    /\ capPages \in Nat /\ capFaults \in 0..MaxFaults /\ OnePagePerEpisode
    /\ halted <=> Breached(mirror)
    /\ Breached(realized) => capPages <= capFaults + Owing

\* What a fault more pays for: a page, or a stamp that is no longer open.
LEMMA FaultPays ==
  ASSUME NEW p \in Nat, NEW f \in Nat, NEW o \in 0..1
  PROVE  /\ p <= f + o =>
              \A q \in {p, p + 1}, r \in {o, 1} : q \in Nat /\ q <= 1 + (f + 1) /\ q <= (f + 1) + r
         /\ p <= 1 + f => p <= (f + 1) + o /\ \A g \in {f, f + 1} : p <= 1 + g
         /\ p <= f + o => \A g \in {f, f + 1} : p <= g + o
  OBVIOUS

\* The page that opens the stamp needs no fault.
LEMMA FirstPage ==
  ASSUME NEW f \in Nat, NEW p \in Nat, p <= f, NEW g \in {f, f + 1}, NEW q \in {p, p + 1}
  PROVE  q \in Nat /\ q <= 1 + g /\ q <= g + 1
OBVIOUS

\* One question, is_halted.
LEMMA JudgedIsStamped == ASSUME PagedIsStamped, Judges, UNCHANGED realized PROVE PagedIsStamped'
<1>1. PICK net \in -Extreme..Extreme, misread, lost \in BOOLEAN :
        /\ Read(net) /\ (misread => "garbled" \in Troubles /\ ~halted /\ stampLine = "open")
        /\ capFaults' = IF net # realized \/ misread \/ lost THEN capFaults + 1 ELSE capFaults
        /\ capFaults' <= MaxFaults
        /\ mirror' = net /\ halted' = Breached(net)
        /\ IF Breached(net) /\ ~halted /\ ~EpisodeOpen(misread) THEN Stamps("open", lost) /\ Pages
           ELSE IF ~Breached(net) /\ (halted \/ EpisodeOpen(misread))
             THEN Stamps("closed", lost) /\ UNCHANGED capPages
           ELSE lost = FALSE /\ UNCHANGED <<stampLine, capPages>>
  BY Zenon DEF Judges
<1>2. capPages \in Nat /\ capFaults \in Nat /\ capFaults \in 0..MaxFaults /\ capPages <= 1 + capFaults
  BY DEF PagedIsStamped, OnePagePerEpisode
<1>3. /\ halted' <=> Breached(mirror')
      /\ Breached(realized)' <=> Breached(realized)
  BY <1>1 DEF Breached
<1>4. Owing \in 0..1 /\ Owing' \in 0..1
  BY DEF Owing
<1>5. capFaults' \in {capFaults, capFaults + 1} /\ capFaults' \in 0..MaxFaults
  <2>1. capFaults' \in {capFaults, capFaults + 1} /\ capFaults' <= MaxFaults
    BY <1>1
  <2> QED  BY <1>2, <2>1, CapAssumption
<1>6. SUFFICES /\ capPages' \in Nat /\ capPages' <= 1 + capFaults'
               /\ Breached(realized) => capPages' <= capFaults' + Owing'
  BY <1>3, <1>5 DEF PagedIsStamped, OnePagePerEpisode
<1>7. CASE Breached(net) /\ ~halted /\ ~EpisodeOpen(misread)
  <2>1. net = realized /\ Breached(realized)
    BY <1>1, <1>7 DEF Read, PagedIsStamped
  <2>2. capPages' \in {capPages, capPages + 1}
    BY <1>1, <1>7 DEF Pages
  <2>3. capPages <= capFaults + Owing
    BY <2>1 DEF PagedIsStamped
  <2>4. CASE misread \/ lost
    <3>1. capFaults' = capFaults + 1
      BY <1>1, <2>4
    <3>2. Owing' \in {Owing, 1}
      BY <1>1, <1>7 DEF Stamps, Owing
    <3>3. capPages' \in Nat /\ capPages' <= 1 + capFaults' /\ capPages' <= capFaults' + Owing'
      BY <1>2, <1>4, <2>2, <2>3, <3>1, <3>2, FaultPays
    <3> QED  BY <3>3
  <2>5. CASE ~misread /\ ~lost
    <3>1. Owing' = 1 /\ Owing = 0
      BY <1>1, <1>7, <2>5 DEF Stamps, Owing, EpisodeOpen
    <3>2. capPages <= capFaults
      <4>1. capPages <= capFaults + 0
        BY <2>3, <3>1
      <4> QED  BY <1>2, <4>1
    <3>3. capPages' \in Nat /\ capPages' <= 1 + capFaults' /\ capPages' <= capFaults' + 1
      BY <1>2, <1>5, <2>2, <3>2, FirstPage
    <3> QED  BY <3>1, <3>3
  <2> QED  BY <2>4, <2>5
<1>8. CASE ~(Breached(net) /\ ~halted /\ ~EpisodeOpen(misread))
  <2>1. capPages' = capPages
    BY <1>1, <1>8
  <2>2. capPages' \in Nat /\ capPages' <= 1 + capFaults'
    BY <1>2, <1>4, <1>5, <2>1, FaultPays
  <2>3. ASSUME Breached(realized) PROVE capPages' <= capFaults' + Owing'
    <3>1. CASE net = realized
      <4>1. Owing' = Owing
        BY <1>1, <1>8, <2>3, <3>1 DEF Owing
      <4>2. capPages <= capFaults + Owing
        BY <2>3 DEF PagedIsStamped
      <4> QED  BY <1>2, <1>4, <1>5, <2>1, <4>1, <4>2, FaultPays
    <3>2. CASE net # realized
      <4>1. capFaults' = capFaults + 1
        BY <1>1, <3>2
      <4> QED  BY <1>2, <1>4, <2>1, <4>1, FaultPays
    <3> QED  BY <3>1, <3>2
  <2> QED  BY <2>2, <2>3
<1> QED  BY <1>7, <1>8

\* The page fires once an episode, and again only for a fault of its own: whatever restarts, an open
\* stamp that is read keeps a page from being sent, one that is not read, or not written, lets one
\* more through (is_halted, _cap_episode_open, _cap_stamp).
THEOREM PagedOnce == CapSpec => []OnePagePerEpisode
<1>1. CapInit => PagedIsStamped
  <2> SUFFICES ASSUME CapInit PROVE PagedIsStamped
    OBVIOUS
  <2>1. ~Breached(0)
    BY CapAssumption DEF Breached
  <2> QED  BY <2>1, CapAssumption DEF CapInit, PagedIsStamped, OnePagePerEpisode
<1>2. PagedIsStamped /\ [CapNext]_capVars => PagedIsStamped'
  <2> SUFFICES ASSUME PagedIsStamped, [CapNext]_capVars PROVE PagedIsStamped'
    OBVIOUS
  <2>0. /\ capPages \in Nat /\ capFaults \in 0..MaxFaults /\ capPages <= 1 + capFaults
        /\ Breached(realized) => capPages <= capFaults + Owing
        /\ halted <=> Breached(mirror)
    BY DEF PagedIsStamped, OnePagePerEpisode
  <2>1. ASSUME NEW pnl \in {-1, 1}, PositionCloses(pnl) \/ BooksQuietly(pnl) PROVE PagedIsStamped'
    <3>1. UNCHANGED <<halted, mirror, stampLine>> /\ BooksResult(pnl)
      BY <2>1 DEF PositionCloses, BooksQuietly
    <3>2. Owing' = Owing /\ Owing \in 0..1 /\ (Breached(mirror)' <=> Breached(mirror))
      BY <3>1 DEF Owing, Breached
    <3>3. \/ capPages' = 0 /\ capFaults' = 0
          \/ UNCHANGED <<capPages, capFaults>> /\ (Breached(realized') => Breached(realized))
      BY <3>1 DEF BooksResult
    <3>4. /\ capPages' \in Nat /\ capFaults' \in 0..MaxFaults /\ capPages' <= 1 + capFaults'
          /\ Breached(realized') => capPages' <= capFaults' + Owing
      <4>1. CASE capPages' = 0 /\ capFaults' = 0
        <5>1. capPages' \in Nat /\ capFaults' \in 0..MaxFaults /\ capPages' <= 1 + capFaults'
          BY <4>1, CapAssumption
        <5>2. capPages' <= capFaults' + Owing
          BY <3>2, <4>1
        <5> QED  BY <5>1, <5>2
      <4>2. CASE UNCHANGED <<capPages, capFaults>> /\ (Breached(realized') => Breached(realized))
        BY <2>0, <4>2, Zenon
      <4> QED  BY <3>3, <4>1, <4>2
    <3>5. Breached(realized') <=> Breached(realized)'
      BY DEF Breached
    <3>6. halted' <=> Breached(mirror)'
      BY <2>0, <3>1, <3>2
    <3> QED  BY <3>2, <3>4, <3>5, <3>6 DEF PagedIsStamped, OnePagePerEpisode
  <2>2. CASE RecordLoss
    BY <2>2, JudgedIsStamped DEF RecordLoss
  <2>3. CASE EntryAsks
    BY <2>3, JudgedIsStamped DEF EntryAsks
  <2>4. ASSUME UNCHANGED <<realized, stampLine, capPages, capFaults>>, halted' <=> Breached(mirror')
        PROVE  PagedIsStamped'
    <3>1. Owing' = Owing /\ (Breached(realized)' <=> Breached(realized)) /\ (Breached(mirror)' <=> Breached(mirror'))
      BY <2>4 DEF Owing, Breached
    <3> QED  BY <2>0, <2>4, <3>1 DEF PagedIsStamped, OnePagePerEpisode
  <2>5. CASE SessionReset
    BY <2>4, <2>5 DEF SessionReset
  <2>6. CASE BotCrashes
    <3>1. ~Breached(0)
      BY CapAssumption DEF Breached
    <3> QED  BY <2>4, <2>6, <3>1 DEF BotCrashes
  <2>7. CASE BotRestarts \/ UNCHANGED capVars
    <3>1. UNCHANGED <<realized, stampLine, capPages, capFaults, halted, mirror>>
      BY <2>7 DEF BotRestarts, capVars
    <3>2. halted' <=> Breached(mirror')
      BY <2>0, <3>1 DEF Breached
    <3> QED  BY <2>4, <3>1, <3>2
  <2> QED  BY <2>1, <2>2, <2>3, <2>5, <2>6, <2>7 DEF CapNext
<1>3. PagedIsStamped => OnePagePerEpisode
  BY DEF PagedIsStamped
<1> QED  BY <1>1, <1>2, <1>3, PTL DEF CapSpec

\* Pages are bounded as the faults are.
LEMMA PagesBounded ==
  ASSUME NEW m \in Nat, NEW f \in 0..m, NEW p \in Nat, p <= 1 + f
  PROVE  p \in 0..(m + 1)
OBVIOUS

\* The counts of the loss cap stay in their ranges.
LEMMA CapIsTyped == CapSpec => []CapTypeOK
<1>1. CapInit => CapTypeOK
  <2>1. 0 \in -Extreme..Extreme /\ 0 \in 0..MaxFaults /\ 0 \in 0..(MaxFaults + 1)
    BY CapAssumption
  <2> QED  BY <2>1 DEF CapInit, CapTypeOK
<1>2. CapTypeOK /\ OnePagePerEpisode' /\ [CapNext]_capVars => CapTypeOK'
  <2> SUFFICES ASSUME CapTypeOK, OnePagePerEpisode', [CapNext]_capVars PROVE CapTypeOK'
    OBVIOUS
  <2> USE DEF CapTypeOK
  <2>0. 0 \in -Extreme..Extreme /\ 0 \in 0..MaxFaults /\ 0 \in 0..(MaxFaults + 1)
    BY CapAssumption
  <2>b. \A n : Breached(n) \in BOOLEAN
    BY DEF Breached
  <2>1. ASSUME NEW pnl \in {-1, 1}, PositionCloses(pnl) \/ BooksQuietly(pnl) PROVE CapTypeOK'
    <3>1. BooksResult(pnl)
      BY <2>1 DEF PositionCloses, BooksQuietly
    <3>2. realized' \in -Extreme..Extreme
      BY <3>1 DEF BooksResult
    <3>3. (capPages' = 0 /\ capFaults' = 0) \/ UNCHANGED <<capPages, capFaults>>
      BY <3>1 DEF BooksResult
    <3>4. capPages' \in 0..(MaxFaults + 1) /\ capFaults' \in 0..MaxFaults
      BY <2>0, <3>3
    <3>5. untold' = (pnl < 0) \/ untold' = untold
      BY <2>1 DEF PositionCloses, BooksQuietly
    <3>6. (pnl < 0) \in BOOLEAN
      OBVIOUS
    <3>7. untold' \in BOOLEAN
      BY <3>5, <3>6
    <3> QED  BY <2>1, <3>2, <3>4, <3>7 DEF PositionCloses, BooksQuietly
  <2>2. ASSUME Judges
        PROVE  /\ mirror' \in -Extreme..Extreme /\ halted' \in BOOLEAN /\ capFaults' \in 0..MaxFaults
               /\ stampLine' \in {"none", "open", "closed"} /\ capPages' \in 0..(MaxFaults + 1)
    <3>1. PICK net \in -Extreme..Extreme, lost \in BOOLEAN :
            /\ capFaults' \in {capFaults, capFaults + 1} /\ capFaults' <= MaxFaults
            /\ mirror' = net /\ halted' = Breached(net)
            /\ \/ Stamps("open", lost) /\ Pages
               \/ Stamps("closed", lost) /\ UNCHANGED capPages
               \/ UNCHANGED <<stampLine, capPages>>
      BY <2>2 DEF Judges
    <3>2. stampLine' \in {"none", "open", "closed"}
      BY <3>1 DEF Stamps
    <3>3. capPages' \in {capPages, capPages + 1}
      BY <3>1 DEF Pages
    <3>4. halted' \in BOOLEAN
      BY <3>1, <2>b
    <3>5. capFaults' \in 0..MaxFaults
      BY <3>1, CapAssumption
    <3>6. capPages' <= 1 + capFaults'
      BY DEF OnePagePerEpisode
    <3>7. capPages' \in 0..(MaxFaults + 1)
      <4>1. capPages \in Nat /\ MaxFaults \in Nat
        BY CapAssumption
      <4> HIDE DEF CapTypeOK
      <4>2. capPages' \in Nat
        BY <3>3, <4>1
      <4> QED  BY <3>5, <3>6, <4>1, <4>2, PagesBounded
    <3> QED  BY <3>1, <3>2, <3>4, <3>5, <3>7
  <2>3. CASE RecordLoss \/ EntryAsks
    BY <2>2, <2>3 DEF RecordLoss, EntryAsks
  <2>4. CASE SessionReset
    <3>1. PICK net \in -Extreme..Extreme :
            mirror' = net /\ halted' = Breached(net)
      BY <2>4 DEF SessionReset
    <3>2. halted' \in BOOLEAN
      BY <3>1, <2>b
    <3> QED  BY <2>4, <3>1, <3>2 DEF SessionReset
  <2>5. CASE BotCrashes
    BY <2>5, <2>0 DEF BotCrashes
  <2>6. CASE BotRestarts
    BY <2>6 DEF BotRestarts
  <2>7. CASE UNCHANGED capVars
    BY <2>7 DEF capVars
  <2> QED  BY <2>1, <2>3, <2>4, <2>5, <2>6, <2>7 DEF CapNext
<1> QED  BY <1>1, <1>2, PagedOnce, PTL DEF CapSpec

(***************************************************************************)
(* The position manager's list.                                            *)
(***************************************************************************)
\* The rows are a table, offers are of the types that are entered by offer, nothing is dropped.
BookStands ==
    /\ rowOf \in [DayTrades -> {"none", "open", "closed"}] /\ offered \subseteq OfferTypes
    /\ NothingDropped

\* A list that misses an open row of the loop's own entries would be read again, and is not:
\* nothing of it is missing.
LEMMA HydratedKeeps ==
    ASSUME BookStands, NEW t \in OpenTrades, t.type \notin OfferTypes
    PROVE  t \in managed /\ t \in Hydrated
BY DEF BookStands, NothingDropped, Hydrated, Reloaded

\* Records leave the list only with their rows (_execute_exit and the list after it).
LEMMA ClosingDropsNothing ==
    ASSUME BookStands, NEW T, BooksClosed(T),
           NEW L, \A t \in OpenTrades : t.type \notin OfferTypes => t \in L, L \ T \subseteq managed'
    PROVE  BookStands'
<1>1. rowOf' \in [DayTrades -> {"none", "open", "closed"}] /\ offered' \subseteq OfferTypes
  BY DEF BookStands, BooksClosed, RowsAre
<1>2. \A t \in OpenTrades' : t \in OpenTrades /\ t \notin T
  BY DEF BookStands, BooksClosed, RowsAre, OpenTrades
<1> QED  BY <1>1, <1>2 DEF BookStands, NothingDropped

\* Nothing open is dropped from management: the entry appends, the close takes a record with its
\* row, and what the list is replaced by are the rows themselves.
THEOREM NothingIsDropped == DaySpec => []NothingDropped
<1>1. DayInit => BookStands
  <2> SUFFICES ASSUME DayInit PROVE BookStands
    OBVIOUS
  <2> QED  BY DEF DayInit, BookStands, NothingDropped, OpenTrades
<1>2. BookStands /\ [DayNext]_dayVars => BookStands'
  <2> SUFFICES ASSUME BookStands, [DayNext]_dayVars PROVE BookStands'
    OBVIOUS
  <2>h. \A t \in OpenTrades : t.type \notin OfferTypes => t \in managed /\ t \in Hydrated
    BY HydratedKeeps
  <2>1. CASE NothingGone \/ TickCutShort \/ ClockMoves \/ UNCHANGED dayVars
    BY <2>1 DEF NothingGone, TickCutShort, ClockMoves, dayVars, BookStands, NothingDropped, OpenTrades
  <2>2. CASE RowsReconciled
    BY <2>2 DEF RowsReconciled, RowsAre, BookStands, NothingDropped, OpenTrades
  <2>3. CASE LongAdopted
    BY <2>3 DEF LongAdopted, BookStands, NothingDropped, OpenTrades, NoTrade
  <2>4. CASE OffersSupervised
    BY <2>4 DEF OffersSupervised, BookStands, NothingDropped, OpenTrades, NoTrade
  <2>5. CASE ManagePass \/ ManageRaises
    <3>1. PICK done \in SUBSET Hydrated : BooksClosed(done) /\ Hydrated \ done \subseteq managed'
      BY <2>5 DEF ManagePass, ManageRaises
    <3> QED  BY <3>1, <2>h, ClosingDropsNothing
  <2>6. CASE EntryPass
    <3>1. PICK new \in SUBSET NoTrade : rowOf' = RowsAre(new, "open") /\ managed' = managed \cup new
      BY <2>6 DEF EntryPass, Keeps
    <3>2. offered' \subseteq OfferTypes
      BY <2>6 DEF EntryPass, BookStands
    <3> QED  BY <3>1, <3>2 DEF RowsAre, BookStands, NothingDropped, OpenTrades
  <2>7. CASE HardClose \/ HeldPassRaises
    <3>1. PICK flat \in SUBSET DueNow(Hydrated) :
            LET again == Reloaded(Hydrated \ flat, flat)
            IN \E done \in SUBSET again :
                 BooksClosed(flat \cup done) /\ again \ done \subseteq managed'
      BY <2>7 DEF HardClose, HeldPassRaises
    <3> DEFINE again == Reloaded(Hydrated \ flat, flat)
    <3>2. PICK done \in SUBSET again : BooksClosed(flat \cup done) /\ again \ done \subseteq managed'
      BY <3>1
    <3>3. \A t \in OpenTrades : t.type \notin OfferTypes => t \in again \cup flat
      BY <2>h DEF Reloaded
    <3>4. (again \cup flat) \ (flat \cup done) \subseteq managed'
      BY <3>2
    <3> QED  BY <3>2, <3>3, <3>4, ClosingDropsNothing
  <2>8. CASE HardCloseRaises
    <3>1. PICK flat : BooksClosed(flat) /\ Hydrated \ flat \subseteq managed'
      BY <2>8 DEF HardCloseRaises
    <3> QED  BY <3>1, <2>h, ClosingDropsNothing
  <2>9. CASE BootRecovers
    BY <2>9 DEF BootRecovers, BookStands, NothingDropped, OpenTrades
  <2> QED
    BY <2>1, <2>2, <2>3, <2>4, <2>5, <2>6, <2>7, <2>8, <2>9 DEF DayNext
<1>3. BookStands => NothingDropped
  BY DEF BookStands
<1> QED  BY <1>1, <1>2, <1>3, PTL DEF DaySpec

\* What is managed is open, and only what is closed has been booked, once.
NoGhosts ==
    /\ rowOf \in [DayTrades -> {"none", "open", "closed"}] /\ closes \in [DayTrades -> {0, 1}]
    /\ managed \subseteq OpenTrades
    /\ \A t \in DayTrades : rowOf[t] # "closed" => closes[t] = 0

\* A pass that closes open trades and drops their records leaves no ghost.
LEMMA ClosingLeavesNoGhost ==
    ASSUME NoGhosts, NEW T \in SUBSET OpenTrades, BooksClosed(T), managed' \subseteq OpenTrades \ T
    PROVE  NoGhosts'
<1>1. \A t \in T : t \in DayTrades /\ closes[t] = 0
  BY DEF NoGhosts, OpenTrades
<1>2. /\ rowOf' = [t \in DayTrades |-> IF t \in T THEN "closed" ELSE rowOf[t]]
      /\ closes' = [t \in DayTrades |-> IF t \in T THEN closes[t] + 1 ELSE closes[t]]
  BY DEF BooksClosed, RowsAre
<1>3. closes' \in [DayTrades -> {0, 1}]
  BY <1>1, <1>2 DEF NoGhosts
<1>4. rowOf' \in [DayTrades -> {"none", "open", "closed"}]
  BY <1>2 DEF NoGhosts
<1>5. managed' \subseteq OpenTrades'
  BY <1>2 DEF OpenTrades
<1>6. \A t \in DayTrades : rowOf'[t] # "closed" => closes'[t] = 0
  BY <1>2 DEF NoGhosts
<1> QED  BY <1>3, <1>4, <1>5, <1>6 DEF NoGhosts

\* No "second close against the same position" where no record's management raises, whatever the
\* reconciles, the restarts and the exceptions of flatten_all: the second booking that the run
\* pass_raises finds needs an exception in manage_open_position.
THEOREM ClosedOnceUnlessRaised ==
    ASSUME "raise" \notin Shocks
    PROVE  DaySpec => []ClosedOnce
<1>1. DayInit => NoGhosts
  <2> SUFFICES ASSUME DayInit PROVE NoGhosts
    OBVIOUS
  <2> QED  BY DEF DayInit, NoGhosts
<1>2. NoGhosts /\ [DayNext]_dayVars => NoGhosts'
  <2> SUFFICES ASSUME NoGhosts, [DayNext]_dayVars PROVE NoGhosts'
    OBVIOUS
  <2>h. Hydrated \subseteq OpenTrades
    BY DEF Hydrated, Reloaded, NoGhosts
  <2>1. CASE NothingGone \/ TickCutShort \/ ClockMoves \/ UNCHANGED dayVars
    BY <2>1 DEF NothingGone, TickCutShort, ClockMoves, dayVars, NoGhosts, OpenTrades
  <2>2. CASE RowsReconciled
    BY <2>2 DEF RowsReconciled, RowsAre, NoGhosts, OpenTrades
  <2>3. CASE LongAdopted
    BY <2>3 DEF LongAdopted, NoGhosts, OpenTrades, NoTrade
  <2>4. CASE OffersSupervised
    BY <2>4 DEF OffersSupervised, NoGhosts, OpenTrades, NoTrade
  <2>5. CASE ManagePass
    <3>1. PICK done \in SUBSET Hydrated : BooksClosed(done) /\ managed' = Hydrated \ done
      BY <2>5 DEF ManagePass
    <3> QED  BY <3>1, <2>h, ClosingLeavesNoGhost
  <2>6. CASE ManageRaises \/ HeldPassRaises
    BY <2>6 DEF ManageRaises, HeldPassRaises, Shock
  <2>7. CASE EntryPass
    <3>1. PICK new \in SUBSET NoTrade : rowOf' = RowsAre(new, "open") /\ managed' = managed \cup new
      BY <2>7 DEF EntryPass, Keeps
    <3>2. closes' = closes
      BY <2>7 DEF EntryPass
    <3> QED  BY <3>1, <3>2 DEF RowsAre, NoGhosts, OpenTrades, NoTrade
  <2>8. CASE HardClose
    <3>1. PICK flat \in SUBSET DueNow(Hydrated) :
            LET again == Reloaded(Hydrated \ flat, flat)
            IN \E done \in SUBSET again : BooksClosed(flat \cup done) /\ managed' = again \ done
      BY <2>8 DEF HardClose
    <3> DEFINE again == Reloaded(Hydrated \ flat, flat)
    <3>2. PICK done \in SUBSET again : BooksClosed(flat \cup done) /\ managed' = again \ done
      BY <3>1
    <3>3. flat \subseteq OpenTrades /\ again \subseteq OpenTrades \ flat
      BY <2>h DEF DueNow, Reloaded
    <3>4. flat \cup done \in SUBSET OpenTrades /\ managed' \subseteq OpenTrades \ (flat \cup done)
      BY <3>2, <3>3
    <3> QED  BY <3>2, <3>4, ClosingLeavesNoGhost
  <2>9. CASE HardCloseRaises
    <3>1. PICK flat \in SUBSET DueNow(Hydrated) : BooksClosed(flat) /\ managed' = Hydrated \ flat
      BY <2>9 DEF HardCloseRaises
    <3>2. flat \subseteq OpenTrades
      BY <2>h DEF DueNow
    <3> QED  BY <3>1, <3>2, <2>h, ClosingLeavesNoGhost
  <2>10. CASE BootRecovers
    BY <2>10 DEF BootRecovers, NoGhosts, OpenTrades
  <2> QED
    BY <2>1, <2>2, <2>3, <2>4, <2>5, <2>6, <2>7, <2>8, <2>9, <2>10 DEF DayNext
<1>3. NoGhosts => ClosedOnce
  BY DEF NoGhosts, ClosedOnce
<1> QED  BY <1>1, <1>2, <1>3, PTL DEF DaySpec

\* Entries, the supervisor and the manager run only in the trading hours: later a tick goes from the
\* reconcile to the hard close.
EveningSteps == hour # "trading" => step \in {"reconcile", "flatten"}

LEMMA DayTypesHold == DaySpec => [](DayTypeOK /\ EveningSteps)
<1>1. DayInit => DayTypeOK /\ EveningSteps
  BY DayAssumption DEF DayInit, DayTypeOK, EveningSteps
<1>2. DayTypeOK /\ EveningSteps /\ [DayNext]_dayVars => DayTypeOK' /\ EveningSteps'
  <2> SUFFICES ASSUME DayTypeOK, EveningSteps, [DayNext]_dayVars
               PROVE  DayTypeOK' /\ EveningSteps'
    OBVIOUS
  <2> USE DEF DayTypeOK, EveningSteps, Goes
  <2>o. OpenTrades \subseteq DayTrades /\ NoTrade \subseteq DayTrades /\ Hydrated \subseteq DayTrades
    BY DEF OpenTrades, NoTrade, Hydrated, Reloaded
  <2>s. ASSUME NEW s, Shock(s) PROVE shocks' \in 0..MaxShocks
    BY <2>s, DayAssumption DEF Shock
  <2>r. \A T : RowsAre(T, "open") \in [DayTrades -> {"none", "open", "closed"}]
               /\ RowsAre(T, "closed") \in [DayTrades -> {"none", "open", "closed"}]
    BY DEF RowsAre
  <2>b. ASSUME NEW T, BooksClosed(T)
        PROVE  /\ rowOf' \in [DayTrades -> {"none", "open", "closed"}]
               /\ closes' \in [DayTrades -> Nat] /\ offered' \in SUBSET OfferTypes
    <3>1. closes' \in [DayTrades -> Nat]
      BY <2>b DEF BooksClosed
    <3> QED  BY <2>b, <2>r, <3>1 DEF BooksClosed
  <2>a. AfterReconcile \in {"offers", "flatten"} /\ (hour # "trading" => AfterReconcile = "flatten")
    BY DEF AfterReconcile
  <2>1. CASE NothingGone \/ TickCutShort \/ UNCHANGED dayVars
    BY <2>1, <2>a DEF NothingGone, TickCutShort, dayVars
  <2>2. CASE ClockMoves
    BY <2>2 DEF ClockMoves, Later
  <2>3. CASE RowsReconciled
    BY <2>3, <2>a, <2>o, <2>r, <2>s DEF RowsReconciled
  <2>4. CASE LongAdopted
    <3>1. managed' \in SUBSET DayTrades /\ rowOf' \in [DayTrades -> {"none", "open", "closed"}]
      BY <2>4, <2>o DEF LongAdopted
    <3>2. shocks' \in 0..MaxShocks
      BY <2>4, <2>s DEF LongAdopted
    <3> QED  BY <2>4, <2>a, <3>1, <3>2 DEF LongAdopted
  <2>5. CASE OffersSupervised
    <3>1. /\ step' = "manage" /\ hour' = hour /\ hour = "trading"
          /\ UNCHANGED <<managed, closes, shocks>>
      BY <2>5 DEF OffersSupervised
    <3>2. offered' \in SUBSET OfferTypes /\ rowOf' \in [DayTrades -> {"none", "open", "closed"}]
      BY <2>5 DEF OffersSupervised
    <3> QED  BY <3>1, <3>2
  <2>6. CASE ManagePass
    <3>1. PICK done \in SUBSET Hydrated : BooksClosed(done) /\ managed' = Hydrated \ done
      BY <2>6 DEF ManagePass
    <3> QED  BY <2>6, <3>1, <2>b, <2>o DEF ManagePass
  <2>7. CASE ManageRaises
    <3>1. PICK done \in SUBSET Hydrated : BooksClosed(done) /\ managed' = Hydrated
      BY <2>7 DEF ManageRaises
    <3> QED  BY <2>7, <3>1, <2>b, <2>o, <2>s DEF ManageRaises
  <2>8. CASE EntryPass
    <3>1. PICK new \in SUBSET NoTrade : rowOf' = RowsAre(new, "open") /\ managed' = managed \cup new
      BY <2>8 DEF EntryPass, Keeps
    <3>2. offered' \in SUBSET OfferTypes
      BY <2>8 DEF EntryPass
    <3> QED  BY <2>8, <3>1, <3>2, <2>o, <2>r DEF EntryPass
  <2>9. CASE HardClose \/ HeldPassRaises
    <3>1. PICK flat \in SUBSET DueNow(Hydrated) :
            LET again == Reloaded(Hydrated \ flat, flat)
            IN \E done \in SUBSET again :
                 BooksClosed(flat \cup done) /\ managed' \in {again \ done, again}
      BY <2>9 DEF HardClose, HeldPassRaises
    <3>2. managed' \subseteq DayTrades /\ (\E T : BooksClosed(T))
      BY <3>1, <2>o DEF Reloaded
    <3>3. shocks' \in 0..MaxShocks
      BY <2>9, <2>s DEF HardClose, HeldPassRaises
    <3> QED  BY <2>9, <3>2, <3>3, <2>b DEF HardClose, HeldPassRaises
  <2>10. CASE HardCloseRaises
    <3>1. PICK flat : BooksClosed(flat) /\ managed' = Hydrated \ flat
      BY <2>10 DEF HardCloseRaises
    <3> QED  BY <2>10, <3>1, <2>b, <2>o, <2>s DEF HardCloseRaises
  <2>11. CASE BootRecovers
    BY <2>11, <2>o, <2>s DEF BootRecovers
  <2> QED
    BY <2>1, <2>2, <2>3, <2>4, <2>5, <2>6, <2>7, <2>8, <2>9, <2>10, <2>11 DEF DayNext
<1> QED  BY <1>1, <1>2, PTL DEF DaySpec

\* What a pass that closes T leaves open.
LEMMA ClosedLeaves == ASSUME NEW T, BooksClosed(T) PROVE OpenTrades' = OpenTrades \ T
  BY DEF BooksClosed, RowsAre, OpenTrades

\* After the trading hours nothing is entered, by the loop or by an offer: a row is opened only by
\* the assignment that closes another, so the book never grows, and no hour comes back.
THEOREM EveningOnlyShrinks == DaySpec => BookOnlyShrinks
<1> DEFINE Shrinks ==
      hour # "trading" =>
         /\ hour' # "trading" /\ (hour = "ladder" => hour' = "ladder")
         /\ OpenTrades' \subseteq OpenTrades \/ shocks' > shocks
         /\ Cardinality(OpenTrades') <= Cardinality(OpenTrades)
         /\ \A t \in DayTrades : rowOf[t] = "closed" => rowOf'[t] = "closed"
<1>1. DayTypeOK /\ EveningSteps /\ [DayNext]_dayVars => [Shrinks]_dayVars
  <2> SUFFICES ASSUME DayTypeOK, EveningSteps, DayNext, hour # "trading" PROVE Shrinks
    OBVIOUS
  <2>f. IsFiniteSet(OpenTrades) /\ Cardinality(OpenTrades) \in Nat
    BY DayAssumption, FS_Subset, FS_CardinalityType DEF OpenTrades
  <2>h. hour \in {"hold", "short", "ladder"} /\ step \in {"reconcile", "flatten"}
    BY DEF DayTypeOK, EveningSteps
  <2>1. ASSUME OpenTrades' \subseteq OpenTrades, hour' = hour,
               \A t \in DayTrades : rowOf[t] = "closed" => rowOf'[t] = "closed"
        PROVE  Shrinks
    BY <2>1, <2>f, FS_Subset
  <2>2. ASSUME UNCHANGED <<rowOf, hour>> PROVE Shrinks
    BY <2>2, <2>1 DEF OpenTrades
  <2>3. ASSUME NEW T, BooksClosed(T), hour' = hour PROVE Shrinks
    <3>1. OpenTrades' \subseteq OpenTrades
      BY <2>3, ClosedLeaves
    <3>2. \A t \in DayTrades : rowOf[t] = "closed" => rowOf'[t] = "closed"
      BY <2>3 DEF BooksClosed, RowsAre
    <3> QED  BY <2>3, <3>1, <3>2, <2>1
  <2>4. CASE NothingGone \/ TickCutShort \/ BootRecovers
    BY <2>4, <2>2 DEF NothingGone, TickCutShort, BootRecovers, Goes
  <2>5. CASE RowsReconciled
    <3>1. PICK gone : rowOf' = RowsAre(gone, "closed")
      BY <2>5 DEF RowsReconciled
    <3>2. OpenTrades' \subseteq OpenTrades
      BY <3>1 DEF OpenTrades, RowsAre
    <3>3. \A t \in DayTrades : rowOf[t] = "closed" => rowOf'[t] = "closed"
      BY <3>1 DEF RowsAre
    <3> QED  BY <2>5, <3>2, <3>3, <2>1 DEF RowsReconciled, Goes
  <2>6. CASE LongAdopted
    <3>1. PICK t \in OpenTrades, long \in NoTrade :
             rowOf' = [rowOf EXCEPT ![t] = "closed", ![long] = "open"]
      BY <2>6 DEF LongAdopted
    <3>2. /\ t \in DayTrades /\ long \in DayTrades /\ rowOf[t] = "open" /\ rowOf[long] = "none"
          /\ DOMAIN rowOf = DayTrades
      BY <3>1 DEF OpenTrades, NoTrade, DayTypeOK
    <3>3. OpenTrades' = (OpenTrades \ {t}) \cup {long}
      BY <3>1, <3>2 DEF OpenTrades
    <3>4. Cardinality(OpenTrades') = Cardinality(OpenTrades)
      <4>1. /\ IsFiniteSet(OpenTrades \ {t})
            /\ Cardinality(OpenTrades \ {t}) = Cardinality(OpenTrades) - 1
        BY <3>1, <2>f, FS_RemoveElement
      <4>2. long \notin OpenTrades \ {t}
        BY <3>2 DEF OpenTrades
      <4>3. Cardinality((OpenTrades \ {t}) \cup {long}) = Cardinality(OpenTrades \ {t}) + 1
        BY <4>1, <4>2, FS_AddElement
      <4> QED  BY <3>3, <4>1, <4>3, <2>f
    <3>5. \A u \in DayTrades : rowOf[u] = "closed" => rowOf'[u] = "closed"
      BY <3>1, <3>2
    <3>6. shocks' = shocks + 1 /\ hour' = hour /\ shocks \in Nat
      BY <2>6, DayAssumption DEF LongAdopted, Shock, Goes, DayTypeOK
    <3> QED  BY <3>4, <3>5, <3>6, <2>f, <2>h
  <2>7. CASE HardClose \/ HardCloseRaises \/ HeldPassRaises
    <3>1. (\E T : BooksClosed(T)) /\ hour' = hour
      BY <2>7 DEF HardClose, HardCloseRaises, HeldPassRaises, Goes
    <3> QED  BY <3>1, <2>3
  <2>8. CASE ClockMoves
    <3>1. UNCHANGED rowOf /\ hour' \in {"short", "ladder"} /\ hour # "ladder"
      BY <2>8, <2>h DEF ClockMoves, Later
    <3>2. OpenTrades' = OpenTrades
      BY <3>1 DEF OpenTrades
    <3> QED  BY <3>1, <3>2, <2>f
  <2> QED
    BY <2>h, <2>4, <2>5, <2>6, <2>7, <2>8
    DEF DayNext, OffersSupervised, ManagePass, ManageRaises, EntryPass
<1> QED  BY <1>1, DayTypesHold, PTL DEF DaySpec, BookOnlyShrinks

\* "Force-close every open position", the rows that were never under management among them: what
\* two hard closes in which everything is confirmed come to, through reconciles, assignments,
\* records that raise and restarts between them.
THEOREM TwoSweepsAreEnough == DaySpec => TwoSweepsFlatten
<1> DEFINE Flatten ==
      hour = "ladder" =>
         /\ managed = OpenTrades => managed' = OpenTrades'
         /\ CleanSweep => managed' = OpenTrades'
         /\ CleanSweep /\ managed = OpenTrades => OpenTrades' = {}
<1>1. DayTypeOK /\ EveningSteps /\ [DayNext]_dayVars => [Flatten]_dayVars
  <2> SUFFICES ASSUME DayTypeOK, EveningSteps, DayNext, hour = "ladder" PROVE Flatten
    OBVIOUS
  <2>h. step \in {"reconcile", "flatten"}
    BY DEF EveningSteps
  <2>d. DueNow(Hydrated) = Hydrated
    BY DEF DueNow
  <2>n. ASSUME ~HardClose, managed = OpenTrades => managed' = OpenTrades' PROVE Flatten
    BY <2>n DEF CleanSweep
  <2>1. CASE HardClose
    <3>1. PICK flat \in SUBSET Hydrated :
            LET again == Reloaded(Hydrated \ flat, flat)
            IN \E done \in SUBSET again :
                 /\ done = {} /\ BooksClosed(flat \cup done) /\ managed' = again \ done
      BY <2>1, <2>d DEF HardClose
    <3>2. managed' = Reloaded(Hydrated \ flat, flat) /\ OpenTrades' = OpenTrades \ flat
      BY <3>1, ClosedLeaves
    <3>3. ASSUME Hydrated = OpenTrades PROVE managed' = OpenTrades'
      BY <3>2, <3>3 DEF Reloaded
    <3>4. ASSUME Hydrated \cap managed' = {} PROVE flat = Hydrated /\ managed' = OpenTrades'
      BY <3>1, <3>2, <3>4 DEF Reloaded
    <3>5. managed = OpenTrades => Hydrated = OpenTrades
      BY DEF Hydrated, Reloaded
    <3> QED  BY <3>2, <3>3, <3>4, <3>5 DEF CleanSweep
  <2>2. ASSUME UNCHANGED <<rowOf, managed>>, ~HardClose PROVE Flatten
    BY <2>2, <2>n DEF OpenTrades
  <2>3. ASSUME managed' = OpenTrades', ~HardClose PROVE Flatten
    BY <2>3, <2>n
  <2>4. CASE ~HardClose
    <3>1. CASE NothingGone \/ TickCutShort
      BY <3>1, <2>2, <2>4 DEF NothingGone, TickCutShort
    <3>2. CASE RowsReconciled
      <4>1. PICK gone \in SUBSET OpenTrades :
               rowOf' = RowsAre(gone, "closed") /\ managed' = OpenTrades \ gone
        BY <3>2 DEF RowsReconciled
      <4>2. OpenTrades' = OpenTrades \ gone
        BY <4>1 DEF OpenTrades, RowsAre
      <4> QED  BY <4>1, <4>2, <2>3, <2>4
    <3>3. CASE LongAdopted
      <4>1. PICK t \in OpenTrades, long \in NoTrade :
               /\ rowOf' = [rowOf EXCEPT ![t] = "closed", ![long] = "open"]
               /\ managed' = (OpenTrades \ {t}) \cup {long}
        BY <3>3 DEF LongAdopted
      <4>2. /\ t \in DayTrades /\ long \in DayTrades /\ rowOf[t] = "open" /\ rowOf[long] = "none"
            /\ DOMAIN rowOf = DayTrades
        BY <4>1 DEF OpenTrades, NoTrade, DayTypeOK
      <4>3. OpenTrades' = (OpenTrades \ {t}) \cup {long}
        BY <4>1, <4>2 DEF OpenTrades
      <4> QED  BY <4>1, <4>3, <2>3, <2>4
    <3>4. CASE HardCloseRaises
      <4>1. PICK flat \in SUBSET Hydrated : BooksClosed(flat) /\ managed' = Hydrated \ flat
        BY <3>4, <2>d DEF HardCloseRaises
      <4>2. managed = OpenTrades => managed' = OpenTrades'
        BY <4>1, ClosedLeaves DEF Hydrated, Reloaded
      <4> QED  BY <4>2, <2>n, <2>4
    <3>5. CASE BootRecovers
      BY <3>5, <2>3, <2>4 DEF BootRecovers, OpenTrades
    <3> QED
      BY <2>h, <2>4, <3>1, <3>2, <3>3, <3>4, <3>5
      DEF DayNext, OffersSupervised, ManagePass, ManageRaises, EntryPass, HeldPassRaises, ClockMoves
  <2> QED  BY <2>1, <2>4
<1> QED  BY <1>1, DayTypesHold, PTL DEF DaySpec, TwoSweepsFlatten

(***************************************************************************)
(* The blindness latch.                                                    *)
(***************************************************************************)
\* Every tick of the trading window reads the trigger frame, so that while it cannot be read since
\* the page the next tick is handed a record of it.
DarkIsOnRecord ==
    /\ BlindTypeOK
    /\ fetched["1m"] < poll /\ blindSince <= poll /\ dark <= poll
    /\ window = "trading" /\ ~cleared => ~Readable(sight) /\ record # Clear

LEMMA LatchSteps ==
  ASSUME BlindTypeOK, Sees \/ IsBlind, poll \in 0..LastPoll
  PROVE  /\ blindTicks' \in Nat /\ blindSince' \in 0..LastPoll \cup {NoRead}
         /\ snapshot' \in Blinders \cup {Clear} /\ alerted' \in BOOLEAN
         /\ said' \in {"none", "ALERT", "RECOVERED"}
         /\ (blindSince' = NoRead) = (blindTicks' = 0) /\ (blindTicks' = 0) = (snapshot' = Clear)
<1>1. CASE Sees
  BY <1>1 DEF Sees, Reset
<1>2. CASE IsBlind
  <2>1. /\ blindTicks' \in Nat \ {0} /\ blindSince' \in 0..LastPoll
        /\ snapshot' \in Blinders \cup {Clear} /\ snapshot' # Clear
    BY <1>2 DEF IsBlind, BlindTypeOK, NoRead
  <2>2. alerted' \in BOOLEAN /\ said' \in {"none", "ALERT", "RECOVERED"}
    BY <1>2 DEF IsBlind, BlindTypeOK
  <2> QED  BY <2>1, <2>2 DEF NoRead
<1> QED  BY <1>1, <1>2

LEMMA ReadingIsNoted ==
  ASSUME DarkIsOnRecord, Looks
  PROVE  /\ fetched' \in [Frames -> 0..LastPoll \cup {NoRead}] /\ record' \in Blinders \cup {Clear}
         /\ fetched'["1m"] <= poll
         /\ window = "trading" /\ ~Readable(sight) => record' # Clear
<1> USE DEF DarkIsOnRecord, BlindTypeOK, Frames
<1>1. CASE window = "trading" \/ exposed
  <2>1. Reads
    BY <1>1 DEF Looks
  <2>2. fetched' \in [Frames -> 0..LastPoll \cup {NoRead}] /\ fetched'["1m"] <= poll
    <3>1. poll \in 0..LastPoll /\ poll <= poll /\ fetched["1m"] <= poll
      BY DEF NoRead
    <3>2. fetched' = [f \in Frames |-> IF Due(f) /\ ~Refused(f) THEN poll ELSE fetched[f]]
      BY <2>1 DEF Reads
    <3> QED  BY <3>1, <3>2
  <2>3. record' \in Blinders \cup {Clear}
    BY <2>1 DEF Reads
  <2>4. ASSUME ~Readable(sight) PROVE record' # Clear
    <3>1. Due("1m")
      BY DEF Due, Age, NoRead
    <3>2. Refused("1m") \/ Old("1m")
      BY <2>4 DEF Readable, Refused, Old
    <3>3. record' = sight
      BY <2>1, <3>1, <3>2 DEF Reads
    <3> QED  BY <3>3, <2>4 DEF Readable, Clear
  <2> QED  BY <2>2, <2>3, <2>4
<1>2. CASE ~(window = "trading" \/ exposed)
  BY <1>2 DEF Looks, NoRead
<1> QED  BY <1>1, <1>2

LEMMA TickIsOnRecord == ASSUME DarkIsOnRecord, Tick PROVE DarkIsOnRecord'
<1>1. PICK d \in 1..MaxTick : poll + d <= LastPoll /\ poll' = poll + d
  BY DEF Tick
<1>2. poll' \in 0..LastPoll /\ poll < poll'
  BY <1>1, TickAssumption DEF DarkIsOnRecord, BlindTypeOK
<1>3. Looks /\ (Sees \/ IsBlind) /\ UNCHANGED <<sight, dark, window, exposed>>
  BY DEF Tick
<1>4. cleared' = (IF said' = "ALERT" THEN Readable(sight) ELSE cleared)
  BY DEF Tick
<1>5. cleared' \in BOOLEAN
  BY <1>4 DEF DarkIsOnRecord, BlindTypeOK, Readable
<1>6. BlindTypeOK'
  BY <1>2, <1>3, <1>5, LatchSteps, ReadingIsNoted DEF DarkIsOnRecord, BlindTypeOK
<1>7. fetched'["1m"] < poll'
  <2>1. fetched'["1m"] <= poll
    BY <1>3, ReadingIsNoted
  <2>2. fetched'["1m"] \in Int /\ poll \in Int
    BY <1>6 DEF DarkIsOnRecord, BlindTypeOK, Frames, NoRead
  <2> QED  BY <1>1, <1>2, <2>1, <2>2
<1>8. window' = "trading" /\ ~cleared' => ~Readable(sight)' /\ record' # Clear
  <2> SUFFICES ASSUME window' = "trading", ~cleared' PROVE ~Readable(sight') /\ record' # Clear
    BY DEF Readable
  <2>1. ~Readable(sight)
    BY <1>3, <1>4 DEF DarkIsOnRecord
  <2> QED  BY <2>1, <1>3, ReadingIsNoted
<1>9. blindSince' <= poll' /\ dark' <= poll'
  <2>1. blindSince' \in {NoRead, poll, blindSince}
    BY <1>3 DEF Sees, Reset, IsBlind
  <2>2. blindSince \in Int /\ blindSince <= poll /\ dark \in Int /\ dark <= poll /\ poll \in Nat /\ poll' \in Nat
    BY <1>2 DEF DarkIsOnRecord, BlindTypeOK, NoRead
  <2> QED  BY <1>2, <1>3, <2>1, <2>2 DEF NoRead
<1> QED  BY <1>6, <1>7, <1>8, <1>9 DEF DarkIsOnRecord

LEMMA DarkIsOnRecordHolds == BlindSpec => []DarkIsOnRecord
<1>1. BlindInit => DarkIsOnRecord
  <2> SUFFICES ASSUME BlindInit PROVE DarkIsOnRecord
    OBVIOUS
  <2>1. fetched \in [Frames -> 0..LastPoll \cup {NoRead}] /\ fetched["1m"] = -1 /\ poll = 0
    BY DEF BlindInit, Frames, NoRead
  <2>2. 0 \in 0..LastPoll
    BY TickAssumption
  <2>3. BlindTypeOK
    BY <2>1, <2>2 DEF BlindInit, BlindTypeOK, NoRead
  <2> QED  BY <2>1, <2>3 DEF BlindInit, DarkIsOnRecord, NoRead
<1>2. DarkIsOnRecord /\ [BlindNext]_bwVars => DarkIsOnRecord'
  <2> SUFFICES ASSUME DarkIsOnRecord, [BlindNext]_bwVars PROVE DarkIsOnRecord'
    OBVIOUS
  <2>1. CASE SightChanges
    <3>1. BlindTypeOK' /\ UNCHANGED <<fetched, poll, window, record, blindSince>>
      BY <2>1 DEF SightChanges, DarkIsOnRecord, BlindTypeOK, Readable, latchVars
    <3>2. dark' <= poll
      BY <2>1 DEF SightChanges, DarkIsOnRecord, BlindTypeOK
    <3>3. window' = "trading" /\ ~cleared' => ~Readable(sight)' /\ record' # Clear
      BY <2>1 DEF SightChanges, DarkIsOnRecord, Readable, latchVars
    <3> QED  BY <3>1, <3>2, <3>3 DEF DarkIsOnRecord
  <2>2. CASE WindowOpens
    BY <2>2 DEF WindowOpens, DarkIsOnRecord, BlindTypeOK, Readable, latchVars
  <2>3. CASE BookCloses
    BY <2>3 DEF BookCloses, DarkIsOnRecord, BlindTypeOK, Readable, latchVars
  <2>4. CASE Tick
    BY <2>4, TickIsOnRecord
  <2>5. CASE UNCHANGED bwVars
    BY <2>5 DEF bwVars, latchVars, DarkIsOnRecord, BlindTypeOK, Readable
  <2> QED  BY <2>1, <2>2, <2>3, <2>4, <2>5 DEF BlindNext
<1> QED  BY <1>1, <1>2, PTL DEF BlindSpec

\* The state of the latch is well formed: it counts from a time, and keeps a cause, exactly while it
\* is blind (BlindnessLatch).
THEOREM LatchIsTyped == BlindSpec => []BlindTypeOK
<1>1. DarkIsOnRecord => BlindTypeOK
  BY DEF DarkIsOnRecord
<1> QED  BY <1>1, DarkIsOnRecordHolds, PTL

\* While the bot trades, sight is never reported restored unless the trigger frame could be read at
\* some time since the page (_check_blindness).
THEOREM AllClearIsTrue == BlindSpec => NoFalseAllClear
<1>1. ASSUME DarkIsOnRecord, [BlindNext]_bwVars
      PROVE  [said' = "RECOVERED" /\ said # "RECOVERED" /\ window = "trading" => cleared]_bwVars
  <2> SUFFICES ASSUME said' = "RECOVERED", said # "RECOVERED", window = "trading" PROVE cleared
    OBVIOUS
  <2>1. Sees
    BY <1>1 DEF BlindNext, SightChanges, WindowOpens, BookCloses, Tick, IsBlind, bwVars, latchVars
  <2>2. record = Clear
    BY <2>1 DEF Sees
  <2> QED  BY <1>1, <2>2 DEF DarkIsOnRecord
<1> QED  BY <1>1, DarkIsOnRecordHolds, PTL DEF BlindSpec, NoFalseAllClear

\* The outage that the trigger frame shows began at dark: every tick since then but the first handed
\* the latch a record, so that the ticks it has counted reach back to the darkness.
OutageIsCounted ==
    window = "trading" /\ ~Readable(sight) =>
      \/ poll = dark
      \/ /\ record # Clear
         /\ poll <= dark + MaxTick * (1 + blindTicks)
         /\ blindTicks > 0 => blindSince <= dark + MaxTick
         /\ alerted \/ blindTicks < TicksNeeded \/ poll <= blindSince + PollsNeeded + MaxTick - 1

LEMMA TickIsCounted ==
  ASSUME DarkIsOnRecord, OutageIsCounted, Tick PROVE OutageIsCounted'
<1> SUFFICES ASSUME window' = "trading", ~Readable(sight)' PROVE OutageIsCounted'
  BY DEF OutageIsCounted
<1>1. PICK d \in 1..MaxTick : poll' = poll + d
  BY DEF Tick
<1>2. /\ sight' = sight /\ dark' = dark /\ window = "trading" /\ ~Readable(sight)
      /\ Looks /\ (Sees \/ IsBlind)
  BY DEF Tick, Readable
<1>3. /\ poll \in Nat /\ dark \in Nat /\ d \in Nat /\ d <= MaxTick /\ MaxTick \in Nat /\ MaxTick > 0
      /\ TicksNeeded \in Nat /\ TicksNeeded > 0 /\ PollsNeeded \in Nat
      /\ blindTicks \in Nat
  BY <1>1, LatchAssumption, TickAssumption DEF DarkIsOnRecord, BlindTypeOK
<1>4. record' # Clear
  BY <1>2, ReadingIsNoted
<1>5. CASE Sees
  <2>1. record = Clear /\ blindTicks' = 0
    BY <1>5 DEF Sees, Reset
  <2>2. poll = dark
    BY <1>2, <2>1 DEF OutageIsCounted
  <2>3. poll' <= dark + MaxTick * (1 + 0)
    BY <1>1, <1>3, <2>2
  <2> QED  BY <1>2, <1>3, <1>4, <2>1, <2>3 DEF OutageIsCounted
<1>6. CASE IsBlind
  <2>1. /\ blindTicks' = blindTicks + 1
        /\ blindSince' = IF blindSince = NoRead THEN poll ELSE blindSince
        /\ alerted' \/ ~(blindTicks' >= TicksNeeded /\ poll - blindSince' >= PollsNeeded)
    BY <1>6 DEF IsBlind
  <2>2. blindSince' \in Nat /\ blindSince \in Nat \cup {NoRead} /\ (blindSince # NoRead => blindTicks > 0)
    BY <1>3, <2>1 DEF DarkIsOnRecord, BlindTypeOK, NoRead
  <2>3. poll' <= dark + MaxTick * (1 + blindTicks')
    <3>1. poll <= dark + MaxTick * (1 + blindTicks) \/ poll = dark
      BY <1>2 DEF OutageIsCounted
    <3>2. MaxTick * (1 + (blindTicks + 1)) = MaxTick * (1 + blindTicks) + MaxTick
      BY <1>3
    <3>3. MaxTick * (1 + blindTicks) \in Nat
      BY <1>3
    <3> QED  BY <1>1, <1>3, <2>1, <3>1, <3>2, <3>3
  <2>4. blindSince' <= dark + MaxTick
    <3>1. CASE blindSince = NoRead
      <4>1. blindTicks = 0 /\ MaxTick * (1 + 0) = MaxTick
        BY <1>3, <3>1 DEF DarkIsOnRecord, BlindTypeOK
      <4>2. poll <= dark + MaxTick * (1 + blindTicks) \/ poll = dark
        BY <1>2 DEF OutageIsCounted
      <4> QED  BY <1>3, <2>1, <3>1, <4>1, <4>2
    <3>2. CASE blindSince # NoRead
      <4>1. blindSince' = blindSince /\ blindTicks > 0
        BY <2>1, <2>2, <3>2
      <4>2. blindSince <= poll
        BY DEF DarkIsOnRecord
      <4>3. poll = dark \/ blindSince <= dark + MaxTick
        BY <1>2, <4>1 DEF OutageIsCounted
      <4> QED  BY <1>3, <2>2, <4>1, <4>2, <4>3
    <3> QED  BY <3>1, <3>2
  <2>5. alerted' \/ blindTicks' < TicksNeeded \/ poll' <= blindSince' + PollsNeeded + MaxTick - 1
    <3> SUFFICES ASSUME ~alerted', blindTicks' >= TicksNeeded
                 PROVE  poll' <= blindSince' + PollsNeeded + MaxTick - 1
      BY <1>3, <2>1
    <3>1. poll - blindSince' < PollsNeeded
      BY <1>3, <2>1, <2>2
    <3>2. \A p, s, n, k, m \in Nat : p - s < n /\ k <= m => p + k <= s + n + m - 1
      OBVIOUS
    <3> QED  BY <1>1, <1>3, <2>2, <3>1, <3>2
  <2> QED  BY <1>4, <2>3, <2>4, <2>5, <1>2 DEF OutageIsCounted
<1> QED  BY <1>2, <1>5, <1>6

LEMMA OutageIsCountedHolds == BlindSpec => []OutageIsCounted
<1>1. BlindInit => OutageIsCounted
  BY DEF BlindInit, OutageIsCounted
<1>2. DarkIsOnRecord /\ OutageIsCounted /\ [BlindNext]_bwVars => OutageIsCounted'
  <2> SUFFICES ASSUME DarkIsOnRecord, OutageIsCounted, [BlindNext]_bwVars PROVE OutageIsCounted'
    OBVIOUS
  <2>1. CASE SightChanges
    <3>1. UNCHANGED <<window, poll, record, blindTicks, blindSince, alerted>>
      BY <2>1 DEF SightChanges, latchVars
    <3>2. CASE sight = Clear
      BY <2>1, <3>1, <3>2 DEF SightChanges, OutageIsCounted
    <3>3. CASE sight # Clear
      <4>1. dark' = dark /\ (Readable(sight)' \/ ~Readable(sight))
        BY <2>1, <3>3, BlindersAssumption DEF SightChanges, Readable, Clear, DarkIsOnRecord, BlindTypeOK
      <4> QED  BY <3>1, <4>1 DEF OutageIsCounted
    <3> QED  BY <3>2, <3>3
  <2>2. CASE WindowOpens
    BY <2>2 DEF WindowOpens, OutageIsCounted
  <2>3. CASE BookCloses
    BY <2>3 DEF BookCloses, OutageIsCounted, Readable, latchVars
  <2>4. CASE Tick
    BY <2>4, TickIsCounted
  <2>5. CASE UNCHANGED bwVars
    BY <2>5 DEF bwVars, latchVars, OutageIsCounted, Readable
  <2> QED  BY <2>1, <2>2, <2>3, <2>4, <2>5 DEF BlindNext
<1> QED  BY <1>1, <1>2, DarkIsOnRecordHolds, PTL DEF BlindSpec

\* While the bot trades, an outage of the trigger frame is paged within Patience, however slow the
\* ticks and whatever thresholds the latch has (BlindnessLatch, the header).
THEOREM OutageIsPaged == BlindSpec => []TriggerOutageIsPaged
<1>1. DarkIsOnRecord /\ OutageIsCounted => TriggerOutageIsPaged
  <2> SUFFICES ASSUME DarkIsOnRecord, OutageIsCounted, window = "trading", ~Readable(sight), ~alerted
               PROVE  ~(poll - dark > Patience)
    BY DEF TriggerOutageIsPaged
  <2>1. /\ poll \in Nat /\ dark \in Nat /\ MaxTick \in Nat /\ MaxTick > 0
        /\ TicksNeeded \in Nat /\ TicksNeeded > 0 /\ PollsNeeded \in Nat /\ blindTicks \in Nat
    BY LatchAssumption, TickAssumption DEF DarkIsOnRecord, BlindTypeOK
  <2> DEFINE wait == Longest((TicksNeeded - 1) * MaxTick, PollsNeeded + MaxTick - 1)
  <2>2. (TicksNeeded - 1) * MaxTick \in Nat
    BY <2>1
  <2>3. wait \in Nat /\ wait >= (TicksNeeded - 1) * MaxTick /\ wait >= PollsNeeded + MaxTick - 1
    BY <2>1, <2>2 DEF Longest
  <2>4. Patience = 2 * MaxTick + wait + MaxTick
    BY DEF Patience
  <2> HIDE DEF wait
  <2>5. CASE poll = dark
    BY <2>1, <2>3, <2>4, <2>5
  <2>6. CASE blindTicks < TicksNeeded /\ poll <= dark + MaxTick * (1 + blindTicks)
    <3>1. MaxTick * (1 + blindTicks) <= MaxTick + (TicksNeeded - 1) * MaxTick
      BY <2>1, <2>6
    <3>2. MaxTick * (1 + blindTicks) \in Nat
      BY <2>1
    <3> QED  BY <2>1, <2>2, <2>3, <2>4, <2>6, <3>1, <3>2
  <2>7. CASE blindTicks >= TicksNeeded /\ poll <= blindSince + PollsNeeded + MaxTick - 1
            /\ (blindTicks > 0 => blindSince <= dark + MaxTick)
    <3>1. blindSince \in Int /\ blindSince <= dark + MaxTick
      BY <2>1, <2>7 DEF DarkIsOnRecord, BlindTypeOK, NoRead
    <3> QED  BY <2>1, <2>3, <2>4, <2>7, <3>1
  <2> QED  BY <2>1, <2>5, <2>6, <2>7 DEF OutageIsCounted
<1> QED  BY <1>1, DarkIsOnRecordHolds, OutageIsCountedHolds, PTL

(***************************************************************************)
(* The candle feed.                                                        *)
(***************************************************************************)
\* The chain last heard of is a chain, and while there is no request none has been heard of.
HeardIsAChain ==
    /\ request \in Chains \cup {NoChain}
    /\ request.contracts = {} => heard.contracts = {}

\* ... and no socket has delivered anything.
FeedInv == HeardIsAChain /\ MemoryIsOfThisSocket /\ (~up => served = {})

\* What was delivered on an open socket is kept, and what is believed subscribed is
\* (_flush, _reconcile_chain_subs, run).
THEOREM FeedRemembersItsSocket == FeedSpec => []MemoryIsOfThisSocket
<1> USE DEF FeedInv, HeardIsAChain, MemoryIsOfThisSocket, ServedIsKept, BelievedIsSubscribed
<1>1. FeedInit => FeedInv
  BY DEF FeedInit, NoChain
<1>2. FeedInv /\ [FeedNext]_feedVars => FeedInv'
  <2> SUFFICES ASSUME FeedInv, [FeedNext]_feedVars PROVE FeedInv'
    OBVIOUS
  <2>1. CASE BotAsks
    <3>1. request' \in Chains /\ request'.contracts # {}
      BY <2>1, FeedAssumption DEF BotAsks
    <3> QED  BY <2>1, <3>1 DEF BotAsks, chainVars
  <2>2. CASE ModeChanges
    BY <2>2 DEF ModeChanges, chainVars
  <2>3. CASE Connect
    <3>1. /\ believed' = quotes' /\ heard'.contracts \subseteq quotes'
          /\ request.contracts = {} => heard'.contracts = {}
      <4>1. CASE request.contracts = {}
        BY <2>3, <4>1 DEF Connect, ReconcileChain, Hears
      <4>2. CASE request.contracts # {}
        BY <2>3, <4>2 DEF Connect, ReconcileChain, Hears, New
      <4> QED  BY <4>1, <4>2
    <3> QED  BY <2>3, <3>1 DEF Connect, Opened
  <2>4. CASE ConnectRaises
    BY <2>4 DEF ConnectRaises, ReconcileRaises, Hears, SocketGone
  <2>5. CASE Cycle
    <3>1. /\ believed' = quotes' /\ heard'.contracts \subseteq quotes'
          /\ request.contracts = {} => heard'.contracts = {}
      <4>1. CASE request.contracts = {}
        BY <2>5, <4>1 DEF Cycle, ReconcileChain, Hears
      <4>2. CASE request.contracts # {}
        BY <2>5, <4>2 DEF Cycle, ReconcileChain, Hears, New
      <4> QED  BY <4>1, <4>2
    <3> QED  BY <2>5, <3>1 DEF Cycle, Written
  <2>6. CASE CycleEnds
    BY <2>6 DEF CycleEnds, Hears, SocketGone
  <2>7. CASE CycleRaises
    BY <2>7 DEF CycleRaises, ReconcileRaises, Hears, SocketGone
  <2>8. CASE SocketRaises
    BY <2>8 DEF SocketRaises, SocketGone
  <2>9. CASE Dies
    BY <2>9 DEF Dies, SocketGone
  <2>10. ASSUME NEW i \in Intervals, Serve(i) PROVE FeedInv'
    BY <2>10 DEF Serve, chainVars
  <2>11. CASE UNCHANGED feedVars
    BY <2>11 DEF feedVars, chainVars
  <2> QED
    BY <2>1, <2>2, <2>3, <2>4, <2>5, <2>6, <2>7, <2>8, <2>9, <2>10, <2>11 DEF FeedNext
<1>3. FeedInv => MemoryIsOfThisSocket
  OBVIOUS
<1> QED  BY <1>1, <1>2, <1>3, PTL DEF FeedSpec

\* The feed subscribes and stores what it was given, and asks for the chain it was asked for.
LEMMA FeedIsTyped == FeedSpec => []FeedTypeOK
<1> DEFINE Known == UNION {c.contracts : c \in Chains}
           Expiries == {c.expiry : c \in Chains \cup {NoChain}}
<1>1. FeedInit => FeedTypeOK
  BY DEF FeedInit, FeedTypeOK
<1>2. FeedTypeOK /\ [FeedNext]_feedVars => FeedTypeOK'
  <2> SUFFICES ASSUME FeedTypeOK, [FeedNext]_feedVars PROVE FeedTypeOK'
    OBVIOUS
  <2>t. /\ up \in BOOLEAN /\ rescued \in BOOLEAN /\ standDown \in BOOLEAN
        /\ candles \subseteq Intervals /\ served \subseteq Intervals
        /\ buffer \subseteq Intervals /\ stored \subseteq Intervals
        /\ request \in Chains \cup {NoChain} /\ heard \in Chains \cup {NoChain}
        /\ expiry \in Expiries /\ quotes \subseteq Known /\ believed \subseteq Known
        /\ "5m" \in Intervals
    BY FeedAssumption DEF FeedTypeOK
  <2>g. ASSUME up' \in BOOLEAN, rescued' \in BOOLEAN, standDown' \in BOOLEAN,
               candles' \subseteq Intervals, served' \subseteq Intervals,
               buffer' \subseteq Intervals, stored' \subseteq Intervals,
               request' \in Chains \cup {NoChain}, heard' \in Chains \cup {NoChain},
               expiry' \in Expiries, quotes' \subseteq Known, believed' \subseteq Known
        PROVE  FeedTypeOK'
    BY <2>g DEF FeedTypeOK
  <2>r. request.contracts \subseteq Known /\ request.expiry \in Expiries
    BY <2>t DEF NoChain
  <2>n. NoChain.expiry \in Expiries /\ NoChain \in Chains \cup {NoChain}
    OBVIOUS
  <2>h. ASSUME NEW of \in Expiries, Hears(of)
        PROVE  expiry' \in Expiries /\ heard' \in Chains \cup {NoChain}
    BY <2>h, <2>t, <2>r DEF Hears
  <2>k. ASSUME NEW of, NEW has \in SUBSET Known
        PROVE  /\ Kept(has, of) \subseteq Known /\ New(has, of) \subseteq Known
               /\ Kept(has, of) \cup request.contracts \subseteq Known
    BY <2>r DEF Kept, New
  <2>c. ASSUME NEW of \in Expiries, NEW has \in SUBSET Known, NEW belief \in SUBSET Known,
               ReconcileChain(has, belief, of)
        PROVE  /\ expiry' \in Expiries /\ heard' \in Chains \cup {NoChain}
               /\ quotes' \subseteq Known /\ believed' \subseteq Known
    <3> HIDE DEF Known, Expiries
    <3>1. /\ Kept(has, of) \subseteq Known /\ New(belief, of) \subseteq Known
          /\ Kept(belief, of) \subseteq Known
      BY <2>k
    <3> QED  BY <2>c, <2>h, <3>1 DEF ReconcileChain
  <2>f. ASSUME NEW of \in Expiries, NEW belief \in SUBSET Known, ReconcileRaises(belief, of)
        PROVE  /\ expiry' \in Expiries /\ heard' \in Chains \cup {NoChain}
               /\ believed' \subseteq Known
    <3> HIDE DEF Known, Expiries
    <3> QED  BY <2>f, <2>h, <2>k DEF ReconcileRaises
  <2>w. ASSUME Written \/ WriteRaises
        PROVE  stored' \subseteq Intervals /\ buffer' \subseteq Intervals
    BY <2>w, <2>t DEF Written, WriteRaises
  <2> HIDE DEF Known, Expiries
  <2>e. {} \in SUBSET Known /\ {} \in SUBSET Intervals
    OBVIOUS
  <2>1. CASE BotAsks
    BY <2>1, <2>t, <2>g DEF BotAsks, chainVars
  <2>2. CASE ModeChanges
    BY <2>2, <2>t, <2>g DEF ModeChanges, chainVars
  <2>3. CASE Connect
    <3>1. /\ expiry' \in Expiries /\ heard' \in Chains \cup {NoChain}
          /\ quotes' \subseteq Known /\ believed' \subseteq Known
      BY <2>3, <2>c, <2>n, <2>e DEF Connect
    <3>2. up' \in BOOLEAN /\ candles' \subseteq Intervals
      BY <2>3 DEF Connect, Opened
    <3> QED  BY <2>3, <2>t, <2>g, <3>1, <3>2 DEF Connect, Opened
  <2>4. CASE ConnectRaises
    <3>1. /\ expiry' \in Expiries /\ heard' \in Chains \cup {NoChain} /\ believed' \subseteq Known
      BY <2>4, <2>f, <2>n, <2>e DEF ConnectRaises
    <3> QED  BY <2>4, <2>t, <2>g, <2>e, <3>1 DEF ConnectRaises, SocketGone
  <2>5. CASE Cycle
    <3>1. /\ expiry' \in Expiries /\ heard' \in Chains \cup {NoChain}
          /\ quotes' \subseteq Known /\ believed' \subseteq Known
      BY <2>5, <2>c, <2>t DEF Cycle
    <3>2. stored' \subseteq Intervals /\ buffer' \subseteq Intervals
      BY <2>5, <2>w DEF Cycle
    <3>3. candles' \subseteq Intervals /\ rescued' \in BOOLEAN
      BY <2>5, <2>t DEF Cycle, Rescue
    <3> QED  BY <2>5, <2>t, <2>g, <3>1, <3>2, <3>3 DEF Cycle
  <2>6. CASE CycleEnds
    <3>1. expiry' \in Expiries /\ heard' \in Chains \cup {NoChain} /\ believed' \subseteq Known
      BY <2>6, <2>h, <2>k, <2>t DEF CycleEnds
    <3>2. stored' \subseteq Intervals /\ buffer' \subseteq Intervals
      BY <2>6, <2>w DEF CycleEnds
    <3>3. rescued' \in BOOLEAN
      BY <2>6, <2>t DEF CycleEnds
    <3> QED  BY <2>6, <2>t, <2>g, <2>e, <3>1, <3>2, <3>3 DEF CycleEnds, SocketGone
  <2>7. CASE CycleRaises
    <3>1. expiry' \in Expiries /\ heard' \in Chains \cup {NoChain} /\ believed' \subseteq Known
      BY <2>7, <2>f, <2>h, <2>k, <2>t DEF CycleRaises
    <3>2. stored' \subseteq Intervals /\ buffer' \subseteq Intervals
      BY <2>7, <2>w DEF CycleRaises
    <3>3. rescued' \in BOOLEAN
      BY <2>7, <2>t DEF CycleRaises
    <3> QED  BY <2>7, <2>t, <2>g, <2>e, <3>1, <3>2, <3>3 DEF CycleRaises, SocketGone
  <2>8. CASE SocketRaises
    <3>1. stored' \subseteq Intervals /\ buffer' \subseteq Intervals
      BY <2>8, <2>w DEF SocketRaises
    <3> QED  BY <2>8, <2>t, <2>g, <2>e, <3>1 DEF SocketRaises, SocketGone
  <2>9. CASE Dies
    BY <2>9, <2>t, <2>g, <2>e, <2>n DEF Dies, SocketGone
  <2>10. ASSUME NEW i \in Intervals, Serve(i) PROVE FeedTypeOK'
    BY <2>10, <2>t, <2>g DEF Serve, chainVars
  <2>11. CASE UNCHANGED feedVars
    BY <2>11, <2>t, <2>g DEF feedVars, chainVars
  <2> QED
    BY <2>1, <2>2, <2>3, <2>4, <2>5, <2>6, <2>7, <2>8, <2>9, <2>10, <2>11 DEF FeedNext
<1> QED  BY <1>1, <1>2, PTL DEF FeedSpec

(***************************************************************************)
(* The candle store.                                                       *)
(***************************************************************************)
\* How the fold over the minutes is computed.
Sums(g) ==
  g = [s \in SUBSET Minutes |->
         IF s = {} THEN 0 ELSE LET x == CHOOSE x \in s : TRUE IN kept[x] + g[s \ {x}]]

LEMMA AggregateIsASum == Aggregate = (CHOOSE g : Sums(g))[Minutes]
BY DEF Aggregate, MapThenSumSet, MapThenFoldSet, Sums

LEMMA MinutesAreCounted == IsFiniteSet(Minutes) /\ Cardinality(Minutes) = Span
BY SpanAssumption, FS_Interval DEF Minutes

\* True minutes add up to the true bar.
LEMMA TrueSum == ASSUME MinutesAreTrue PROVE Aggregate = Truth(Wide)
<1>1. \A k \in Minutes : kept[k] = Traded
  BY SpanAssumption DEF MinutesAreTrue, Truth, Minutes, Wide
<1>2. ASSUME NEW s \in SUBSET Minutes, s # {}
      PROVE  LET x == CHOOSE x \in s : TRUE
             IN  /\ x \in s /\ kept[x] = Traded /\ s \ {x} \in SUBSET Minutes
                 /\ IsFiniteSet(s \ {x}) /\ Cardinality(s \ {x}) \in Nat
                 /\ Cardinality(s) = Cardinality(s \ {x}) + 1
  <2> DEFINE x == CHOOSE x \in s : TRUE
  <2>1. x \in s
    BY <1>2
  <2> HIDE DEF x
  <2>2. IsFiniteSet(s)
    BY MinutesAreCounted, FS_Subset
  <2>3. IsFiniteSet(s \ {x}) /\ Cardinality(s \ {x}) = Cardinality(s) - 1
    BY <2>1, <2>2, FS_RemoveElement
  <2>4. Cardinality(s) \in Nat /\ Cardinality(s \ {x}) \in Nat
    BY <2>2, <2>3, FS_CardinalityType
  <2>5. x \in s /\ kept[x] = Traded /\ s \ {x} \in SUBSET Minutes
    BY <1>1, <2>1
  <2>6. /\ x \in s /\ kept[x] = Traded /\ s \ {x} \in SUBSET Minutes
        /\ IsFiniteSet(s \ {x}) /\ Cardinality(s \ {x}) \in Nat
        /\ Cardinality(s) = Cardinality(s \ {x}) + 1
    BY <2>3, <2>4, <2>5
  <2> QED  BY <2>6 DEF x
<1> DEFINE h == [s \in SUBSET Minutes |-> Traded * Cardinality(s)]
<1>3. Sums(h)
  <2>1. ASSUME NEW s \in SUBSET Minutes
        PROVE  h[s] = IF s = {} THEN 0 ELSE LET x == CHOOSE x \in s : TRUE IN kept[x] + h[s \ {x}]
    <3>1. CASE s = {}
      BY <3>1, TradedAssumption, FS_EmptySet
    <3>2. CASE s # {}
      <4> DEFINE x == CHOOSE x \in s : TRUE
      <4>1. /\ x \in s /\ kept[x] = Traded /\ s \ {x} \in SUBSET Minutes
            /\ Cardinality(s \ {x}) \in Nat /\ Cardinality(s) = Cardinality(s \ {x}) + 1
        BY <1>2, <3>2
      <4> HIDE DEF x
      <4>2. Traded * (Cardinality(s \ {x}) + 1) = Traded + Traded * Cardinality(s \ {x})
        BY <4>1, TradedAssumption
      <4>3. h[s] = kept[x] + h[s \ {x}]
        BY <4>1, <4>2
      <4> QED  BY <3>2, <4>3 DEF x
    <3> QED  BY <3>1, <3>2
  <2>2. h = [s \in SUBSET Minutes |-> h[s]]
    OBVIOUS
  <2> HIDE DEF h
  <2> QED  BY <2>1, <2>2 DEF Sums
<1> DEFINE g == CHOOSE f : Sums(f)
<1>4. Sums(g)
  <2> HIDE DEF h
  <2> QED  BY <1>3
<1> HIDE DEF g, h
<1>5. g[Minutes] = Traded * Cardinality(Minutes)
  <2> SUFFICES ASSUME g[Minutes] # Traded * Cardinality(Minutes) PROVE FALSE
    OBVIOUS
  <2> DEFINE R == StrictSubsetOrdering(Minutes)
             S == FiniteSubsetsOf(Minutes)
             U == {s \in SUBSET Minutes : g[s] # Traded * Cardinality(s)}
  <2>1. IsWellFoundedOn(R, S)
    BY FS_StrictSubsetOrderingWellFounded
  <2>2. U \subseteq S /\ U # {}
    BY MinutesAreCounted, FS_Subset DEF FiniteSubsetsOf
  <2>3. PICK s \in U : \A y \in U : ~(<<y, s>> \in R)
    <3> HIDE DEF R, S, U
    <3> QED  BY <2>1, <2>2, WFMin
  <2>4. s \in SUBSET Minutes /\ g[s] # Traded * Cardinality(s)
    OBVIOUS
  <2>5. g[s] = IF s = {} THEN 0 ELSE LET x == CHOOSE x \in s : TRUE IN kept[x] + g[s \ {x}]
    BY <1>4, <2>4 DEF Sums
  <2>6. s # {}
    BY <2>4, <2>5, TradedAssumption, FS_EmptySet
  <2> DEFINE x == CHOOSE x \in s : TRUE
  <2>7. /\ x \in s /\ kept[x] = Traded /\ s \ {x} \in SUBSET Minutes
        /\ Cardinality(s \ {x}) \in Nat /\ Cardinality(s) = Cardinality(s \ {x}) + 1
    BY <1>2, <2>4, <2>6
  <2>8. g[s] = kept[x] + g[s \ {x}]
    BY <2>5, <2>6
  <2> HIDE DEF x
  <2>9. s \ {x} \notin U
    <3>1. s \ {x} # s /\ s \ {x} \subseteq s
      BY <2>7
    <3>2. <<s \ {x}, s>> \in StrictSubsetOrdering(Minutes)
      BY <2>4, <2>7, <3>1 DEF StrictSubsetOrdering
    <3> HIDE DEF U
    <3> QED  BY <2>3, <3>2
  <2>10. g[s \ {x}] = Traded * Cardinality(s \ {x})
    BY <2>7, <2>9
  <2>11. Traded * (Cardinality(s \ {x}) + 1) = Traded + Traded * Cardinality(s \ {x})
    BY <2>7, TradedAssumption
  <2> HIDE DEF U
  <2> QED  BY <2>4, <2>7, <2>8, <2>10, <2>11
<1>6. Traded * Span = Span * Traded
  BY SpanAssumption, TradedAssumption
<1> QED  BY <1>5, <1>6, AggregateIsASum, MinutesAreCounted DEF g, Truth, Wide

\* The store's bars are bars, and a minute is never more than it was.
Whole ==
  /\ TapeTypeOK
  /\ \A k \in Minutes : kept[k] <= Truth(k)

LEMMA TruthIsWhole ==
  /\ \A b \in Slots : Truth(b) \in Nat /\ Truth(b) > 0 /\ Truth(b) <= Span * Traded
  /\ \A k \in Minutes : k # Wide /\ k \in Slots /\ Truth(k) = Traded
  /\ Wide \in Slots /\ Truth(Wide) = Span * Traded
<1>1. Span * Traded \in Nat /\ Span * Traded > 0 /\ Traded <= Span * Traded
  BY SpanAssumption, TradedAssumption
<1> QED  BY <1>1, SpanAssumption, TradedAssumption DEF Truth, Slots, Minutes, Wide

LEMMA VersionsAreWhole ==
  \A b \in Slots : \A v \in Versions(b) :
    v \in 1..(2 * Span * Traded) /\ (b # Wide => v <= Truth(b))
<1>1. Span * Traded \in Nat /\ 2 * Span * Traded = 2 * (Span * Traded)
  BY SpanAssumption, TradedAssumption
<1> QED  BY <1>1, TruthIsWhole DEF Versions

LEMMA KeptIsWhole == Whole => \A b \in Slots : kept[b] \in Int
BY DEF Whole, TapeTypeOK, NoBar, Null

LEMMA ChosenIsOneOfTwo == \A b, v, f : Chosen(b, v, f) \in {kept[b], v}
BY DEF Chosen

LEMMA WholeAlways == TapeSpec => []Whole
<1>1. TapeInit => Whole
  BY TruthIsWhole, SpanAssumption, TradedAssumption DEF TapeInit, Whole, TapeTypeOK, NoBar, Null
<1>2. Whole /\ [TapeNext]_tapeVars => Whole'
  <2> SUFFICES ASSUME Whole, [TapeNext]_tapeVars PROVE Whole'
    OBVIOUS
  <2>1. CASE UNCHANGED tapeVars
    BY <2>1 DEF Whole, TapeTypeOK, tapeVars
  <2>2. CASE MinuteEnds
    BY <2>2, SpanAssumption DEF MinuteEnds, Whole, TapeTypeOK
  <2>3. ASSUME NEW b \in Slots, NEW fails \in BOOLEAN, NEW v \in Versions(b), Take(b, v, fails)
        PROVE  Whole'
    <3> DEFINE c == Chosen(b, v, fails)
    <3>1. /\ kept' = [kept EXCEPT ![b] = c] /\ now' = now
          /\ errors' \in 0..MaxErrors
      BY <2>3, TradedAssumption DEF Take, Whole, TapeTypeOK
    <3>2. c \in {kept[b], v}
      BY ChosenIsOneOfTwo
    <3> HIDE DEF c
    <3>3. /\ kept \in [Slots -> {NoBar, Null} \cup 1..(2 * Span * Traded)]
          /\ \A k \in Minutes : kept[k] <= Truth(k) /\ k \in Slots /\ k # Wide
      BY TruthIsWhole DEF Whole, TapeTypeOK
    <3>4. c \in {NoBar, Null} \cup 1..(2 * Span * Traded) /\ (b \in Minutes => c <= Truth(b))
      BY <3>2, <3>3, VersionsAreWhole
    <3>5. kept' \in [Slots -> {NoBar, Null} \cup 1..(2 * Span * Traded)]
      BY <3>1, <3>3, <3>4
    <3>6. \A k \in Minutes : kept'[k] <= Truth(k)
      BY <3>1, <3>3, <3>4
    <3> QED  BY <3>1, <3>5, <3>6 DEF Whole, TapeTypeOK, Truth
  <2> QED  BY <2>1, <2>2, <2>3 DEF TapeNext
<1> QED  BY <1>1, <1>2, PTL DEF TapeSpec

\* A minute that is true is replaced by itself only, if a slice of it lacks more than the rule allows.
LEMMA MinuteStays ==
  ASSUME 95 * Traded > 100 * (Traded - 1), NEW k \in Minutes, kept[k] = Truth(k),
         NEW v \in Versions(k), NEW fails
  PROVE  Chosen(k, v, fails) = Truth(k)
<1>1. k # Wide /\ k \in Slots /\ kept[k] = Traded /\ v \in Nat /\ v <= Traded /\ Truth(k) = Traded
  BY TruthIsWhole, VersionsAreWhole
<1>2. 100 * v >= 95 * Traded => v = Traded
  BY <1>1, TradedAssumption
<1>3. Chosen(k, v, fails) = IF kept[k] = NoBar \/ Yields(kept[k], v) THEN v ELSE kept[k]
  BY <1>1 DEF Chosen
<1> QED  BY <1>1, <1>2, <1>3, TradedAssumption DEF Yields, NoBar, Null

\* The referee, over true minutes, keeps the nearer of two versions.
LEMMA RefereeRules ==
  ASSUME Whole, MinutesAreTrue, now > Span, NEW v \in Versions(Wide)
  PROVE  Chosen(Wide, v, FALSE) =
           IF kept[Wide] \in {NoBar, Null} \/ Gap(v, Truth(Wide)) < Gap(kept[Wide], Truth(Wide))
             THEN v ELSE kept[Wide]
<1>1. Sits
  BY TruthIsWhole DEF Sits, MinutesAreTrue, NoBar, Null
<1>2. Aggregate = Truth(Wide)
  BY TrueSum
<1> QED  BY <1>1, <1>2 DEF Chosen, Nearer, Yields

\* A true minute is not lost again, and with true minutes the closed bar is never further from the
\* truth than it was, unless the referee fails, whatever slices, forming and inflated bars are
\* replayed: as long as a slice lacks more than the twentieth the rule forgives (_UPSERT_CANDLE_SQL).
THEOREM TruthIsNotLost ==
  ASSUME 95 * Traded > 100 * (Traded - 1) PROVE TapeSpec => TruthOnlyNears
<1> DEFINE Minute == \A k \in Minutes : kept[k] = Truth(k) => kept'[k] = Truth(k)
           WideBar == now > Span /\ MinutesAreTrue /\ errors' = errors =>
                    Gap(kept'[Wide], Truth(Wide)) <= Gap(kept[Wide], Truth(Wide))
<1>1. Whole => \A x \in {kept[Wide]} \cup Versions(Wide) : Gap(x, Truth(Wide)) \in Nat
  <2> SUFFICES ASSUME Whole, NEW x \in {kept[Wide]} \cup Versions(Wide)
               PROVE  Gap(x, Truth(Wide)) \in Nat
    OBVIOUS
  <2>1. x \in Int /\ Truth(Wide) \in Int
    BY KeptIsWhole, TruthIsWhole, VersionsAreWhole
  <2> QED  BY <2>1 DEF Gap
<1>2. Whole /\ [TapeNext]_tapeVars => [Minute /\ WideBar]_tapeVars
  <2> SUFFICES ASSUME Whole, TapeNext PROVE Minute /\ WideBar
    OBVIOUS
  <2>1. CASE MinuteEnds
    BY <1>1, <2>1 DEF MinuteEnds
  <2>2. ASSUME NEW b \in Slots, NEW fails \in BOOLEAN, NEW v \in Versions(b), Take(b, v, fails)
        PROVE  Minute /\ WideBar
    <3>1. /\ kept' = [kept EXCEPT ![b] = Chosen(b, v, fails)]
          /\ fails => errors' = errors + 1
      BY <2>2 DEF Take
    <3>2. kept \in [Slots -> {NoBar, Null} \cup 1..(2 * Span * Traded)] /\ errors \in Nat
      BY TradedAssumption DEF Whole, TapeTypeOK
    <3>3. Minute
      BY <3>1, <3>2, MinuteStays, TruthIsWhole
    <3>4. CASE b # Wide
      <4>1. kept'[Wide] = kept[Wide]
        BY <3>1, <3>2, <3>4, TruthIsWhole
      <4> QED  BY <1>1, <3>3, <4>1
    <3>5. CASE b = Wide
      <4> SUFFICES ASSUME now > Span, MinutesAreTrue, errors' = errors
                   PROVE  Gap(kept'[Wide], Truth(Wide)) <= Gap(kept[Wide], Truth(Wide))
        BY <3>3
      <4>1. fails = FALSE
        BY <3>1, <3>2
      <4>2. kept'[Wide] = Chosen(Wide, v, FALSE)
        BY <3>1, <3>2, <3>5, <4>1, TruthIsWhole
      <4>3. CASE kept[Wide] \in {NoBar, Null}
        <5>1. kept'[Wide] = v
          BY <3>5, <4>2, <4>3, RefereeRules
        <5>2. v \in 1..(2 * Truth(Wide)) /\ Truth(Wide) \in Nat
          BY <3>5, TruthIsWhole DEF Versions
        <5> QED  BY <4>3, <5>1, <5>2 DEF Gap, NoBar, Null
      <4>4. CASE kept[Wide] \notin {NoBar, Null}
        <5>1. \/ kept'[Wide] = kept[Wide]
              \/ kept'[Wide] = v /\ Gap(v, Truth(Wide)) < Gap(kept[Wide], Truth(Wide))
          BY <3>5, <4>2, <4>4, RefereeRules
        <5> QED  BY <1>1, <3>5, <5>1
      <4> QED  BY <4>3, <4>4
    <3> QED  BY <3>4, <3>5
  <2> QED  BY <2>1, <2>2 DEF TapeNext
<1> QED  BY <1>2, WholeAlways, PTL DEF TapeSpec, TruthOnlyNears

\* A true bar that is replayed is kept: of a minute once it has ended, of a wide bar once it is closed
\* and its minutes are true, whatever was kept before (the referee).
THEOREM TruthIsAlwaysTaken == TapeSpec => TruthIsTaken
<1>1. ASSUME Whole, NEW b \in Slots, RepeatsTheTruth(b), b = Wide => now > Span /\ MinutesAreTrue
      PROVE  kept'[b] = Truth(b)
  <2>1. Truth(b) \in Versions(b) /\ kept'[b] = Chosen(b, Truth(b), FALSE)
    BY <1>1 DEF RepeatsTheTruth, Take, Whole, TapeTypeOK
  <2>2. CASE b = Wide
    <3>1. kept[Wide] \in Int /\ Truth(Wide) \in Nat
      BY <1>1, KeptIsWhole, TruthIsWhole
    <3>2. ~(Gap(Truth(Wide), Truth(Wide)) < Gap(kept[Wide], Truth(Wide))) => kept[Wide] = Truth(Wide)
      BY <3>1 DEF Gap
    <3> QED  BY <1>1, <2>1, <2>2, <3>2, RefereeRules
  <2>3. CASE b # Wide
    <3>1. b \in Minutes
      BY <2>3 DEF Slots
    <3>2. kept[b] <= Truth(b) /\ kept[b] \in Int /\ Truth(b) \in Nat
      BY <1>1, <3>1, KeptIsWhole, TruthIsWhole DEF Whole
    <3>3. Yields(kept[b], Truth(b))
      BY <3>2 DEF Yields
    <3> QED  BY <2>1, <2>3, <3>3 DEF Chosen
  <2> QED  BY <2>2, <2>3
<1>2. Whole /\ [TapeNext]_tapeVars =>
        [\A b \in Slots : RepeatsTheTruth(b) /\ (b = Wide => now > Span /\ MinutesAreTrue) =>
           kept'[b] = Truth(b)]_tapeVars
  BY <1>1
<1> QED  BY <1>2, WholeAlways, PTL DEF TapeSpec, TruthIsTaken

(***************************************************************************)
(* The trailing stop.                                                      *)
(***************************************************************************)
\* The trail the next pass goes by.
Going == Seed(trailing, loaded)

\* One trail holds a trade at least as well as another, from this pass and from every later one.
Dominates(e, f) ==
    /\ e.stop >= f.stop
    /\ f.armed => e.armed

LEMMA LevelsAreNumbers ==
    /\ Activation \in Nat /\ FirstStop \in Nat /\ FirstStop > 0 /\ Activation > 0
    /\ EntryPrice \in Nat /\ EntryPrice > 1 /\ StopPrice \in Nat /\ StopPrice > 0 /\ StopPrice <= EntryPrice
    /\ TargetPrice \in Nat /\ TargetPrice > EntryPrice
    /\ trailKind # "structure" => FirstStop < Activation /\ EntryPrice < Activation
  BY TrailAssumption DEF Activation, FirstStop

LEMMA MaxOfTwo == \A a, b \in Nat : Max({a, b}) \in Nat /\ Max({a, b}) >= a /\ Max({a, b}) >= b
                                    /\ (Max({a, b}) = a \/ Max({a, b}) = b)
  <1> SUFFICES ASSUME NEW a \in Nat, NEW b \in Nat
               PROVE  Max({a, b}) \in Nat /\ Max({a, b}) >= a /\ Max({a, b}) >= b
                      /\ (Max({a, b}) = a \/ Max({a, b}) = b)
    OBVIOUS
  <1>1. \E x \in {a, b} : \A y \in {a, b} : x >= y
    <2>1. CASE a >= b  BY <2>1
    <2>2. CASE b >= a  BY <2>2
    <2> QED  BY <2>1, <2>2
  <1>2. Max({a, b}) \in {a, b} /\ \A y \in {a, b} : Max({a, b}) >= y
    BY <1>1 DEF Max
  <1> QED  BY <1>2

LEMMA MinOfTwo == \A a, b \in Nat : Min({a, b}) \in Nat /\ Min({a, b}) <= a /\ Min({a, b}) <= b
                                    /\ (Min({a, b}) = a \/ Min({a, b}) = b)
  <1> SUFFICES ASSUME NEW a \in Nat, NEW b \in Nat
               PROVE  Min({a, b}) \in Nat /\ Min({a, b}) <= a /\ Min({a, b}) <= b
                      /\ (Min({a, b}) = a \/ Min({a, b}) = b)
    OBVIOUS
  <1>1. \E x \in {a, b} : \A y \in {a, b} : x =< y
    <2>1. CASE a =< b  BY <2>1
    <2>2. CASE b =< a  BY <2>2
    <2> QED  BY <2>1, <2>2
  <1>2. Min({a, b}) \in {a, b} /\ \A y \in {a, b} : Min({a, b}) =< y
    BY <1>1 DEF Min
  <1> QED  BY <1>2

\* What a gap leaves of a trail: the trail, or the floor, which is below the mark.
LEMMA GapLaw ==
  ASSUME NEW e \in Trails, NEW premium \in Nat \ {0}, NEW gap \in Nat, NEW share \in Nat
  PROVE  LET f == Min({Max({gap, share}), (9 * premium) \div 10})
         IN /\ f \in Nat /\ f < premium
            /\ GapTrail(e, premium, gap, share) =
                 IF f > (IF e.stop = 0 THEN EntryPrice ELSE e.stop)
                 THEN [stop |-> f, armed |-> e.armed] ELSE e
  <1> DEFINE f == Min({Max({gap, share}), (9 * premium) \div 10})
  <1>1. (9 * premium) \div 10 \in Nat /\ (9 * premium) \div 10 < premium
    OBVIOUS
  <1>2. Max({gap, share}) \in Nat
    BY MaxOfTwo
  <1>3. f \in Nat /\ f <= (9 * premium) \div 10
    BY <1>1, <1>2, MinOfTwo
  <1>4. f < premium
    <2> HIDE DEF f
    <2> QED  BY <1>1, <1>3
  <1>5. [e EXCEPT !.stop = f] = [stop |-> f, armed |-> e.armed]
    BY DEF Trails
  <1> QED  BY <1>3, <1>4, <1>5 DEF GapTrail, Raised

\* What of the gain, or of the premium, the percentage trail keeps.
ShareOf(premium) == IF trailKind = "structure" THEN (3 * premium) \div 4 ELSE GainFloor(premium)

LEMMA ShareLaw ==
  ASSUME NEW premium \in Nat \ {0}
  PROVE  /\ ShareOf(premium) \in Nat /\ GainFloor(premium) \in Nat
         /\ premium >= Activation => ShareOf(premium) < premium
         /\ premium >= Activation /\ trailKind # "structure" => ShareOf(premium) >= FirstStop
  <1>1. CASE trailKind = "structure"
    <2>1. GainFloor(premium) \in Nat
      BY LevelsAreNumbers DEF GainFloor
    <2>2. (3 * premium) \div 4 \in Nat /\ (3 * premium) \div 4 < premium
      OBVIOUS
    <2> QED  BY <1>1, <2>1, <2>2 DEF ShareOf
  <1>2. CASE trailKind # "structure"
    <2>1. ShareOf(premium) = GainFloor(premium) /\ GainFloor(premium) \in Nat
      BY <1>2, LevelsAreNumbers DEF ShareOf, GainFloor
    <2>2. ASSUME premium >= Activation PROVE GainFloor(premium) < premium /\ GainFloor(premium) >= FirstStop
      <3>1. Activation = (3 * EntryPrice) \div 2 /\ FirstStop = (5 * EntryPrice) \div 4
        BY <1>2 DEF Activation, FirstStop
      <3>2. premium > EntryPrice /\ GainFloor(premium) = EntryPrice + (premium - EntryPrice) \div 2
        BY <1>2, <2>2, LevelsAreNumbers DEF GainFloor
      <3>3. EntryPrice + (premium - EntryPrice) \div 2 < premium
        BY <3>2, LevelsAreNumbers
      <3>4. premium >= (3 * EntryPrice) \div 2
        BY <2>2, <3>1
      <3>5. EntryPrice + (premium - EntryPrice) \div 2 >= (5 * EntryPrice) \div 4
        BY <3>4, LevelsAreNumbers
      <3> QED  BY <3>1, <3>2, <3>3, <3>5
    <2> QED  BY <1>2, <2>1, <2>2
  <1> QED  BY <1>1, <1>2

LEMMA OtherStop ==
  \A x, y : [[stop |-> y, armed |-> TRUE] EXCEPT !.stop = x] = [stop |-> x, armed |-> TRUE]
  OBVIOUS

LEMMA PercentLaw ==
  ASSUME NEW e \in Trails, NEW premium \in Nat \ {0}
  PROVE  PercentTrail(e, premium) =
           IF premium < Activation THEN e
           ELSE [stop |-> Max({IF e.armed THEN e.stop ELSE FirstStop, ShareOf(premium)}), armed |-> TRUE]
  <1>1. Armed(e) = [stop |-> IF e.armed THEN e.stop ELSE FirstStop, armed |-> TRUE]
    BY DEF Armed, Trails
  <1>2. Armed(e).stop = (IF e.armed THEN e.stop ELSE FirstStop)
    BY <1>1
  <1>3. \A x : [Armed(e) EXCEPT !.stop = x] = [stop |-> x, armed |-> TRUE]
    BY <1>1, OtherStop
  <1> QED  BY <1>2, <1>3 DEF PercentTrail, ShareOf

LEMMA AdoptedLaw ==
  ASSUME NEW e \in Trails, NEW premium \in Nat \ {0}
  PROVE  AdoptedTrail(e, premium) =
           IF premium < Activation /\ ~e.armed THEN e
           ELSE [stop |-> Max({IF e.armed THEN e.stop ELSE FirstStop, (3 * premium) \div 4}), armed |-> TRUE]
  <1>1. Armed(e) = [stop |-> IF e.armed THEN e.stop ELSE FirstStop, armed |-> TRUE]
    BY DEF Armed, Trails
  <1>2. Armed(e).stop = (IF e.armed THEN e.stop ELSE FirstStop)
    BY <1>1
  <1>3. \A x : [Armed(e) EXCEPT !.stop = x] = [stop |-> x, armed |-> TRUE]
    BY <1>1, OtherStop
  <1> QED  BY <1>2, <1>3 DEF AdoptedTrail

\* A trail that is sound: an armed one has a stop, and but for a debit's no stop is below the first.
SoundTrail(e) ==
    /\ e \in Trails
    /\ e.armed => e.stop > 0
    /\ trailKind # "debit" /\ e.stop > 0 => e.stop >= FirstStop

\* A pass keeps a trail sound, arms it only at the activation, and never lifts it to the mark.
Ratchets(e, f, premium) ==
    /\ SoundTrail(f)
    /\ f.armed => e.armed \/ premium >= Activation
    /\ f.stop >= premium => f.stop = e.stop

LEMMA GapRatchets ==
  ASSUME NEW e, SoundTrail(e), NEW premium \in Nat \ {0}, NEW gap \in Nat, NEW share \in Nat,
         trailKind # "adopted", trailKind \in {"debit", "structure"}
  PROVE  Ratchets(e, GapTrail(e, premium, gap, share), premium)
  <1> USE DEF SoundTrail, Trails
  <1> DEFINE f == Min({Max({gap, share}), (9 * premium) \div 10})
             g == GapTrail(e, premium, gap, share)
  <1>1. f \in Nat /\ f < premium
        /\ g = IF f > (IF e.stop = 0 THEN EntryPrice ELSE e.stop)
               THEN [stop |-> f, armed |-> e.armed] ELSE e
    BY GapLaw
  <1> SUFFICES Ratchets(e, g, premium)
    OBVIOUS
  <1> HIDE DEF f, g
  <1>2. CASE f > (IF e.stop = 0 THEN EntryPrice ELSE e.stop)
    <2>1. g.stop = f /\ g.armed = e.armed /\ g \in Trails /\ f > 0
      BY <1>1, <1>2, LevelsAreNumbers
    <2>2. trailKind # "debit" => f >= FirstStop
      BY <1>1, <1>2, LevelsAreNumbers DEF FirstStop
    <2> QED  BY <1>1, <2>1, <2>2 DEF Ratchets
  <1>3. CASE ~(f > (IF e.stop = 0 THEN EntryPrice ELSE e.stop))
    BY <1>1, <1>3 DEF Ratchets
  <1> QED  BY <1>2, <1>3

LEMMA FvgRatchets ==
  ASSUME NEW e, SoundTrail(e), NEW premium \in Nat \ {0}, NEW gap \in Nat,
         trailKind \in {"debit", "structure"}
  PROVE  Ratchets(e, FvgTrail(e, premium, gap), premium)
  <1>1. GainFloor(premium) \in Nat
    BY ShareLaw
  <1>2. Ratchets(e, GapTrail(e, premium, gap, GainFloor(premium)), premium)
    BY <1>1, GapRatchets
  <1>3. Ratchets(e, e, premium)
    BY DEF Ratchets, SoundTrail
  <1> QED  BY <1>2, <1>3 DEF FvgTrail

LEMMA PercentRatchets ==
  ASSUME NEW e, SoundTrail(e), NEW premium \in Nat \ {0}, trailKind \in {"debit", "structure"},
         trailKind = "structure" => premium > StopPrice
  PROVE  Ratchets(e, PercentTrail(e, premium), premium)
  <1> USE DEF SoundTrail, Trails
  <1>1. CASE premium < Activation
    BY <1>1, PercentLaw DEF Ratchets
  <1>2. CASE premium >= Activation
    <2> DEFINE old == IF e.armed THEN e.stop ELSE FirstStop
               f == PercentTrail(e, premium)
    <2>1. f = [stop |-> Max({old, ShareOf(premium)}), armed |-> TRUE]
      BY <1>2, PercentLaw, LevelsAreNumbers
    <2>2. old \in Nat /\ old > 0 /\ (trailKind # "debit" => old >= FirstStop)
      BY LevelsAreNumbers
    <2>3. ShareOf(premium) \in Nat /\ ShareOf(premium) < premium
      BY <1>2, ShareLaw
    <2>4. ~e.armed => old < premium
      BY <1>2, LevelsAreNumbers DEF FirstStop
    <2> DEFINE m == Max({old, ShareOf(premium)})
    <2>5. m \in Nat /\ m >= old /\ (m = old \/ m = ShareOf(premium))
      BY <2>2, <2>3, MaxOfTwo
    <2>6. f.stop = m /\ f.armed /\ f \in Trails
      BY <2>1, <2>5
    <2>7. e.armed => old = e.stop
      OBVIOUS
    <2> HIDE DEF m, old, f
    <2>8. SoundTrail(f)
      BY <2>2, <2>5, <2>6, LevelsAreNumbers
    <2>9. f.stop >= premium => f.stop = e.stop
      BY <2>2, <2>3, <2>4, <2>5, <2>6, <2>7
    <2> QED  BY <1>2, <2>8, <2>9 DEF Ratchets, f
  <1> QED  BY <1>1, <1>2, LevelsAreNumbers

LEMMA AdoptedRatchets ==
  ASSUME NEW e, SoundTrail(e), NEW premium \in Nat \ {0}, trailKind = "adopted"
  PROVE  /\ SoundTrail(AdoptedTrail(e, premium))
         /\ AdoptedTrail(e, premium).armed => e.armed \/ premium >= Activation
  <1> USE DEF SoundTrail, Trails
  <1>1. CASE premium < Activation /\ ~e.armed
    BY <1>1, AdoptedLaw
  <1>2. CASE ~(premium < Activation /\ ~e.armed)
    <2> DEFINE old == IF e.armed THEN e.stop ELSE FirstStop
               m == Max({old, (3 * premium) \div 4})
    <2>1. AdoptedTrail(e, premium) = [stop |-> m, armed |-> TRUE]
      BY <1>2, AdoptedLaw
    <2>2. old \in Nat /\ old >= FirstStop /\ (3 * premium) \div 4 \in Nat
      BY LevelsAreNumbers
    <2>3. m \in Nat /\ m >= old
      BY <2>2, MaxOfTwo
    <2> HIDE DEF m, old
    <2>4. m > 0 /\ m >= FirstStop
      BY <2>2, <2>3, LevelsAreNumbers
    <2> QED  BY <1>2, <2>1, <2>3, <2>4, LevelsAreNumbers
  <1> QED  BY <1>1, <1>2

LEMMA TrailedRatchets ==
  ASSUME NEW e, SoundTrail(e), NEW premium \in Nat \ {0}, NEW gap \in Nat,
         trailKind \in {"debit", "structure", "adopted"},
         trailKind = "structure" => premium > StopPrice
  PROVE  /\ SoundTrail(Trailed(e, premium, gap))
         /\ Trailed(e, premium, gap).armed => e.armed \/ premium >= Activation
         /\ trailKind # "adopted" /\ Trailed(e, premium, gap).stop >= premium
              => Trailed(e, premium, gap).stop = e.stop
  <1>1. CASE trailKind = "adopted"
    BY <1>1, AdoptedRatchets DEF Trailed
  <1>2. CASE trailKind # "adopted" /\ premium >= TargetPrice
    <2>1. Trailed(e, premium, gap) = GapTrail(e, premium, gap, (3 * premium) \div 4)
      BY <1>2 DEF Trailed, PostTargetTrail
    <2>2. Ratchets(e, Trailed(e, premium, gap), premium)
      BY <1>2, <2>1, GapRatchets
    <2> QED  BY <2>2 DEF Ratchets
  <1>3. CASE trailKind # "adopted" /\ ~(premium >= TargetPrice)
    <2> DEFINE g == FvgTrail(e, premium, gap)
    <2>1. Ratchets(e, g, premium)
      BY <1>3, FvgRatchets
    <2> HIDE DEF g
    <2>2. SoundTrail(g)
      BY <2>1 DEF Ratchets
    <2>3. Ratchets(g, PercentTrail(g, premium), premium)
      BY <1>3, <2>2, PercentRatchets
    <2>4. Trailed(e, premium, gap) = PercentTrail(g, premium)
      BY <1>3 DEF Trailed, g
    <2> QED  BY <2>1, <2>3, <2>4 DEF Ratchets
  <1> QED  BY <1>1, <1>2, <1>3

-----------------------------------------------------------------------------
\* Of two engines that read the same mark, the one ahead stays ahead.

LEMMA GapDominates ==
  ASSUME NEW e, NEW f, SoundTrail(e), SoundTrail(f), Dominates(e, f),
         NEW premium \in Nat \ {0}, NEW gap \in Nat, NEW share \in Nat
  PROVE  Dominates(GapTrail(e, premium, gap, share), GapTrail(f, premium, gap, share))
  <1> USE DEF SoundTrail, Trails, Dominates
  <1> DEFINE m == Min({Max({gap, share}), (9 * premium) \div 10})
             e1 == GapTrail(e, premium, gap, share)
             f1 == GapTrail(f, premium, gap, share)
  <1>1. /\ m \in Nat
        /\ e1 = IF m > (IF e.stop = 0 THEN EntryPrice ELSE e.stop) THEN [stop |-> m, armed |-> e.armed] ELSE e
        /\ f1 = IF m > (IF f.stop = 0 THEN EntryPrice ELSE f.stop) THEN [stop |-> m, armed |-> f.armed] ELSE f
    BY GapLaw
  <1> SUFFICES e1.stop >= f1.stop /\ (f1.armed => e1.armed)
    OBVIOUS
  <1> HIDE DEF m, e1, f1
  <1>2. e1.armed = e.armed /\ f1.armed = f.armed
    BY <1>1
  <1>3. e1.stop >= f1.stop
    BY <1>1, LevelsAreNumbers
  <1> QED  BY <1>2, <1>3

LEMMA PercentDominates ==
  ASSUME NEW e, NEW f, SoundTrail(e), SoundTrail(f), Dominates(e, f),
         NEW premium \in Nat \ {0}, trailKind \in {"debit", "structure"}
  PROVE  Dominates(PercentTrail(e, premium), PercentTrail(f, premium))
  <1> USE DEF SoundTrail, Trails, Dominates
  <1>1. CASE premium < Activation
    BY <1>1, PercentLaw
  <1>2. CASE premium >= Activation
    <2> DEFINE share == ShareOf(premium)
               olde == IF e.armed THEN e.stop ELSE FirstStop
               oldf == IF f.armed THEN f.stop ELSE FirstStop
    <2>1. /\ PercentTrail(e, premium) = [stop |-> Max({olde, share}), armed |-> TRUE]
          /\ PercentTrail(f, premium) = [stop |-> Max({oldf, share}), armed |-> TRUE]
      BY <1>2, PercentLaw, LevelsAreNumbers
    <2>2. olde \in Nat /\ oldf \in Nat /\ share \in Nat
      BY LevelsAreNumbers, ShareLaw
    <2>3. olde >= oldf \/ share >= oldf
      BY <1>2, ShareLaw, LevelsAreNumbers
    <2>4. Max({olde, share}) >= Max({oldf, share})
      <3> HIDE DEF olde, oldf, share
      <3> QED  BY <2>2, <2>3, MaxOfTwo
    <2> QED  BY <2>1, <2>4
  <1> QED  BY <1>1, <1>2, LevelsAreNumbers

LEMMA AdoptedDominates ==
  ASSUME NEW e, NEW f, SoundTrail(e), SoundTrail(f), Dominates(e, f),
         NEW premium \in Nat \ {0}, trailKind = "adopted"
  PROVE  Dominates(AdoptedTrail(e, premium), AdoptedTrail(f, premium))
  <1> USE DEF SoundTrail, Trails, Dominates
  <1> DEFINE share == (3 * premium) \div 4
             olde == IF e.armed THEN e.stop ELSE FirstStop
             oldf == IF f.armed THEN f.stop ELSE FirstStop
  <1>1. olde \in Nat /\ oldf \in Nat /\ share \in Nat /\ olde >= oldf
    BY LevelsAreNumbers
  <1>2. Max({olde, share}) >= Max({oldf, share}) /\ Max({olde, share}) >= olde
    <2> HIDE DEF olde, oldf, share
    <2> QED  BY <1>1, MaxOfTwo
  <1>3. CASE premium < Activation /\ ~e.armed
    BY <1>3, AdoptedLaw
  <1>4. CASE ~(premium < Activation /\ ~e.armed)
    <2>1. AdoptedTrail(e, premium) = [stop |-> Max({olde, share}), armed |-> TRUE]
      BY <1>4, AdoptedLaw
    <2>2. CASE premium < Activation /\ ~f.armed
      <3>1. AdoptedTrail(f, premium) = f
        BY <2>2, AdoptedLaw
      <3>2. olde = e.stop
        BY <1>4, <2>2
      <3>3. Max({olde, share}) >= f.stop
        <4>1. Max({olde, share}) \in Nat
          <5> HIDE DEF olde, share
          <5> QED  BY <1>1, MaxOfTwo
        <4> HIDE DEF olde, share
        <4> QED  BY <1>2, <3>2, <4>1
      <3> QED  BY <2>1, <3>1, <3>3
    <2>3. CASE ~(premium < Activation /\ ~f.armed)
      <3>1. AdoptedTrail(f, premium) = [stop |-> Max({oldf, share}), armed |-> TRUE]
        BY <2>3, AdoptedLaw
      <3> QED  BY <2>1, <3>1, <1>2
    <2> QED  BY <2>2, <2>3
  <1> QED  BY <1>3, <1>4

LEMMA TrailedDominates ==
  ASSUME NEW e, NEW f, SoundTrail(e), SoundTrail(f), Dominates(e, f),
         NEW premium \in Nat \ {0}, NEW gap \in Nat,
         trailKind \in {"debit", "structure", "adopted"}
  PROVE  Dominates(Trailed(e, premium, gap), Trailed(f, premium, gap))
  <1>1. CASE trailKind = "adopted"
    BY <1>1, AdoptedDominates DEF Trailed
  <1>2. CASE trailKind # "adopted" /\ premium >= TargetPrice
    BY <1>2, GapDominates DEF Trailed, PostTargetTrail
  <1>3. CASE trailKind # "adopted" /\ ~(premium >= TargetPrice)
    <2> DEFINE g == FvgTrail(e, premium, gap)
               h == FvgTrail(f, premium, gap)
    <2>1. GainFloor(premium) \in Nat
      BY ShareLaw
    <2>2. Dominates(g, h)
      BY <2>1, GapDominates DEF FvgTrail
    <2>3. SoundTrail(g) /\ SoundTrail(h)
      BY <1>3, FvgRatchets DEF Ratchets
    <2> HIDE DEF g, h
    <2>4. Dominates(PercentTrail(g, premium), PercentTrail(h, premium))
      BY <1>3, <2>2, <2>3, PercentDominates
    <2> QED  BY <1>3, <2>4 DEF Trailed, g, h
  <1> QED  BY <1>1, <1>2, <1>3

-----------------------------------------------------------------------------
\* The row and the record keep the stop the next pass goes by; the row has seen the mark that armed
\* the engine that never restarted, so that one that restarts is armed again.
StopIsKept ==
    /\ SoundTrail(trailing) /\ SoundTrail(Going) /\ SoundTrail(steady)
    /\ saved.trail = Going.stop /\ loaded.trail = saved.trail
    /\ Dominates(Going, steady)
    /\ steady.armed => saved.best >= Activation

TrailKept == TrailTypeOK /\ (riding /\ trailKind # "volt" => StopIsKept)

LEMMA MarksAreNumbers ==
  /\ \A x \in {EntryPrice} \cup Premiums : x \in Nat /\ x > 0
  /\ \A r \in TrailRows : r.best \in Nat /\ r.trail \in Nat /\ r.best \in {0} \cup Premiums
  <1>1. \A x \in Premiums : x \in Nat /\ x > 0
    BY TrailAssumption
  <1>2. EntryPrice \in Nat /\ EntryPrice > 0
    BY LevelsAreNumbers
  <1> QED  BY <1>1, <1>2 DEF TrailRows

LEMMA ArmedIsBoolean ==
  ASSUME NEW r \in TrailRows PROVE WasArmed(r) \in BOOLEAN
  <1>1. (r.best >= Activation) \in BOOLEAN /\ (r.trail >= (5 * EntryPrice) \div 4) \in BOOLEAN
    OBVIOUS
  <1>2. WasArmed(r) = IF r.best > 0 THEN r.best >= Activation ELSE r.trail >= (5 * EntryPrice) \div 4
    BY DEF WasArmed
  <1> QED  BY <1>1, <1>2, Zenon

LEMMA SeedLaw ==
  ASSUME NEW e \in Trails, NEW r \in TrailRows
  PROVE  /\ Seed(e, r) = IF e.stop = 0 /\ r.trail > 0
                        THEN [stop |-> r.trail, armed |-> trailKind = "adopted" \/ WasArmed(r)] ELSE e
         /\ Seed(e, r) \in Trails
  <1>1. WasArmed(r) \in BOOLEAN
    BY ArmedIsBoolean
  <1>2. (trailKind = "adopted" \/ WasArmed(r)) \in BOOLEAN
    BY <1>1
  <1> QED  BY <1>1, <1>2 DEF Seed, Trails, TrailRows

LEMMA MarkedLaw ==
  ASSUME TrailTypeOK, NEW premium \in Premiums
  PROVE  /\ Marked(premium) \in TrailRows /\ Marked(premium).trail = saved.trail
         /\ Marked(premium).best >= premium /\ Marked(premium).best >= saved.best
         /\ \A x \in Nat : [Marked(premium) EXCEPT !.trail = x] = [trail |-> x, best |-> Marked(premium).best]
  <1>1. saved \in TrailRows /\ saved.best \in {0} \cup Premiums /\ saved.trail \in Nat
    BY DEF TrailTypeOK, TrailRows
  <1>2. saved.best \in Nat /\ premium \in Nat
    BY <1>1, MarksAreNumbers
  <1> DEFINE m == Max({saved.best, premium})
  <1>3. m >= saved.best /\ m >= premium /\ m \in {0} \cup Premiums
    BY <1>1, <1>2, MaxOfTwo
  <1>4. Marked(premium) = [trail |-> saved.trail, best |-> m]
    BY <1>1 DEF Marked, TrailRows
  <1> HIDE DEF m
  <1> QED  BY <1>1, <1>3, <1>4 DEF TrailRows

LEMMA PassKeeps ==
  ASSUME TrailKept, NEW premium \in Premiums, NEW gap \in Gaps, TrailPass(premium, gap)
  PROVE  TrailKept'
  <1>1. /\ trailKind \in {"debit", "structure", "adopted"} /\ riding
        /\ trailKind = "structure" => premium > StopPrice
        /\ premium \in Nat \ {0} /\ gap \in Nat
    BY TrailAssumption DEF TrailPass, HitsStop, TrailKept, TrailTypeOK
  <1>2. StopIsKept /\ TrailTypeOK
    BY <1>1 DEF TrailKept
  <1> DEFINE e == Trailed(Going, premium, gap)
             s == Trailed(steady, premium, gap)
             exit == e.stop > 0 /\ premium <= e.stop
  <1>3. /\ SoundTrail(e) /\ SoundTrail(s)
        /\ e.armed => Going.armed \/ premium >= Activation
        /\ s.armed => steady.armed \/ premium >= Activation
        /\ trailKind # "adopted" /\ e.stop >= premium => e.stop = Going.stop
    BY <1>1, <1>2, TrailedRatchets DEF StopIsKept
  <1>4. Dominates(e, s)
    BY <1>1, <1>2, TrailedDominates DEF StopIsKept
  <1>5. /\ trailing' = e /\ steady' = s /\ loaded' = saved'
        /\ saved' = [Marked(premium) EXCEPT !.trail = IF ~exit \/ trailKind = "adopted" THEN e.stop ELSE @]
        /\ UNCHANGED <<trailKind, peak>> /\ riding' \in BOOLEAN
    BY DEF TrailPass, Going, Leaves
  <1> HIDE DEF e, s
  <1>6. e \in Trails /\ s \in Trails /\ e.stop \in Nat
    BY <1>3 DEF SoundTrail, Trails
  <1>7. saved' = [trail |-> e.stop, best |-> Marked(premium).best]
    <2>1. (IF ~exit \/ trailKind = "adopted" THEN e.stop ELSE Marked(premium).trail) = e.stop
      BY <1>1, <1>2, <1>3, <1>6, MarkedLaw DEF StopIsKept
    <2> QED  BY <1>2, <1>5, <1>6, <2>1, MarkedLaw
  <1>8. saved' \in TrailRows /\ saved'.trail = e.stop /\ loaded'.trail = e.stop
        /\ saved'.best >= premium /\ saved'.best >= saved.best
    BY <1>2, <1>5, <1>6, <1>7, MarkedLaw DEF TrailRows
  <1>9. TrailTypeOK'
    BY <1>2, <1>5, <1>6, <1>8 DEF TrailTypeOK
  <1>10. Going' = e
    <2>1. Going' = (IF e.stop = 0 /\ e.stop > 0
                   THEN [stop |-> e.stop, armed |-> trailKind' = "adopted" \/ WasArmed(loaded)'] ELSE e)
      BY <1>5, <1>8 DEF Going, Seed
    <2> QED  BY <1>6, <2>1
  <1>11. Activation' = Activation /\ FirstStop' = FirstStop
    BY <1>5 DEF Activation, FirstStop
  <1>12. steady'.armed => saved'.best >= Activation
    <2>1. saved.best \in Nat /\ saved'.best \in Nat /\ Activation \in Nat
      BY <1>2, <1>8, LevelsAreNumbers, MarksAreNumbers DEF TrailTypeOK, TrailRows
    <2> QED  BY <1>1, <1>2, <1>3, <1>5, <1>8, <2>1 DEF StopIsKept
  <1> QED  BY <1>3, <1>4, <1>5, <1>8, <1>9, <1>10, <1>11, <1>12
           DEF TrailKept, StopIsKept, SoundTrail, Dominates

LEMMA VoltKeeps ==
  ASSUME TrailKept, NEW premium \in Premiums, VoltPass(premium) PROVE TrailKept'
  <1>1. TrailTypeOK /\ trailKind = "volt" /\ trailKind' = trailKind /\ steady' = steady /\ loaded' = saved'
    BY DEF TrailKept, VoltPass
  <1>2. peak' \in {EntryPrice} \cup Premiums
    BY <1>1, MarksAreNumbers, MaxOfTwo DEF VoltPass, TrailTypeOK
  <1>3. EntryPrice + (peak' - EntryPrice) \div 2 \in Nat
    <2>1. \A x, y \in Nat : x + (y - x) \div 2 \in Nat
      OBVIOUS
    <2> QED  BY <1>2, <2>1, MarksAreNumbers, LevelsAreNumbers
  <1>4. saved' \in TrailRows
    <2>1. \E x \in Nat : saved' = [Marked(premium) EXCEPT !.trail = x]
      <3>1. Marked(premium).trail \in Nat
        BY <1>1, MarkedLaw DEF TrailRows
      <3> QED  BY <1>3, <3>1 DEF VoltPass
    <2> QED  BY <1>1, <2>1, MarkedLaw DEF TrailRows
  <1>5. trailing' \in Trails
    BY <1>1, SeedLaw DEF VoltPass, TrailTypeOK
  <1>6. riding' \in BOOLEAN
    BY DEF VoltPass, Leaves
  <1> QED  BY <1>1, <1>2, <1>4, <1>5, <1>6 DEF TrailKept, TrailTypeOK

LEMMA OtherKeeps ==
  ASSUME TrailKept, NEW premium \in Premiums, OtherDecision(premium) PROVE TrailKept'
  <1>1. /\ TrailTypeOK /\ riding /\ saved' = Marked(premium)
        /\ trailing' = trailing \/ trailing' = Going
        /\ UNCHANGED <<trailKind, peak, loaded, steady>> /\ riding' \in BOOLEAN
    BY DEF TrailKept, OtherDecision, Leaves, Going
  <1>2. Going \in Trails /\ trailing \in Trails /\ loaded \in TrailRows
    BY <1>1, SeedLaw DEF TrailTypeOK, Going
  <1>3. saved' \in TrailRows /\ saved'.trail = saved.trail /\ saved'.best >= saved.best
    BY <1>1, MarkedLaw
  <1>4. TrailTypeOK'
    BY <1>1, <1>2, <1>3 DEF TrailTypeOK
  <1>5. Activation' = Activation /\ FirstStop' = FirstStop
    BY <1>1 DEF Activation, FirstStop
  <1>6. Going' = Going
    <2>1. Going' = IF trailing'.stop = 0 /\ loaded.trail > 0
                  THEN [stop |-> loaded.trail, armed |-> trailKind = "adopted" \/ WasArmed(loaded)] ELSE trailing'
      BY <1>1, <1>5 DEF Going, Seed, WasArmed
    <2>2. Going = IF trailing.stop = 0 /\ loaded.trail > 0
                  THEN [stop |-> loaded.trail, armed |-> trailKind = "adopted" \/ WasArmed(loaded)] ELSE trailing
      BY DEF Going, Seed
    <2> QED  BY <1>1, <1>2, <2>1, <2>2 DEF TrailRows
  <1>7. ASSUME StopIsKept PROVE StopIsKept'
    <2>1. saved'.best \in Nat /\ saved.best \in Nat /\ Activation \in Nat
      BY <1>1, <1>3, LevelsAreNumbers, MarksAreNumbers DEF TrailTypeOK, TrailRows
    <2>2. SoundTrail(trailing)'
      BY <1>1, <1>5, <1>7 DEF StopIsKept, SoundTrail
    <2> QED  BY <1>1, <1>3, <1>5, <1>6, <1>7, <2>1, <2>2 DEF StopIsKept, SoundTrail, Dominates
  <1> QED  BY <1>1, <1>4, <1>7 DEF TrailKept

LEMMA RestartKeeps == ASSUME TrailKept, RestartTrail PROVE TrailKept'
  <1>1. /\ TrailTypeOK /\ riding /\ trailing' = NoTrail /\ peak' = EntryPrice /\ loaded' = saved'
        /\ UNCHANGED <<trailKind, riding, steady>>
    BY DEF TrailKept, RestartTrail
  <1>2. saved' \in TrailRows /\ saved'.trail = saved.trail /\ saved'.best >= saved.best
    <2>1. CASE saved' = saved
      BY <1>1, <2>1, MarksAreNumbers DEF TrailTypeOK
    <2>2. ASSUME NEW premium \in Premiums, saved' = Marked(premium)
          PROVE  saved' \in TrailRows /\ saved'.trail = saved.trail /\ saved'.best >= saved.best
      BY <1>1, <2>2, MarkedLaw
    <2> QED  BY <2>1, <2>2 DEF RestartTrail
  <1>3. TrailTypeOK'
    BY <1>1, <1>2 DEF TrailTypeOK, NoTrail, Trails
  <1>4. Activation' = Activation /\ FirstStop' = FirstStop
    BY <1>1 DEF Activation, FirstStop
  <1>5. ASSUME trailKind # "volt", StopIsKept PROVE StopIsKept'
    <2>1. Going' = IF saved'.trail > 0
                  THEN [stop |-> saved'.trail, armed |-> trailKind = "adopted" \/ WasArmed(saved')] ELSE NoTrail
      BY <1>1, <1>4 DEF Going, Seed, WasArmed, NoTrail
    <2>2. saved'.best \in Nat /\ saved.best \in Nat /\ Activation \in Nat /\ Activation > 0
          /\ saved.trail \in Nat
      BY <1>1, <1>2, LevelsAreNumbers, MarksAreNumbers DEF TrailTypeOK, TrailRows
    <2>3. Going'.stop = saved.trail
      BY <1>2, <2>1, <2>2 DEF NoTrail
    <2>4. steady.armed => Going'.armed
      <3> SUFFICES ASSUME steady.armed PROVE Going'.armed
        OBVIOUS
      <3>1. steady.stop > 0 /\ Going.stop >= steady.stop /\ saved.trail = Going.stop
        BY <1>5 DEF StopIsKept, SoundTrail, Dominates
      <3>2. saved.trail > 0
        BY <2>2, <3>1, <1>5 DEF StopIsKept, SoundTrail, Trails
      <3>3. saved'.best >= Activation
        BY <1>2, <2>2, <1>5 DEF StopIsKept
      <3>4. WasArmed(saved')
        BY <2>2, <3>3 DEF WasArmed
      <3> QED  BY <1>2, <2>1, <3>2, <3>4
    <2>5. SoundTrail(Going)'
      <3>1. Going' \in Trails
        <4>1. saved' \in TrailRows
          BY <1>2
        <4>2. WasArmed(saved') \in BOOLEAN
          BY <4>1, ArmedIsBoolean
        <4>3. (trailKind = "adopted" \/ WasArmed(saved')) \in BOOLEAN
          BY <4>2
        <4> QED  BY <1>2, <2>1, <2>2, <4>3 DEF Trails, NoTrail
      <3>2. Going'.armed => Going'.stop > 0
        BY <1>2, <2>1, <2>2 DEF NoTrail
      <3>3. trailKind # "debit" /\ Going'.stop > 0 => Going'.stop >= FirstStop
        BY <1>5, <2>3 DEF StopIsKept, SoundTrail
      <3> QED  BY <1>1, <1>4, <3>1, <3>2, <3>3 DEF SoundTrail
    <2>6. SoundTrail(trailing)' /\ SoundTrail(steady)'
      BY <1>1, <1>4, <1>5 DEF StopIsKept, SoundTrail, NoTrail, Trails
    <2>7. Dominates(Going, steady)'
      BY <1>1, <1>5, <2>3, <2>4 DEF StopIsKept, Dominates
    <2>8. steady'.armed => saved'.best >= Activation'
      BY <1>1, <1>2, <1>4, <1>5, <2>2 DEF StopIsKept
    <2> QED  BY <1>1, <1>2, <2>3, <2>5, <2>6, <2>7, <2>8 DEF StopIsKept
  <1> QED  BY <1>1, <1>3, <1>5 DEF TrailKept

LEMMA TrailKeptHolds == TrailSpec => []TrailKept
  <1>1. TrailInit => TrailKept
    <2> SUFFICES ASSUME TrailInit PROVE TrailKept
      OBVIOUS
    <2>1. /\ trailing = NoTrail /\ steady = NoTrail /\ peak = EntryPrice /\ saved = loaded
          /\ loaded = [trail |-> 0, best |-> 0] /\ riding = TRUE /\ trailKind \in Kinds
      BY DEF TrailInit
    <2>2. Going = NoTrail
      BY <2>1 DEF Going, Seed
    <2>3. TrailTypeOK
      BY <2>1 DEF TrailTypeOK, NoTrail, Trails, TrailRows
    <2> QED  BY <2>1, <2>2, <2>3 DEF TrailKept, StopIsKept, SoundTrail, Dominates, NoTrail, Trails
  <1>2. TrailKept /\ [TrailNext]_trailVars => TrailKept'
    <2>1. ASSUME TrailKept, UNCHANGED trailVars PROVE TrailKept'
      <3>1. TrailTypeOK' = TrailTypeOK /\ Going' = Going /\ Activation' = Activation /\ FirstStop' = FirstStop
        BY <2>1 DEF trailVars, TrailTypeOK, Going, Seed, WasArmed, Activation, FirstStop
      <3> QED  BY <2>1, <3>1 DEF trailVars, TrailKept, StopIsKept, SoundTrail, Dominates
    <2> QED  BY <2>1, PassKeeps, VoltKeeps, OtherKeeps, RestartKeeps DEF TrailNext
  <1> QED  BY <1>1, <1>2, PTL DEF TrailSpec

\* A restart in the middle of a trade, or of a pass of it, never loosens the stop, whatever the prices,
\* the gaps and the marks (_seed_trail, _row_implies_active, update_current_premium).
THEOREM RestartLoosensNothing == TrailSpec => []RestartKeepsTheStop
  <1>1. TrailKept => RestartKeepsTheStop
    BY DEF TrailKept, StopIsKept, Dominates, Going, RestartKeepsTheStop
  <1> QED  BY <1>1, TrailKeptHolds, PTL

\* The trail, the record's and the row's are levels of marks that were read.
THEOREM TrailIsTyped == TrailSpec => []TrailTypeOK
  <1>1. TrailKept => TrailTypeOK
    BY DEF TrailKept
  <1> QED  BY <1>1, TrailKeptHolds, PTL

(***************************************************************************)
(* The order walk: a refused price never returns, for every quote,         *)
(* increment, table length and number of attempts.  The arithmetic of one  *)
(* quote first.                                                            *)
(***************************************************************************)
\* The venue's increment is positive (tick_size.resolve).
LEMMA IncrementPositive ==
    ASSUME NEW q \in Quotes
    PROVE  Increment(q) \in Nat \ {0}
BY LadderAssumption DEF Increment

\* The mark is a price (rungs).
LEMMA MarkIsAPrice ==
    ASSUME NEW q \in Quotes
    PROVE  /\ Mark(q) \in Nat
           /\ Usable(q) => Mark(q) > 0
BY LadderAssumption DEF Mark, Usable

\* Snapping up does not lower a price, snapping down does not raise it
\* (_snap_in_our_favour).
LEMMA SnapLaw ==
    ASSUME NEW p \in Nat, NEW n \in Nat \ {0}
    PROVE  /\ Up(p, n) \in Nat /\ Up(p, n) >= p
           /\ Down(p, n) \in Nat /\ Down(p, n) <= p
<1>1. \A a \in Nat : /\ (a \div n) * n \in Nat /\ (a \div n) * n <= a
                     /\ a < (a \div n) * n + n
  OBVIOUS
<1>2. /\ ((p + n - 1) \div n) * n \in Nat
      /\ p + n - 1 < ((p + n - 1) \div n) * n + n
  <2>1. p + n - 1 \in Nat  OBVIOUS
  <2> QED  BY <1>1, <2>1
<1>3. Up(p, n) \in Nat /\ Up(p, n) >= p
  BY <1>2 DEF Up
<1>4. Down(p, n) \in Nat /\ Down(p, n) <= p
  BY <1>1 DEF Down
<1> QED  BY <1>3, <1>4

\* The mark's price on the grid is never worse than mark (_snap_mark_in_our_favour).
LEMMA MarkOnGridLaw ==
    ASSUME NEW q \in Quotes, NEW i
    PROVE  /\ MarkOnGrid(i, q) \in Nat
           /\ ~Better(i, Mark(q), MarkOnGrid(i, q))
           /\ NeverZero(MarkOnGrid(i, q), q) \in Nat \ {0}
<1>1. /\ Up(Mark(q), Increment(q)) \in Nat /\ Up(Mark(q), Increment(q)) >= Mark(q)
      /\ Down(Mark(q), Increment(q)) \in Nat /\ Down(Mark(q), Increment(q)) <= Mark(q)
  BY SnapLaw, IncrementPositive, MarkIsAPrice
<1>2. MarkOnGrid(i, q) \in Nat /\ ~Better(i, Mark(q), MarkOnGrid(i, q))
  BY <1>1, MarkIsAPrice DEF MarkOnGrid, InOurFavour, Better
<1> QED  BY <1>2, IncrementPositive DEF NeverZero

\* A rung is a positive price, and it is mark's or better than mark (rungs).
LEMMA RungLaw ==
    ASSUME NEW q \in Quotes, Usable(q), NEW i, NEW k \in Nat
    PROVE  /\ Rung(i, q, k) \in Nat \ {0}
           /\ Better(i, Rung(i, q, k), Mark(q)) \/ AtMark(i, q, Rung(i, q, k))
<1> DEFINE n == Increment(q)
           quarter == IF i \in Sells THEN 4 * q[2] - (q[2] - q[1]) ELSE 4 * q[1] + (q[2] - q[1])
           start == InOurFavour(i, quarter, n)
           skipped == IF start <= 0 THEN 1 ELSE 0
           rung == IF i \in Sells THEN start - (k + skipped) * n ELSE start + (k + skipped) * n
<1>1. n \in Nat \ {0} /\ Mark(q) \in Nat /\ Mark(q) > 0
  BY IncrementPositive, MarkIsAPrice
<1>2. quarter \in Nat
  BY LadderAssumption DEF Usable
<1>3. start \in Nat
  <2> HIDE DEF quarter, n
  <2> QED  BY <1>1, <1>2, SnapLaw DEF InOurFavour
<1>4. (k + skipped) * n \in Nat /\ (skipped = 1 => (k + skipped) * n > 0)
  <2>1. skipped \in {0, 1} /\ k + skipped \in Nat /\ (skipped = 1 => k + skipped > 0)
    <3> HIDE DEF start
    <3> QED  OBVIOUS
  <2> HIDE DEF skipped, n
  <2>2. \A a \in Nat : a * n \in Nat /\ (a > 0 => a * n > 0)
    BY <1>1
  <2> QED  BY <2>1, <2>2
<1>5. rung \in Int /\ (i \notin Sells => rung > 0)
  <2>1. skipped = 1 \/ start > 0
    <3> HIDE DEF start
    <3> QED  BY <1>3
  <2> DEFINE move == (k + skipped) * n
  <2>2. rung = IF i \in Sells THEN start - move ELSE start + move
    OBVIOUS
  <2>3. move \in Nat /\ (skipped = 1 => move > 0)
    BY <1>4
  <2> HIDE DEF move, start, skipped, rung
  <2> QED  BY <1>3, <2>1, <2>2, <2>3
<1>6. Rung(i, q, k) = IF q[1] = q[2] THEN Mark(q)
                      ELSE IF k + skipped < MaxRungs /\ Better(i, rung, Mark(q)) THEN rung
                      ELSE NeverZero(MarkOnGrid(i, q), q)
  BY DEF Rung
<1> HIDE DEF rung, skipped, n
<1>7. Better(i, rung, Mark(q)) => rung \in Nat \ {0}
  BY <1>1, <1>5 DEF Better
<1> QED  BY <1>1, <1>6, <1>7, MarkOnGridLaw DEF AtMark

\* The next price of a walk is mark's, or better than mark and past the refusal
\* the walk carries (LadderState.next_price).
LEMMA NextPriceLaw ==
    ASSUME NEW q \in Quotes, Usable(q), NEW i, NEW w,
           w.rung \in Nat, w.refused \in Nat
    PROVE  LET p == NextPrice(i, q, w)
           IN  /\ p \in Nat \ {0}
               /\ \/ AtMark(i, q, p)
                  \/ /\ Better(i, p, Mark(q))
                     /\ w.refused # NoPrice => Better(i, w.refused, p)
<1> DEFINE n == Increment(q)
           g == Rung(i, q, w.rung)
           r == Ratchet(i, q, w)
<1>1. n \in Nat \ {0} /\ Mark(q) \in Nat /\ Mark(q) > 0
  BY IncrementPositive, MarkIsAPrice
<1>2. g \in Nat \ {0} /\ (Better(i, g, Mark(q)) \/ AtMark(i, q, g))
  BY RungLaw
<1>3. r = IF w.refused # NoPrice /\ ~Better(i, w.refused, g) THEN StepIn(i, w.refused, n) ELSE g
  BY DEF Ratchet
<1>4. NextPrice(i, q, w) = NeverZero(IF Better(i, Mark(q), r) THEN MarkOnGrid(i, q) ELSE r, q)
  BY DEF NextPrice
<1> HIDE DEF n, g, r
<1>5. r \in Int /\ (w.refused # NoPrice => Better(i, w.refused, r))
  BY <1>1, <1>2, <1>3 DEF Better, StepIn
<1>6. CASE Better(i, Mark(q), r)
  BY <1>4, <1>6, MarkOnGridLaw DEF AtMark
<1>7. CASE ~Better(i, Mark(q), r)
  <2>1. r > 0
    BY <1>1, <1>2, <1>3, <1>7 DEF Better, StepIn
  <2>2. NextPrice(i, q, w) = r
    BY <1>4, <1>5, <1>7, <2>1 DEF NeverZero
  <2>3. Better(i, r, Mark(q)) \/ r = Mark(q)
    BY <1>1, <1>5, <1>7 DEF Better
  <2> QED  BY <1>5, <2>1, <2>2, <2>3 DEF AtMark
<1> QED  BY <1>6, <1>7

(***************************************************************************)
(* The invariant: the refusal a walk carries is the worst it was given, so *)
(* a price past it is past them all.                                       *)
(***************************************************************************)
WorstIsKept ==
    \A r \in asked : walk.refused # NoPrice /\ ~Better(intent, walk.refused, r)

LadderInv ==
    /\ LadderTypeOK
    /\ walk = NoWalk \/ walk.rung \in Nat
    /\ WorstIsKept
    /\ RefusedNeverReturns

\* What refuse makes of a walk, field by field.
LEMMA RefuseLaw ==
    ASSUME NEW w \in [rung: 0..MaxRefusals, refused: Nat, structure: {"any", "a", "b"}],
           w.rung < MaxRefusals, NEW p \in Nat \ {0}
    PROVE  /\ Refuse(w, p) \in [rung: 0..MaxRefusals, refused: Nat, structure: {"any", "a", "b"}]
           /\ Refuse(w, p).refused = IF w.refused = NoPrice \/ Better(intent, w.refused, p)
                                     THEN p ELSE w.refused
<1>1. Refuse(w, p) = [rung |-> w.rung + 1,
                      refused |-> IF w.refused = NoPrice \/ Better(intent, w.refused, p)
                                  THEN p ELSE w.refused,
                      structure |-> w.structure]
  BY DEF Refuse
<1>2. MaxRefusals \in Nat /\ w.rung + 1 \in 0..MaxRefusals
  BY LadderAssumption
<1> QED  BY <1>1, <1>2

\* The refusal kept after p was refused is no further out than p, nor than any
\* refusal kept before it.
LEMMA RefuseKeepsTheWorst ==
    ASSUME NEW w \in [rung: 0..MaxRefusals, refused: Nat, structure: {"any", "a", "b"}],
           w.rung < MaxRefusals, NEW p \in Nat \ {0},
           NEW S, S \subseteq Nat \ {0},
           \A r \in S : w.refused # NoPrice /\ ~Better(intent, w.refused, r)
    PROVE  \A r \in S \cup {p} :
             Refuse(w, p).refused # NoPrice /\ ~Better(intent, Refuse(w, p).refused, r)
<1>1. Refuse(w, p).refused = IF w.refused = NoPrice \/ Better(intent, w.refused, p)
                             THEN p ELSE w.refused
  BY RefuseLaw
<1> SUFFICES ASSUME NEW r \in S \cup {p}
             PROVE  Refuse(w, p).refused # NoPrice /\ ~Better(intent, Refuse(w, p).refused, r)
  OBVIOUS
<1>2. r \in S => w.refused # NoPrice /\ ~Better(intent, w.refused, r)
  OBVIOUS
<1>3. r \in Nat \ {0} /\ w.refused \in Nat
  OBVIOUS
<1> QED  BY <1>1, <1>2, <1>3 DEF Better, NoPrice

\* A resumed walk is a walk, and it carries the refusals of its structure.
LEMMA ResumedLaw ==
    ASSUME LadderInv, NEW s \in {"any", "a", "b"}
    PROVE  /\ Resumed(s) \in [rung: 0..MaxRefusals, refused: Nat, structure: {"any", "a", "b"}]
           /\ walk # NoWalk /\ idle <= StaleAfter /\ walk.structure = s => Resumed(s) = walk
<1>1. MaxRefusals \in Nat  BY LadderAssumption
<1>2. CASE walk = NoWalk \/ idle > StaleAfter
  <2>1. Resumed(s) = [rung |-> 0, refused |-> 0, structure |-> s]
    BY <1>2 DEF Resumed, NewWalk, NoPrice
  <2>2. ~(walk # NoWalk /\ idle <= StaleAfter)
    BY <1>2, LadderAssumption DEF LadderInv, LadderTypeOK
  <2> QED  BY <1>1, <2>1, <2>2
<1>3. CASE ~(walk = NoWalk \/ idle > StaleAfter)
  <2>1. walk \in [rung: 0..MaxRefusals, refused: Nat, structure: {"any", "a", "b"}]
    <3>1. walk.rung \in Nat /\ walk \in [rung: -1..MaxRefusals, refused: Nat, structure: {"any", "a", "b"}]
      BY <1>3 DEF LadderInv, LadderTypeOK
    <3> QED  BY <1>1, <3>1
  <2>2. CASE walk.structure = s
    BY <1>3, <2>1, <2>2 DEF Resumed
  <2>3. CASE walk.structure # s
    <3>1. Resumed(s) = [rung |-> walk.rung, refused |-> 0, structure |-> s]
      BY <1>3, <2>1, <2>3 DEF Resumed, NoPrice
    <3> QED  BY <2>1, <2>3, <3>1
  <2> QED  BY <2>2, <2>3
<1> QED  BY <1>2, <1>3

\* The invariant holds of a walk that has not begun.
LEMMA InitLadder == LadderInit => LadderInv
BY LadderAssumption DEF LadderInit, LadderInv, LadderTypeOK, WorstIsKept, RefusedNeverReturns,
   NoWalk, NewWalk, NoPrice

\* An attempt keeps the invariant.
LEMMA AttemptKeeps ==
    ASSUME LadderInv, NEW q \in Quotes, NEW s \in Structures, Attempt(q, s)
    PROVE  LadderInv'
<1> DEFINE W == [rung: 0..MaxRefusals, refused: Nat, structure: {"any", "a", "b"}]
           w == Resumed(s)
           p == NextPrice(intent, q, w)
           earlier == IF walk # NoWalk /\ idle <= StaleAfter /\ walk.structure = s THEN asked ELSE {}
<1>1. /\ Usable(q) /\ idle' = 0 /\ intent' = intent
      /\ posted' = [quote |-> q, price |-> p, after |-> earlier]
      /\ \/ walk' = NoWalk /\ asked' = {}
         \/ w.rung < MaxRefusals /\ walk' = Refuse(w, p) /\ asked' = earlier \cup {p}
         \/ walk' = w /\ asked' = earlier
  BY DEF Attempt
<1>2. s \in {"any", "a", "b"}
  BY DEF Structures
<1>3. w \in W /\ (walk # NoWalk /\ idle <= StaleAfter /\ walk.structure = s => w = walk)
  BY <1>2, ResumedLaw
<1>4. earlier \subseteq Nat \ {0} /\ \A r \in earlier : w.refused # NoPrice /\ ~Better(intent, w.refused, r)
  BY <1>3 DEF LadderInv, LadderTypeOK, WorstIsKept, NoPrice
<1>5. w.rung \in Nat /\ w.refused \in Nat
  BY <1>3, LadderAssumption
<1>6. /\ p \in Nat \ {0}
      /\ \/ AtMark(intent, q, p)
         \/ /\ Better(intent, p, Mark(q))
            /\ w.refused # NoPrice => Better(intent, w.refused, p)
  BY <1>1, <1>5, NextPriceLaw
<1> HIDE DEF w, p, earlier
<1>7. \/ AtMark(intent, q, p)
      \/ Better(intent, p, Mark(q)) /\ \A r \in earlier : Better(intent, r, p)
  <2>1. ASSUME NEW r \in earlier, w.refused # NoPrice => Better(intent, w.refused, p)
        PROVE  Better(intent, r, p)
    <3>1. w.refused # NoPrice /\ ~Better(intent, w.refused, r) /\ r \in Nat
      BY <1>4
    <3> QED  BY <1>5, <1>6, <2>1, <3>1 DEF Better
  <2> QED  BY <1>6, <2>1
<1>8. RefusedNeverReturns'
  <2>1. posted'.quote = q /\ posted'.price = p /\ posted'.after = earlier
    BY <1>1
  <2> QED  BY <1>1, <1>7, <2>1 DEF RefusedNeverReturns, AtMark, Better, Mark, MarkOnGrid, NeverZero, InOurFavour, Increment
<1>9. posted' \in [quote: Quotes, price: Nat \ {NoPrice}, after: SUBSET (Nat \ {NoPrice})]
  BY <1>1, <1>4, <1>6 DEF NoPrice
<1>10. idle' \in 0..(StaleAfter + 1) /\ intent' \in Intents
  BY <1>1, LadderAssumption DEF LadderInv, LadderTypeOK
<1>11. CASE walk' = NoWalk /\ asked' = {}
  <2>1. NoWalk \in [rung: -1..MaxRefusals, refused: Nat, structure: {"any", "a", "b"}]
    BY LadderAssumption DEF NoWalk, NewWalk, NoPrice
  <2> QED  BY <1>8, <1>9, <1>10, <1>11, <2>1 DEF LadderInv, LadderTypeOK, WorstIsKept
<1>12. ASSUME NEW S, S \subseteq Nat \ {0}, walk' \in W, asked' = S,
              \A r \in S : walk'.refused # NoPrice /\ ~Better(intent, walk'.refused, r)
       PROVE  LadderInv'
  <2>1. /\ walk' \in [rung: -1..MaxRefusals, refused: Nat, structure: {"any", "a", "b"}]
        /\ walk'.rung \in Nat
    BY <1>12, LadderAssumption
  <2>2. WorstIsKept'
    BY <1>1, <1>12 DEF WorstIsKept, Better
  <2> QED  BY <1>8, <1>9, <1>10, <1>12, <2>1, <2>2 DEF LadderInv, LadderTypeOK, NoPrice
<1>13. CASE w.rung < MaxRefusals /\ walk' = Refuse(w, p) /\ asked' = earlier \cup {p}
  <2>1. Refuse(w, p) \in W
    BY <1>3, <1>6, <1>13, RefuseLaw
  <2>2. \A r \in earlier \cup {p} :
          Refuse(w, p).refused # NoPrice /\ ~Better(intent, Refuse(w, p).refused, r)
    BY <1>3, <1>4, <1>6, <1>13, RefuseKeepsTheWorst
  <2> QED  BY <1>4, <1>6, <1>12, <1>13, <2>1, <2>2
<1>14. CASE walk' = w /\ asked' = earlier
  BY <1>3, <1>4, <1>12, <1>14
<1> QED  BY <1>1, <1>11, <1>13, <1>14

\* So does an order posted at mark beside the walk.
LEMMA PostAtMarkKeeps ==
    ASSUME LadderInv, NEW q \in Quotes, PostAtMark(q)
    PROVE  LadderInv'
<1> DEFINE W == [rung: 0..MaxRefusals, refused: Nat, structure: {"any", "a", "b"}]
           p == NeverZero(MarkOnGrid(intent, q), q)
<1>1. /\ walk # NoWalk /\ intent' = intent /\ posted' = posted
      /\ \/ walk' = NoWalk /\ asked' = {} /\ idle' = idle
         \/ /\ walk.rung < MaxRefusals
            /\ walk' = Refuse(walk, p) /\ asked' = asked \cup {p} /\ idle' = 0
  BY DEF PostAtMark
<1>2. p \in Nat \ {0}
  BY MarkOnGridLaw
<1>3. walk \in W
  <2>1. walk.rung \in Nat /\ walk \in [rung: -1..MaxRefusals, refused: Nat, structure: {"any", "a", "b"}]
    BY <1>1 DEF LadderInv, LadderTypeOK
  <2> QED  BY <2>1, LadderAssumption
<1> HIDE DEF p
<1>4. RefusedNeverReturns'
  BY <1>1 DEF LadderInv, RefusedNeverReturns, AtMark, Better, Mark, MarkOnGrid, NeverZero, InOurFavour, Increment
<1>5. CASE walk' = NoWalk /\ asked' = {} /\ idle' = idle
  <2>1. NoWalk \in [rung: -1..MaxRefusals, refused: Nat, structure: {"any", "a", "b"}]
    BY LadderAssumption DEF NoWalk, NewWalk, NoPrice
  <2> QED  BY <1>1, <1>4, <1>5, <2>1 DEF LadderInv, LadderTypeOK, WorstIsKept
<1>6. CASE /\ walk.rung < MaxRefusals
           /\ walk' = Refuse(walk, p) /\ asked' = asked \cup {p} /\ idle' = 0
  <2>1. Refuse(walk, p) \in W
    BY <1>2, <1>3, <1>6, RefuseLaw
  <2>2. asked \subseteq Nat \ {0} /\ \A r \in asked : walk.refused # NoPrice /\ ~Better(intent, walk.refused, r)
    BY DEF LadderInv, LadderTypeOK, WorstIsKept, NoPrice
  <2>3. \A r \in asked \cup {p} :
          Refuse(walk, p).refused # NoPrice /\ ~Better(intent, Refuse(walk, p).refused, r)
    BY <1>2, <1>3, <1>6, <2>2, RefuseKeepsTheWorst
  <2>4. WorstIsKept'
    BY <1>1, <1>6, <2>3 DEF WorstIsKept, Better
  <2>5. walk' \in [rung: -1..MaxRefusals, refused: Nat, structure: {"any", "a", "b"}] /\ walk'.rung \in Nat
    BY <1>6, <2>1, LadderAssumption
  <2>6. idle' \in 0..(StaleAfter + 1) /\ asked' \subseteq Nat \ {NoPrice}
    BY <1>2, <1>6, <2>2, LadderAssumption DEF NoPrice
  <2> QED  BY <1>1, <1>4, <2>4, <2>5, <2>6 DEF LadderInv, LadderTypeOK
<1> QED  BY <1>1, <1>5, <1>6

\* So does every step.
LEMMA NextLadder == LadderInv /\ [LadderNext]_lwVars => LadderInv'
<1> SUFFICES ASSUME LadderInv, [LadderNext]_lwVars PROVE LadderInv'
  OBVIOUS
<1>1. CASE \E q \in Quotes : PostAtMark(q)
  BY <1>1, PostAtMarkKeeps
<1>2. CASE \E q \in Quotes : \E s \in Structures : Attempt(q, s)
  BY <1>2, AttemptKeeps
<1>3. ASSUME walk' = walk, asked' = asked, intent' = intent, posted' = posted, idle' \in 0..(StaleAfter + 1)
      PROVE  LadderInv'
  BY <1>3 DEF LadderInv, LadderTypeOK, WorstIsKept, RefusedNeverReturns, AtMark, Better, Mark,
     MarkOnGrid, NeverZero, InOurFavour, Increment
<1>4. CASE Lull
  <2>1. idle + 1 \in 0..(StaleAfter + 1)
    BY <1>4, LadderAssumption DEF Lull, LadderInv, LadderTypeOK
  <2> QED  BY <1>3, <1>4, <2>1 DEF Lull
<1>5. CASE UNCHANGED lwVars
  BY <1>3, <1>5 DEF lwVars, LadderInv, LadderTypeOK
<1>6. CASE Lost
  <2>1. NoWalk \in [rung: -1..MaxRefusals, refused: Nat, structure: {"any", "a", "b"}]
    BY LadderAssumption DEF NoWalk, NewWalk, NoPrice
  <2>2. RefusedNeverReturns'
    BY <1>6 DEF Lost, LadderInv, RefusedNeverReturns, AtMark, Better, Mark, MarkOnGrid, NeverZero, InOurFavour, Increment
  <2> QED  BY <1>6, <2>1, <2>2 DEF Lost, LadderInv, LadderTypeOK, WorstIsKept
<1> QED  BY <1>1, <1>2, <1>4, <1>5, <1>6 DEF LadderNext

LEMMA LadderIsTyped == LadderSpec => []LadderTypeOK
<1>1. LadderInv => LadderTypeOK
  BY DEF LadderInv
<1> QED  BY <1>1, InitLadder, NextLadder, PTL DEF LadderSpec

\* No price a walk was refused is posted again by it except as the mark's price,
\* and none is worse than mark but the one increment (LadderState.next_price,
\* refuse), for all quotes, increments and lengths of the ladder.
THEOREM RefusedPricesStayOff == LadderSpec => []RefusedNeverReturns
<1>1. LadderInv => RefusedNeverReturns
  BY DEF LadderInv
<1> QED  BY <1>1, InitLadder, NextLadder, PTL DEF LadderSpec

(***************************************************************************)
(* The parts side by side.                                                 *)
(***************************************************************************)
\* The trades of the day and the list are well typed.
LEMMA DayIsTyped == DaySpec => []DayTypeOK
<1> QED  BY DayTypesHold, PTL

\* The steps of a part are the steps of its own module, and a behaviour stays with its part.
LEMMA PartsStay ==
    [PartsNext]_partVars =>
      /\ UNCHANGED part
      /\ part = "warehouse" => [WarehouseNext]_whVars
      /\ part = "watchdog" => [WatchdogNext]_wdVars
      /\ part = "orb" => [OrbNext]_orbVars
      /\ part = "condor" => [CondorNext]_cdVars
      /\ part = "ladder" => [LadderNext]_lwVars
      /\ part = "feed" => [FeedNext]_feedVars
      /\ part = "levels" => [LevelNext]_lbVars
      /\ part = "cap" => [CapNext]_capVars
      /\ part = "trail" => [TrailNext]_trailVars
      /\ part = "day" => [DayNext]_dayVars
<1> SUFFICES ASSUME [PartsNext]_partVars
             PROVE  /\ UNCHANGED part
                    /\ part = "warehouse" => [WarehouseNext]_whVars
                    /\ part = "watchdog" => [WatchdogNext]_wdVars
                    /\ part = "orb" => [OrbNext]_orbVars
                    /\ part = "condor" => [CondorNext]_cdVars
                    /\ part = "ladder" => [LadderNext]_lwVars
                    /\ part = "feed" => [FeedNext]_feedVars
                    /\ part = "levels" => [LevelNext]_lbVars
                    /\ part = "cap" => [CapNext]_capVars
                    /\ part = "trail" => [TrailNext]_trailVars
                    /\ part = "day" => [DayNext]_dayVars
  OBVIOUS
<1>1. UNCHANGED part
  BY DEF PartsNext, partVars
<1>2. ASSUME part = "warehouse" PROVE [WarehouseNext]_whVars
  BY <1>2 DEF PartsNext, partVars
<1>3. ASSUME part = "watchdog" PROVE [WatchdogNext]_wdVars
  BY <1>3 DEF PartsNext, partVars
<1>4. ASSUME part = "orb" PROVE [OrbNext]_orbVars
  BY <1>4 DEF PartsNext, partVars
<1>5. ASSUME part = "condor" PROVE [CondorNext]_cdVars
  BY <1>5 DEF PartsNext, partVars
<1>6. ASSUME part = "ladder" PROVE [LadderNext]_lwVars
  BY <1>6 DEF PartsNext, partVars
<1>7. ASSUME part = "feed" PROVE [FeedNext]_feedVars
  BY <1>7 DEF PartsNext, partVars
<1>8. ASSUME part = "levels" PROVE [LevelNext]_lbVars
  BY <1>8 DEF PartsNext, partVars
<1>9. ASSUME part = "cap" PROVE [CapNext]_capVars
  BY <1>9 DEF PartsNext, partVars
<1>10. ASSUME part = "trail" PROVE [TrailNext]_trailVars
  BY <1>10 DEF PartsNext, partVars
<1>11. ASSUME part = "day" PROVE [DayNext]_dayVars
  BY <1>11 DEF PartsNext, partVars
<1> QED  BY <1>1, <1>2, <1>3, <1>4, <1>5, <1>6, <1>7, <1>8, <1>9, <1>10, <1>11

\* Whichever part a behaviour is of, and whatever befalls it, that part stays well typed: what each
\* module's rows, orders, queues, books and counters can be.
THEOREM PartsAreTyped == PartsSpec => []PartsTypeOK
<1>1. PartsSpec => [](part = "warehouse" => WarehouseTypeOK)
  <2>1. PartsInit => WarehouseInit
    BY DEF PartsInit
  <2>2. [PartsNext]_partVars => ((part = "warehouse")' <=> part = "warehouse") /\ (part = "warehouse" => [WarehouseNext]_whVars)
    BY PartsStay
  <2> QED  BY <2>1, <2>2, WarehouseTypesHold, PTL DEF PartsSpec, WarehouseSpec
<1>2. PartsSpec => [](part = "watchdog" => WatchdogTypeOK)
  <2>1. PartsInit => WatchdogInit
    BY DEF PartsInit
  <2>2. [PartsNext]_partVars => ((part = "watchdog")' <=> part = "watchdog") /\ (part = "watchdog" => [WatchdogNext]_wdVars)
    BY PartsStay
  <2> QED  BY <2>1, <2>2, WatchdogIsTyped, PTL DEF PartsSpec, WatchdogSpec
<1>3. PartsSpec => [](part = "orb" => OrbTypeOK)
  <2>1. PartsInit => OrbInit
    BY DEF PartsInit
  <2>2. [PartsNext]_partVars => ((part = "orb")' <=> part = "orb") /\ (part = "orb" => [OrbNext]_orbVars)
    BY PartsStay
  <2> QED  BY <2>1, <2>2, EngineIsTyped, PTL DEF PartsSpec, OrbSpec
<1>4. PartsSpec => [](part = "condor" => CondorTypeOK)
  <2>1. PartsInit => CondorInit
    BY DEF PartsInit
  <2>2. [PartsNext]_partVars => ((part = "condor")' <=> part = "condor") /\ (part = "condor" => [CondorNext]_cdVars)
    BY PartsStay
  <2> QED  BY <2>1, <2>2, CondorIsTyped, PTL DEF PartsSpec, CondorSpec
<1>5. PartsSpec => [](part = "ladder" => LadderTypeOK)
  <2>1. PartsInit => LadderInit
    BY DEF PartsInit
  <2>2. [PartsNext]_partVars => ((part = "ladder")' <=> part = "ladder") /\ (part = "ladder" => [LadderNext]_lwVars)
    BY PartsStay
  <2> QED  BY <2>1, <2>2, LadderIsTyped, PTL DEF PartsSpec, LadderSpec
<1>6. PartsSpec => [](part = "feed" => FeedTypeOK)
  <2>1. PartsInit => FeedInit
    BY DEF PartsInit
  <2>2. [PartsNext]_partVars => ((part = "feed")' <=> part = "feed") /\ (part = "feed" => [FeedNext]_feedVars)
    BY PartsStay
  <2> QED  BY <2>1, <2>2, FeedIsTyped, PTL DEF PartsSpec, FeedSpec
<1>7. PartsSpec => [](part = "levels" => LevelTypeOK)
  <2>1. PartsInit => LevelInit
    BY DEF PartsInit
  <2>2. [PartsNext]_partVars => ((part = "levels")' <=> part = "levels") /\ (part = "levels" => [LevelNext]_lbVars)
    BY PartsStay
  <2> QED  BY <2>1, <2>2, LevelsAreTyped, PTL DEF PartsSpec, LevelSpec
<1>8. PartsSpec => [](part = "cap" => CapTypeOK)
  <2>1. PartsInit => CapInit
    BY DEF PartsInit
  <2>2. [PartsNext]_partVars => ((part = "cap")' <=> part = "cap") /\ (part = "cap" => [CapNext]_capVars)
    BY PartsStay
  <2> QED  BY <2>1, <2>2, CapIsTyped, PTL DEF PartsSpec, CapSpec
<1>9. PartsSpec => [](part = "trail" => TrailTypeOK)
  <2>1. PartsInit => TrailInit
    BY DEF PartsInit
  <2>2. [PartsNext]_partVars => ((part = "trail")' <=> part = "trail") /\ (part = "trail" => [TrailNext]_trailVars)
    BY PartsStay
  <2> QED  BY <2>1, <2>2, TrailIsTyped, PTL DEF PartsSpec, TrailSpec
<1>10. PartsSpec => [](part = "day" => DayTypeOK)
  <2>1. PartsInit => DayInit
    BY DEF PartsInit
  <2>2. [PartsNext]_partVars => ((part = "day")' <=> part = "day") /\ (part = "day" => [DayNext]_dayVars)
    BY PartsStay
  <2> QED  BY <2>1, <2>2, DayIsTyped, PTL DEF PartsSpec, DaySpec
<1>11. PartsTypeOK <=>
         /\ (part = "warehouse" => WarehouseTypeOK)
         /\ (part = "watchdog" => WatchdogTypeOK)
         /\ (part = "orb" => OrbTypeOK)
         /\ (part = "condor" => CondorTypeOK)
         /\ (part = "ladder" => LadderTypeOK)
         /\ (part = "feed" => FeedTypeOK)
         /\ (part = "levels" => LevelTypeOK)
         /\ (part = "cap" => CapTypeOK)
         /\ (part = "trail" => TrailTypeOK)
         /\ (part = "day" => DayTypeOK)
  BY DEF PartsTypeOK
<1> QED  BY <1>1, <1>2, <1>3, <1>4, <1>5, <1>6, <1>7, <1>8, <1>9, <1>10, <1>11, PTL
=============================================================================
