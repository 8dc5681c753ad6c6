------------------------- MODULE EmergencyWatchdog -------------------------
(***************************************************************************)
(* The second process of the box: tools/emergency_watchdog.py, fired by a  *)
(* timer every minute.  A bot that is down, or whose heartbeat is old, on  *)
(* two firings in a row with a position open is stopped in the flatten     *)
(* window, and its book is closed for it, once a day, with one page.       *)
(*                                                                         *)
(* Time is the minute of the timer.  A bot whose loop turns beats every    *)
(* minute; one that is hung beats no more until it recovers.               *)
(***************************************************************************)
EXTENDS Integers

CONSTANTS
    CloseAt, CloseEnd,   \* the flatten window: [CloseAt, CloseEnd)
    Stale,               \* STALE_S: minutes a heartbeat may age
    Grace,               \* BOOT_GRACE_S: minutes a young process is left alone
    MaxOpen,             \* positions open at once, at most
    MaxTroubles,         \* hangs, crashes, stops and starts of the bot, at most
    Mishaps              \* what may fail: "unread", "immortal", "uncancelled", "dies"

ASSUME WindowAssumption == CloseAt \in Nat /\ CloseEnd \in Nat /\ CloseAt < CloseEnd
ASSUME WatchAssumption == Stale \in Nat /\ Grace \in Nat /\ MaxOpen \in Nat /\ MaxTroubles \in Nat

Never == -1
LastMinute == CloseEnd + 1
Alive == {"passing", "hung"}      \* systemctl is-active

VARIABLES
    minute,
    bot,          \* "passing", "hung", "waiting" (systemd's restart delay), "down"
    born,         \* the minute its process started
    beat,         \* the minute of data/BOT_HEARTBEAT
    held,         \* rows open in trades.db
    resting,      \* orders of the bot work at the broker
    since,        \* emergency_watchdog.json: unhealthy_since
    acted,        \* emergency_watchdog.json: closed
    watch,        \* "idle", or where emergency_close is
    fired,        \* the timer fired this minute
    passed,       \* a flatten pass was made this minute
    before,       \* the verdict of the firing before the last (history)
    last,         \* the verdict of the last firing (history)
    unread,       \* a firing could not read trades.db, or the watchdog died (history)
    pages, troubles

fileVars  == <<since, acted>>
botVars   == <<bot, born, beat>>
tellVars  == <<before, last, unread>>
wdVars    == <<minute, botVars, held, resting, fileVars, watch, fired, passed, tellVars, pages, troubles>>

WatchdogTypeOK ==
    /\ minute \in 0..LastMinute
    /\ bot \in Alive \cup {"waiting", "down"} /\ born \in 0..LastMinute /\ beat \in 0..LastMinute
    /\ held \in 0..MaxOpen /\ resting \in BOOLEAN
    /\ since \in 0..LastMinute \cup {Never} /\ acted \in BOOLEAN
    /\ watch \in {"idle", "stopping", "cancelling", "closing"}
    /\ fired \in BOOLEAN /\ passed \in BOOLEAN
    /\ before \in {"none", "ok", "flat", "unwell"} /\ last \in {"none", "ok", "flat", "unwell"}
    /\ unread \in BOOLEAN /\ pages \in Nat /\ troubles \in 0..MaxTroubles

WatchdogInit ==
    /\ minute = 0 /\ bot = "passing" /\ born = 0 /\ beat = 0
    /\ held \in 0..MaxOpen /\ resting = FALSE
    /\ since = Never /\ acted = FALSE /\ watch = "idle" /\ fired = FALSE /\ passed = FALSE
    /\ before = "none" /\ last = "none" /\ unread = FALSE /\ pages = 0 /\ troubles = 0

(***************************************************************************)
(* The minute: the timer fired unless the last firing is still at work     *)
(* (a oneshot unit), and every flatten pass and broker call returns in it. *)
(***************************************************************************)
MinutePasses ==
    /\ minute < LastMinute /\ bot # "waiting"
    /\ \/ watch = "idle" /\ fired
       \/ watch = "closing" /\ passed
    /\ minute' = minute + 1
    /\ beat' = IF bot = "passing" THEN minute + 1 ELSE beat
    /\ fired' = (watch # "idle") /\ passed' = FALSE
    /\ UNCHANGED <<bot, born, held, resting, fileVars, watch, tellVars, pages, troubles>>

(***************************************************************************)
(* The bot.                                                                *)
(***************************************************************************)
Trades ==
    /\ bot = "passing"
    /\ \/ minute < CloseAt /\ held < MaxOpen /\ held' = held + 1
       \/ held > 0 /\ held' = held - 1
    /\ resting' \in BOOLEAN
    /\ UNCHANGED <<minute, botVars, fileVars, watch, fired, passed, tellVars, pages, troubles>>

Turns(from, to) ==
    /\ bot \in from /\ bot' = to
    /\ troubles < MaxTroubles /\ troubles' = troubles + 1
    /\ UNCHANGED <<minute, held, resting, fileVars, watch, fired, passed, tellVars, pages>>

Hangs == Turns({"passing"}, "hung") /\ UNCHANGED <<born, beat>>

Recovers == Turns({"hung"}, "passing") /\ beat' = minute /\ UNCHANGED born

Crashes == Turns(Alive, "waiting") /\ UNCHANGED <<born, beat>>

\* A hand, a bake or a halted unit; nobody starts it beside a close under way.
Stopped == Turns(Alive, "down") /\ UNCHANGED <<born, beat>>

Started == watch = "idle" /\ Turns({"down"}, "passing") /\ born' = minute /\ UNCHANGED beat

\* RestartSec=30; the process may hang before its first pass.
Restarts ==
    /\ bot = "waiting" /\ bot' \in Alive /\ born' = minute
    /\ UNCHANGED <<minute, beat, held, resting, fileVars, watch, fired, passed, tellVars, pages,
                   troubles>>

(***************************************************************************)
(* One firing: judge, and perhaps begin the close.                         *)
(***************************************************************************)
\* health: a young process is healthy; an unknown one is not.
Healthy == bot \in Alive /\ (minute - born < Grace \/ minute - beat <= Stale)

Says(v) == before' = last /\ last' = v

FindsWell(opened) ==
    /\ Healthy \/ opened = 0
    /\ since' = Never
    /\ Says(IF Healthy THEN "ok" ELSE "flat")
    /\ UNCHANGED <<acted, watch>>

\* Mutant: the window is over a minute early.
FindsUnwellLate(opened) ==
    /\ ~Healthy /\ opened > 0
    /\ since' = IF since = Never THEN minute ELSE since
    /\ IF /\ since # Never
          /\ CloseAt <= minute /\ minute + 1 < CloseEnd
          /\ ~acted
         THEN acted' = TRUE /\ watch' = "stopping"
         ELSE UNCHANGED <<acted, watch>>
    /\ Says("unwell")

FindsUnwell(opened) ==
    /\ ~Healthy /\ opened > 0
    /\ since' = IF since = Never THEN minute ELSE since
    /\ IF /\ since # Never
          /\ CloseAt <= minute /\ minute < CloseEnd
          /\ ~acted
         THEN acted' = TRUE /\ watch' = "stopping"
         ELSE UNCHANGED <<acted, watch>>
    /\ Says("unwell")

Fire ==
    /\ watch = "idle" /\ ~fired /\ fired' = TRUE
    /\ \/ (FindsWell(held) \/ FindsUnwell(held)) /\ UNCHANGED unread
       \/ "unread" \in Mishaps /\ FindsWell(0) /\ unread' = TRUE
    /\ UNCHANGED <<minute, botVars, held, resting, passed, pages, troubles>>

(***************************************************************************)
(* emergency_close.                                                        *)
(***************************************************************************)
\* SIGKILL, and a stop inside the restart delay.
StopBot ==
    /\ watch = "stopping"
    /\ bot' = "down" /\ watch' = "cancelling"
    /\ UNCHANGED <<minute, born, beat, held, resting, fileVars, fired, passed, tellVars, pages,
                   troubles>>

\* Mutant: the close goes on although the bot would not stop.
ClosesBeside ==
    /\ watch = "stopping" /\ "immortal" \in Mishaps /\ bot \in Alive
    /\ watch' = "cancelling"
    /\ UNCHANGED <<minute, botVars, held, resting, fileVars, fired, passed, tellVars, pages, troubles>>

WouldNotStop ==
    /\ watch = "stopping" /\ "immortal" \in Mishaps /\ bot \in Alive
    /\ watch' = "idle" /\ pages' = pages + 1
    /\ UNCHANGED <<minute, botVars, held, resting, fileVars, fired, passed, tellVars, troubles>>

CancelWorking ==
    /\ watch = "cancelling" /\ watch' = "closing"
    /\ resting' \in IF "uncancelled" \in Mishaps THEN {FALSE, resting} ELSE {FALSE}
    /\ UNCHANGED <<minute, botVars, held, fileVars, fired, passed, tellVars, pages, troubles>>

\* A pass of the bot's own flatten_all, in this process; a pass that raises closes what it closed.
FlattenPass ==
    /\ watch = "closing" /\ ~passed /\ passed' = TRUE
    /\ held' \in 0..held
    /\ IF held' = 0 \/ minute >= CloseEnd
         THEN watch' = "idle" /\ pages' = pages + 1
         ELSE UNCHANGED <<watch, pages>>
    /\ UNCHANGED <<minute, botVars, resting, fileVars, fired, tellVars, troubles>>

WatchdogDies ==
    /\ "dies" \in Mishaps /\ watch # "idle"
    /\ watch' = "idle" /\ unread' = TRUE
    /\ UNCHANGED <<minute, botVars, held, resting, fileVars, fired, passed, before, last, pages,
                   troubles>>

WatchdogNext ==
    \/ MinutePasses \/ Trades \/ Hangs \/ Recovers \/ Crashes \/ Stopped \/ Started \/ Restarts
    \/ Fire \/ StopBot \/ WouldNotStop \/ CancelWorking \/ FlattenPass \/ WatchdogDies

WatchdogSpec == WatchdogInit /\ [][WatchdogNext]_wdVars

(***************************************************************************)
(* Properties.                                                             *)
(***************************************************************************)
\* No order is sent for a book whose bot could still act on it: from the stop to the page the bot
\* is down and stays down (the docstring of emergency_watchdog.py: a bot that will not die is
\* never closed beside).
NeverBeside == watch \in {"cancelling", "closing"} => bot = "down"

\* One event, one message, although the state file survives a watchdog that dies in the close and
\* the bot may be started and hang again.
OnePage == pages <= 1

\* A bot that was down or silent long enough to be seen twice before the window's end leaves no
\* position behind that nobody was paged about; a boot within the grace is the one excuse.
UnattendedIsPaged ==
    /\ minute >= CloseEnd /\ watch = "idle" /\ held > 0 /\ ~unread
    /\ bot \in {"hung", "down"} /\ beat + Stale + 1 <= CloseEnd - 2 /\ born + Grace <= CloseEnd - 2
    => pages = 1
=============================================================================
