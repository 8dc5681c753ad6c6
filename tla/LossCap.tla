------------------------------- MODULE LossCap -------------------------------
(***************************************************************************)
(* The daily loss cap (is_halted and reset_session of                      *)
(* risk/risk_manager.py) over a day: closes that are booked and then told  *)
(* to the risk manager, closes that are only booked, entry attempts, the   *)
(* session reset, restarts, and the stamp on disk that says the page of    *)
(* this episode has been sent.                                             *)
(***************************************************************************)
EXTENDS Integers

CONSTANTS
    Cap,        \* _daily_loss_limit
    Extreme,    \* the day's realized result stays within -Extreme..Extreme
    Troubles,   \* subset of {"restart", "send", "unread", "stamp", "garbled"}
    MaxFaults   \* questions of an episode that book or stamp answers wrongly or fails, at most

ASSUME CapAssumption == Cap \in Nat \ {0} /\ Extreme \in Nat /\ MaxFaults \in Nat

VARIABLES
    realized,   \* realized_pnl_today, from trades.db
    botUp,      \* the process runs
    resetDue,   \* its session reset is still to come
    mirror,     \* _session_pnl_usd
    halted,     \* _session_halted
    stampLine,  \* today's line of data/CAP_PAGED: "none", "open" or "closed"
    untold,     \* a loss is booked and record_loss not yet called
    capPages,   \* pages sent since the day went past the cap, and the questions since that the book or
    capFaults   \* the stamp answered wrongly, or whose stamp was not written (history)

capVars == <<realized, botUp, resetDue, mirror, halted, stampLine, untold, capPages, capFaults>>

CapTypeOK ==
    /\ realized \in -Extreme..Extreme /\ mirror \in -Extreme..Extreme /\ capPages \in 0..(MaxFaults + 1)
    /\ botUp \in BOOLEAN /\ resetDue \in BOOLEAN /\ halted \in BOOLEAN /\ untold \in BOOLEAN
    /\ capFaults \in 0..MaxFaults /\ stampLine \in {"none", "open", "closed"}

CapInit ==
    /\ realized = 0 /\ mirror = 0 /\ botUp = TRUE /\ resetDue = TRUE /\ halted = FALSE
    /\ stampLine = "none" /\ untold = FALSE /\ capPages = 0 /\ capFaults = 0

Breached(net) == net <= -Cap

(***************************************************************************)
(* Closes.                                                                 *)
(***************************************************************************)
BooksResult(pnl) ==
    /\ realized + pnl \in -Extreme..Extreme /\ realized' = realized + pnl
    /\ IF Breached(realized') /\ ~Breached(realized) THEN capPages' = 0 /\ capFaults' = 0
       ELSE UNCHANGED <<capPages, capFaults>>

\* log_exit of the position manager; record_win changes nothing.
PositionCloses(pnl) ==
    /\ botUp /\ ~untold /\ BooksResult(pnl) /\ untold' = (pnl < 0)
    /\ UNCHANGED <<botUp, resetDue, mirror, halted, stampLine>>

\* log_exit of the condor's roll and close: the risk manager is not told.
BooksQuietly(pnl) ==
    /\ botUp /\ ~untold /\ BooksResult(pnl)
    /\ UNCHANGED <<botUp, resetDue, mirror, halted, stampLine, untold>>

(***************************************************************************)
(* is_halted.                                                              *)
(***************************************************************************)
\* day_realized_pnl: an unreadable book is answered from the mirror.
Read(net) == net = realized \/ ("unread" \in Troubles /\ net = mirror)

\* Mutant: the stamp is not asked.
NeverOpen(misread) == FALSE

\* _cap_episode_open: this episode was paged before a restart; no, of a stamp that cannot be read.
EpisodeOpen(misread) == stampLine = "open" /\ ~misread

\* _cap_stamp, which may not be written.
Stamps(s, lost) ==
    \/ stampLine' = s /\ lost = FALSE
    \/ "stamp" \in Troubles /\ UNCHANGED stampLine /\ lost = TRUE

\* The page may not be sent.
Pages ==
    \/ capPages' = capPages + 1
    \/ "send" \in Troubles /\ UNCHANGED capPages

\* A process that is not halted yet asks the stamp, and what it cannot read matters if it is open.
Judges ==
    \E net \in -Extreme..Extreme, misread, lost \in BOOLEAN :
      /\ Read(net) /\ (misread => "garbled" \in Troubles /\ ~halted /\ stampLine = "open")
      /\ capFaults' = IF net # realized \/ misread \/ lost THEN capFaults + 1 ELSE capFaults
      /\ capFaults' <= MaxFaults
      /\ mirror' = net /\ halted' = Breached(net)
      /\ IF Breached(net) /\ ~halted /\ ~EpisodeOpen(misread) THEN Stamps("open", lost) /\ Pages
         ELSE IF ~Breached(net) /\ (halted \/ EpisodeOpen(misread))
           THEN Stamps("closed", lost) /\ UNCHANGED capPages
         ELSE lost = FALSE /\ UNCHANGED <<stampLine, capPages>>

RecordLoss == botUp /\ untold /\ untold' = FALSE /\ Judges /\ UNCHANGED <<realized, botUp, resetDue>>

\* attempt_new_entry asks at every pass, in the session and, as a rehearsal, out of it.
EntryAsks == botUp /\ ~untold /\ Judges /\ UNCHANGED <<realized, botUp, resetDue, untold>>

(***************************************************************************)
(* The session reset, restarts.                                            *)
(***************************************************************************)
SessionReset ==
    /\ botUp /\ resetDue /\ ~untold /\ resetDue' = FALSE
    /\ \E net \in -Extreme..Extreme :
         /\ Read(net) /\ mirror' = net /\ halted' = Breached(net)
    /\ UNCHANGED <<realized, botUp, stampLine, untold, capPages, capFaults>>

BotCrashes ==
    /\ "restart" \in Troubles /\ botUp
    /\ botUp' = FALSE /\ resetDue' = TRUE /\ mirror' = 0 /\ halted' = FALSE /\ untold' = FALSE
    /\ UNCHANGED <<realized, stampLine, capPages, capFaults>>

BotRestarts ==
    /\ ~botUp /\ botUp' = TRUE
    /\ UNCHANGED <<realized, resetDue, mirror, halted, stampLine, untold, capPages, capFaults>>

CapNext ==
    \/ \E pnl \in {-1, 1} : PositionCloses(pnl) \/ BooksQuietly(pnl)
    \/ RecordLoss \/ EntryAsks \/ SessionReset \/ BotCrashes \/ BotRestarts

CapSpec == CapInit /\ [][CapNext]_capVars

(***************************************************************************)
(* Properties.                                                             *)
(***************************************************************************)
\* "ONE PAGE PER EPISODE", whatever restarts between the close, the page and the next question,
\* and whether the page was sent or not: each page more than the one is owed to a fault of its own,
\* a question that an unreadable book or stamp answered wrongly ("a bad file never silences a
\* page"), or whose stamp could not be written.
OnePagePerEpisode == capPages <= 1 + capFaults
=============================================================================
