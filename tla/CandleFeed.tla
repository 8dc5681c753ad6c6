----------------------------- MODULE CandleFeed -----------------------------
(***************************************************************************)
(* The feed process over its connections (CandleFeed of                    *)
(* data/candle_feed.py): what it subscribed and what it believes it did,   *)
(* the buffer between the socket and the store, the rescue of the opening  *)
(* range, and the chain the bot asks for through the store.                *)
(*                                                                         *)
(* A bar stands for its interval.  Which version of it the store keeps is  *)
(* CandleStore's.                                                          *)
(***************************************************************************)
EXTENDS FiniteSets

CONSTANTS
    Intervals,    \* of candles; "5m" is the opening range's
    Chains,       \* the chains the bot may ask for, each an expiry and its contracts
    Failures      \* what may fail: "subscribe", "socket", "write", "dies"

ASSUME FeedAssumption ==
    /\ "5m" \in Intervals
    /\ \A c \in Chains : c.contracts # {}

NoChain == [expiry |-> "none", contracts |-> {}]

VARIABLES
    up,         \* the socket is open and its loop runs
    candles,    \* intervals subscribed on the socket
    quotes,     \* contracts subscribed on the socket
    request,      \* chain_subs: what the bot asked for
    heard,      \* what the last reconcile read of it (history)
    expiry,     \* _chain_expiry
    believed,   \* _chain_subscribed
    served,     \* bars this socket delivered (history)
    buffer,     \* bars not yet written
    stored,     \* bars in the store
    rescued,    \* _orb_rescue_done_for is today
    standDown   \* OT_FEED_MODE says maintenance

chainVars == <<quotes, heard, expiry, believed>>
feedVars  == <<up, candles, chainVars, request, served, buffer, stored, rescued, standDown>>

FeedTypeOK ==
    /\ {up, rescued, standDown} \subseteq BOOLEAN
    /\ candles \cup served \cup buffer \cup stored \subseteq Intervals
    /\ request \in Chains \cup {NoChain} /\ heard \in Chains \cup {NoChain}
    /\ expiry \in {c.expiry : c \in Chains \cup {NoChain}}
    /\ quotes \cup believed \subseteq UNION {c.contracts : c \in Chains}

FeedInit ==
    /\ up = FALSE /\ candles = {} /\ quotes = {} /\ request = NoChain /\ heard = NoChain
    /\ expiry = NoChain.expiry /\ believed = {} /\ served = {} /\ buffer = {} /\ stored = {}
    /\ rescued = FALSE /\ standDown = FALSE

(***************************************************************************)
(* Around the feed.                                                        *)
(***************************************************************************)
BotAsks ==
    /\ request' \in Chains \ {request}
    /\ UNCHANGED <<up, candles, chainVars, served, buffer, stored, rescued, standDown>>

ModeChanges ==
    /\ standDown' = ~standDown
    /\ UNCHANGED <<up, candles, chainVars, request, served, buffer, stored, rescued>>

(***************************************************************************)
(* Writing.  The buffer is emptied before the write.                       *)
(***************************************************************************)
Written == stored' = stored \cup buffer /\ buffer' = {}

\* Any of the rows may precede the one that raises.
WriteRaises ==
    /\ "write" \in Failures /\ buffer # {}
    /\ stored' \in {stored \cup rows : rows \in SUBSET buffer \ {buffer}}
    /\ buffer' = {}

(***************************************************************************)
(* _reconcile_chain_subs, from what the socket has, what is believed of    *)
(* it, and the expiry it is of.  Another expiry unsubscribes everything.   *)
(***************************************************************************)
Kept(contracts, of) == IF request.expiry = of THEN contracts ELSE {}

New(belief, of) == request.contracts \ Kept(belief, of)

Hears(of) ==
    IF request.contracts = {} THEN expiry' = of /\ UNCHANGED heard
    ELSE expiry' = request.expiry /\ heard' = request

ReconcileChain(has, belief, of) ==
    /\ Hears(of)
    /\ IF request.contracts = {} THEN quotes' = has /\ believed' = belief
       ELSE /\ quotes' = Kept(has, of) \cup New(belief, of)
            /\ believed' = Kept(belief, of) \cup New(belief, of)

\* A subscribe raises: what it put on the socket goes with it, and none is believed.
ReconcileRaises(belief, of) ==
    /\ "subscribe" \in Failures /\ request.contracts # {} /\ New(belief, of) # {}
    /\ Hears(of) /\ believed' = Kept(belief, of)

(***************************************************************************)
(* run.  An exception leaves the socket, and what is buffered is flushed.  *)
(***************************************************************************)
SocketGone == up' = FALSE /\ candles' = {} /\ quotes' = {} /\ served' = {}

\* Each interval is subscribed for itself and may fail alone, but not all of them.
Opened ==
    /\ ~up /\ ~standDown /\ up' = TRUE
    /\ candles' \in IF "subscribe" \in Failures THEN SUBSET Intervals \ {{}} ELSE {Intervals}
    /\ UNCHANGED <<request, served, buffer, stored, rescued, standDown>>

\* A fresh socket: the chain is rebuilt from nothing.
Connect == Opened /\ ReconcileChain({}, {}, NoChain.expiry)

ConnectRaises ==
    /\ ~up /\ ~standDown /\ ReconcileRaises({}, NoChain.expiry) /\ SocketGone
    /\ UNCHANGED <<request, buffer, stored, rescued, standDown>>

\* _on_candle, of an interval that is subscribed: live or replayed.
Serve(i) ==
    /\ up /\ i \in candles
    /\ served' = served \cup {i} /\ buffer' = buffer \cup {i}
    /\ UNCHANGED <<up, candles, chainVars, request, stored, rescued, standDown>>

\* _maybe_rescue_opening_range, from 09:36 to 11:00: once a day the 5m is
\* dropped and asked for again; either may raise, and the loop goes on.
Rescue ==
    \/ UNCHANGED <<candles, rescued>>
    \/ /\ ~rescued /\ "5m" \notin stored /\ rescued' = TRUE
       /\ \/ candles' = candles \cup {"5m"}
          \/ "subscribe" \in Failures /\ candles' \in {candles, candles \ {"5m"}}

\* Mutant: the write's error is caught where it is raised.
CycleSwallowing ==
    /\ up /\ ~standDown /\ ReconcileChain(quotes, believed, expiry) /\ Rescue
    /\ Written \/ WriteRaises
    /\ UNCHANGED <<up, request, served, standDown>>

\* A flush cycle: reconcile, rescue, flush.
Cycle ==
    /\ up /\ ~standDown /\ ReconcileChain(quotes, believed, expiry) /\ Rescue /\ Written
    /\ UNCHANGED <<up, request, served, standDown>>

\* In maintenance the socket is let go after the flush.
CycleEnds ==
    /\ up /\ standDown /\ Hears(expiry) /\ Written /\ SocketGone
    /\ believed' = Kept(believed, expiry) \cup request.contracts
    /\ rescued' \in {rescued, rescued \/ "5m" \notin stored}
    /\ UNCHANGED <<request, standDown>>

CycleRaises ==
    /\ up /\ SocketGone
    /\ \/ ReconcileRaises(believed, expiry) /\ Written /\ UNCHANGED rescued
       \/ /\ WriteRaises /\ Hears(expiry)
          /\ believed' = Kept(believed, expiry) \cup request.contracts
          /\ rescued' \in {rescued, rescued \/ "5m" \notin stored}
    /\ UNCHANGED <<request, standDown>>

\* The socket raises between two cycles.
SocketRaises ==
    /\ "socket" \in Failures /\ up /\ SocketGone /\ Written
    /\ UNCHANGED <<heard, expiry, believed, request, rescued, standDown>>

\* The process ends, or the flush in run's handler raises and ends it; systemd starts it again.
Dies ==
    /\ "dies" \in Failures /\ SocketGone
    /\ buffer' = {} /\ believed' = {} /\ expiry' = NoChain.expiry /\ rescued' = FALSE
    /\ UNCHANGED <<request, heard, stored, standDown>>

FeedNext ==
    \/ BotAsks \/ ModeChanges
    \/ Connect \/ ConnectRaises
    \/ Cycle \/ CycleEnds \/ CycleRaises \/ SocketRaises \/ Dies
    \/ \E i \in Intervals : Serve(i)

FeedSpec == FeedInit /\ [][FeedNext]_feedVars

(***************************************************************************)
(* Properties                                                              *)
(***************************************************************************)
\* What an open socket delivered is in the store or on its way there: a write that fails costs the
\* socket, and the replay of the next one brings the bars again.
ServedIsKept == up => served \subseteq stored \cup buffer

\* What the feed believes it subscribed is on the socket it has, and holds the chain it last heard
\* of, through reconnects, expiries that roll and subscribes that fail half way.
BelievedIsSubscribed ==
    up => believed = quotes /\ heard.contracts \subseteq quotes

\* What the feed remembers is true of the socket it has, in both respects.
MemoryIsOfThisSocket == ServedIsKept /\ BelievedIsSubscribed
=============================================================================
