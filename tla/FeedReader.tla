------------------------------ MODULE FeedReader ------------------------------
(***************************************************************************)
(* The news feed of one page (the second half of dashboard.js) reading the *)
(* server's cache.  The page polls while it is visible; a response says    *)
(* when to ask again.  Leaving the page aborts a request, but the request  *)
(* keeps the page's one slot until it settles.                             *)
(*                                                                         *)
(* Timers run on the monotonic clock, now.  The page plans its next        *)
(* question with Date.now(), the wall clock, which can be set: it is       *)
(* now + skew.                                                             *)
(***************************************************************************)
EXTENDS FeedCache

CONSTANTS
    RetryDelay,        \* retryDelay unless told otherwise: 300 seconds
    RetrySoon,         \* while the server refreshes, or is busy: 1 or 2 seconds
    ReaderTimeout,     \* deadline of the page's request: 15 seconds
    MaxGeneration,     \* bound on feedGeneration
    MaxSkew            \* bound: how far the wall clock is ever set ahead

ASSUME ReaderAssumption ==
    /\ {RetryDelay, RetrySoon, ReaderTimeout, MaxGeneration} \subseteq Nat \ {0}
    /\ MaxSkew \in Nat
    /\ RetrySoon <= RetryDelay
    /\ LET replies == [xml : Nat \union {None}, stale : BOOLEAN, refreshing : BOOLEAN] IN
       /\ None \notin replies
       /\ None \notin [owner : Nat, since : Nat, reply : replies \union {None}]

VARIABLES
    reader,      \* the variables of dashboard.js: feedRunning, feedGeneration, ...
    shown,       \* the headlines: the instant their feed was fetched, or None
    notice,      \* feedStatus: "current", "refreshing", "stale" or "failed"
    smooth,      \* history: since when the page is visible and unrefused
    skew,        \* the page's wall clock, ahead of the monotonic one
    planned,     \* history: the instant for which the page planned its next question,
    behind       \* and how much later the wall clock has since, at the most, put it

clockVars == <<skew, planned, behind>>
readerVars == <<reader, shown, notice, smooth, clockVars>>
allVars == <<vars, readerVars>>

ReaderTypeOK ==
    /\ TypeOK
    /\ reader.running \in BOOLEAN /\ reader.hidden \in BOOLEAN
    /\ reader.generation \in 0 .. MaxGeneration
    /\ reader.timer \in {None} \union now .. now + RetryDelay + MaxSkew
    /\ reader.request # None =>
        /\ reader.request.since \in now - ReaderTimeout .. now
        /\ reader.request.owner \in 1 .. reader.generation
    /\ shown \in {None} \union 0 .. now
    /\ notice \in {"current", "refreshing", "stale", "failed"}
    /\ skew \in 0 .. MaxSkew
    /\ behind \in 0 .. MaxSkew

-----------------------------------------------------------------------------
(* The functions of dashboard.js, as what they make of the reader.         *)

\* Date.now()
WallClock == now + skew

ScheduleFeed(r) ==
    [r EXCEPT !.timer =
        IF ~ r.running \/ r.hidden \/ r.request # None THEN None
        ELSE IF r.next_check > WallClock THEN now + (r.next_check - WallClock) ELSE now]

RefreshFeed(r) ==
    IF ~ r.running \/ r.hidden \/ r.request # None THEN r
    ELSE IF WallClock < r.next_check THEN ScheduleFeed(r)
    ELSE [r EXCEPT !.timer = None,
                   !.request = [owner |-> r.generation, since |-> now, reply |-> None]]

StartFeed(r) ==
    IF r.running \/ r.hidden THEN r
    ELSE RefreshFeed([r EXCEPT !.running = TRUE, !.generation = @ + 1])

StopFeed(r) ==
    IF ~ r.running THEN r
    ELSE [r EXCEPT !.running = FALSE, !.generation = @ + 1, !.timer = None]

\* current() of the request under way.
Current(r) == r.running /\ ~ r.hidden /\ r.request.owner = r.generation

\* Mutant: only a request of the current period schedules the next.
ConcludedCurrent(r, delay) ==
    IF Current(r)
    THEN ScheduleFeed([r EXCEPT !.request = None, !.next_check = WallClock + delay])
    ELSE [r EXCEPT !.request = None]

\* The finally block of refreshFeed.
Concluded(r, delay) ==
    ScheduleFeed([r EXCEPT !.request = None,
                           !.next_check = IF Current(r) THEN WallClock + delay ELSE @])

-----------------------------------------------------------------------------
\* A current request that is concluded plans the next question.
Plans(delay) ==
    /\ planned' = IF Current(reader) THEN now + delay ELSE planned
    /\ behind' = IF Current(reader) THEN 0 ELSE behind
    /\ UNCHANGED skew

ReaderInit ==
    /\ Init
    /\ skew \in 0 .. MaxSkew
    /\ \E hidden \in BOOLEAN :
        reader = StartFeed([running |-> FALSE, hidden |-> hidden, generation |-> 0,
                            request |-> None, next_check |-> 0, timer |-> None])
    /\ shown = None
    /\ notice = "failed"
    /\ smooth = 0
    /\ planned = 0
    /\ behind = 0

\* The page's wall clock is set, ahead or back, which no timer notices.
AdjustClock ==
    /\ skew' \in (0 .. MaxSkew) \ {skew}
    /\ LET late == reader.next_check - skew' - planned IN
       behind' = IF late > behind THEN late ELSE behind
    /\ UNCHANGED <<vars, reader, shown, notice, smooth, planned>>

\* visibilitychange, pagehide, pageshow
HideFeed ==
    /\ reader.running
    /\ reader.generation < MaxGeneration
    /\ \E hidden \in {TRUE, reader.hidden} : reader' = StopFeed([reader EXCEPT !.hidden = hidden])
    /\ UNCHANGED <<vars, shown, notice, smooth, clockVars>>

ShowFeed ==
    /\ ~ reader.running
    /\ reader.generation < MaxGeneration
    /\ reader' = StartFeed([reader EXCEPT !.hidden = FALSE])
    /\ smooth' = now
    /\ UNCHANGED <<vars, shown, notice, clockVars>>

FireFeed ==
    /\ reader.timer # None
    /\ reader.timer <= now
    /\ reader' = RefreshFeed([reader EXCEPT !.timer = None])
    /\ UNCHANGED <<vars, shown, notice, smooth, clockVars>>

\* The server handles the page's request.
ServePage ==
    /\ reader.request # None
    /\ reader.request.reply = None
    /\ \/ /\ \E f \in Fetches : ReadAndRefresh(f)
          /\ reader' = [reader EXCEPT !.request.reply = [Response EXCEPT !.refreshing = TRUE]]
       \/ /\ ~ Expired \/ refreshing
          /\ reader' = [reader EXCEPT !.request.reply = Response]
          /\ UNCHANGED vars
    /\ UNCHANGED <<shown, notice, smooth, clockVars>>

\* Mutant: while the server refreshes, the page waits the whole delay.
AnsweredLazily ==
    LET reply == reader.request.reply IN
    /\ reader.request # None
    /\ reply # None
    /\ reader' = Concluded(reader, RetryDelay)
    /\ Plans(RetryDelay)
    /\ shown' = IF Current(reader) /\ reply.xml # None THEN reply.xml ELSE shown
    /\ notice' = IF ~ Current(reader) THEN notice
                 ELSE IF reply.xml = None THEN "failed"
                 ELSE IF reply.refreshing THEN "refreshing"
                 ELSE IF reply.stale THEN "stale" ELSE "current"
    /\ UNCHANGED <<vars, smooth>>

\* Mutant: the stale mark is not looked at.
AnsweredUnmarked ==
    LET reply == reader.request.reply
        delay == IF reply.refreshing THEN RetrySoon ELSE RetryDelay
    IN
    /\ reader.request # None
    /\ reply # None
    /\ reader' = Concluded(reader, delay)
    /\ Plans(delay)
    /\ shown' = IF Current(reader) /\ reply.xml # None THEN reply.xml ELSE shown
    /\ notice' = IF ~ Current(reader) THEN notice
                 ELSE IF reply.xml = None THEN "failed"
                 ELSE IF reply.refreshing THEN "refreshing" ELSE "current"
    /\ UNCHANGED <<vars, smooth>>

\* The response arrives; without headlines it is a 503, which keeps the old ones.
Answered ==
    LET reply == reader.request.reply
        delay == IF reply.refreshing THEN RetrySoon ELSE RetryDelay
    IN
    /\ reader.request # None
    /\ reply # None
    /\ reader' = Concluded(reader, delay)
    /\ Plans(delay)
    /\ shown' = IF Current(reader) /\ reply.xml # None THEN reply.xml ELSE shown
    /\ notice' = IF ~ Current(reader) THEN notice
                 ELSE IF reply.xml = None THEN "failed"
                 ELSE IF reply.refreshing THEN "refreshing"
                 ELSE IF reply.stale THEN "stale" ELSE "current"
    /\ UNCHANGED <<vars, smooth>>

\* It does not: refused by the news gate with a Retry-After, lost, aborted, late,
\* or not a feed.
Unanswered ==
    /\ reader.request # None
    /\ \E delay \in {RetrySoon, RetryDelay} : reader' = Concluded(reader, delay) /\ Plans(delay)
    /\ notice' = IF Current(reader) THEN "failed" ELSE notice
    /\ smooth' = now
    /\ UNCHANGED <<vars, shown>>

\* The page's timers fire on time; the deadline of its request is one of them, and
\* a request that was aborted settles no later.
PageTick ==
    /\ reader.timer # None => reader.timer > now
    /\ reader.request # None => now < reader.request.since + ReaderTimeout
    /\ Tick
    /\ UNCHANGED readerVars

ReaderNext ==
    \/ HideFeed \/ ShowFeed \/ FireFeed
    \/ ServePage \/ Answered \/ Unanswered
    \/ AdjustClock \/ PageTick
    \/ /\ \E f \in Fetches : ReadAndRefresh(f) \/ FetchSucceeds(f) \/ FetchFails(f)
       /\ UNCHANGED readerVars

\* A fetch ends: its deadline is a timer.
ReaderSpec ==
    /\ ReaderInit /\ [][ReaderNext]_allVars
    /\ \A f \in Fetches :
        WF_allVars((FetchSucceeds(f) \/ FetchFails(f)) /\ UNCHANGED readerVars)

-----------------------------------------------------------------------------
Visible == reader.running /\ ~ reader.hidden

\* A page that says "Updates every 5 minutes" shows no older headlines than two
\* intervals and two requests explain, and what its wall clock was set back by
\* since it planned its next question (dashboard.js:310-316, :374-378, :385-391).
NoticeHonest ==
    Visible /\ notice = "current" /\ now > smooth + 2 * ReaderTimeout
        => now - shown < RefreshInterval + RetryDelay + behind + 2 * ReaderTimeout

\* What the server has fetched reaches a page that stays visible and is not refused,
\* within one delay and two requests, and what its wall clock was set back by: a
\* visible page stops polling for no longer than that.  The delay is short once the
\* page knows that the server is fetching (dashboard.js:310-339, :374-378, :385-391).
HeadlinesArrive ==
    LET delay == behind + (IF notice = "refreshing" THEN RetrySoon ELSE RetryDelay) IN
    Visible /\ xml # None /\ now > xml + delay + 2 * ReaderTimeout
            /\ now > smooth + delay + 2 * ReaderTimeout
        => shown = xml
=============================================================================
