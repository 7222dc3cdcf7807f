------------------------------ MODULE PricePage ------------------------------
(***************************************************************************)
(* What the dashboard shows of the prices (dashboard.js), over the stored  *)
(* book that QuoteBook promises.  The page asks for prices in a loop of    *)
(* its own, keeps the last answer, and lets the quotes in it age until the *)
(* next one; the network may fail or delay any answer, and the tab may be  *)
(* hidden at any time.  Dashboard.tla has the timers and the heartbeats in *)
(* full; here a heartbeat is what it leaves behind.                        *)
(***************************************************************************)
EXTENDS Integers, FiniteSets

CONSTANTS
    Configured,         \* the providers
    MaxAge,             \* source_max_age_seconds
    FirstBooks,         \* what may be stored at first: also quotes of unknown sources,
                        \* without a time (None), or with a time in the future
    Cadence,            \* from the end of a request to the next: 5 s
    StartupDelay,       \* the same after a startup price still refreshing: 1 s
    PresenceTimeout,    \* workers.presence.timeout: 3 s
    PriceTimeout,       \* workers.price.timeout: 8 s
    MaxRefreshes,       \* bound on the refreshes
    MaxHides,           \* bound on the visibility periods
    MaxClock,           \* bound on the clock
    None

\* Types.  A book keeps the quotes it had at first and those of the providers.
Sources == Configured \union UNION {DOMAIN book : book \in FirstBooks}
Instants == Nat \union {None}
Healths == UNION {[some -> {"SUCCESS", "FAILURE"}] : some \in SUBSET Configured}
Answers ==
    [http : {200, 500, 503}, status : {"LIVE", "DEGRADED", "STALE", "UNAVAILABLE"},
     sources : SUBSET [source : Sources, at : Instants, age : Instants,
                       freshness : {"FRESH", "STALE", "FUTURE", "UNKNOWN"}],
     contributing : SUBSET Configured, health : Healths, errors : BOOLEAN,
     evaluated_at : Nat]
Requests == [since : Nat, current : BOOLEAN, answer : Answers \union {None}]

\* The durations are ordered as the program's constants are.
ASSUME PageAssumption ==
    /\ IsFiniteSet(Configured) /\ Configured # {}
    /\ {MaxAge, Cadence, StartupDelay, PresenceTimeout, PriceTimeout} \subseteq Nat
    /\ StartupDelay <= Cadence
    /\ PresenceTimeout <= PriceTimeout /\ PriceTimeout <= PresenceTimeout + Cadence
    /\ \A book \in FirstBooks : \A s \in DOMAIN book : book[s] \in Instants
    /\ None \notin Nat /\ None \notin Answers /\ None \notin Requests

VARIABLES
    clock,        \* the server's wall clock; the page's own clock runs with it
    quotes,       \* the book: source -> time of its quote
    marks,        \* the book: provider -> outcome of its last attempt
    refreshes,    \* number of refreshes
    page,         \* the variables of dashboard.js
    shown,        \* history: when the page was last shown
    hides         \* number of times it was hidden

server == <<quotes, marks, refreshes>>
vars == <<clock, server, page, shown, hides>>

Book == INSTANCE QuoteBook WITH Provider <- Configured
F == INSTANCE Freshness

-----------------------------------------------------------------------------
(* The server's answers.                                                   *)

Rows == {[source |-> s, at |-> quotes[s]] : s \in DOMAIN quotes}

\* The status with errors reported by the last refresh.
Reported(status, errors) == IF errors /\ status = "LIVE" THEN "DEGRADED" ELSE status

\* The answer of cached_prices, evaluated now; when the database cannot be read
\* it has no rows.  (Reported errors change nothing unless all is well.)
Answer(readable, reported) ==
    LET rows == IF readable THEN Rows ELSE {}
        health == IF readable THEN marks ELSE [p \in {} |-> "SUCCESS"]
        status == F!PriceStatus(rows, health, clock)
        errors == reported /\ status = "LIVE"
    IN  [http |-> IF ~ readable THEN 500 ELSE IF rows = {} THEN 503 ELSE 200,
         status |-> Reported(status, errors),
         sources |-> {F!SourceResponse(row, clock) : row \in rows},
         contributing |-> F!Contributors(rows, clock),
         health |-> health,
         errors |-> errors,
         evaluated_at |-> clock]

-----------------------------------------------------------------------------
(* The page's reading of an answer.                                        *)

\* validate
Validates(data) ==
    /\ data.status \in {"LIVE", "DEGRADED", "STALE", "UNAVAILABLE"}
    /\ Cardinality(data.contributing) <= Cardinality(Configured)
    /\ \A source \in data.sources :
        /\ source.freshness \in {"FRESH", "STALE", "FUTURE", "UNKNOWN"}
        /\ source.age # None => source.age >= 0
        /\ source.freshness = "FRESH" => source.age # None

\* What the price request takes for an answer: an unavailable price is one.
Accepted(answer) ==
    /\ answer # None
    /\ answer.http \in {200, 503}
    /\ Validates(answer)
    /\ answer.http = 503 => answer.status = "UNAVAILABLE"

\* Mutant: an unavailable answer counts as news of the quotes the page retains.
ReceivePriceRenewing(p, data) ==
    IF data.status = "UNAVAILABLE" /\ p.data # None /\ p.data.sources # {}
    THEN [p EXCEPT !.price_error = TRUE, !.received = clock]
    ELSE [p EXCEPT !.data = data, !.received = clock, !.price_error = FALSE]

\* receivePrice: an unavailable answer erases no quotes.
ReceivePrice(p, data) ==
    IF data.status = "UNAVAILABLE" /\ p.data # None /\ p.data.sources # {}
    THEN [p EXCEPT !.price_error = TRUE]
    ELSE [p EXCEPT !.data = data, !.received = clock, !.price_error = FALSE]

-----------------------------------------------------------------------------
(* What render shows.                                                      *)

elapsed == clock - page.received

\* Mutant: one second too long.
AgedLater(source) ==
    IF source.freshness = "FRESH" /\ source.age + elapsed > MaxAge THEN "STALE"
    ELSE source.freshness

\* A fresh quote grows stale; no other quote ever becomes fresh here.
Aged(source) ==
    IF source.freshness = "FRESH" /\ source.age + elapsed >= MaxAge THEN "STALE"
    ELSE source.freshness

\* The quotes the displayed average is made of.
Counted ==
    {source \in page.data.sources : source.source \in page.data.contributing
                                    /\ Aged(source) = "FRESH"}

\* The badge.
Label ==
    LET data == page.data
        count == Cardinality({source.source : source \in Counted})
        aged == IF data.sources # {} /\ count = 0 THEN "STALE"
                ELSE IF data.status = "LIVE" /\ count < Cardinality(Configured) THEN "DEGRADED"
                ELSE data.status
    IN  IF ~ page.running THEN "IDLE"
        ELSE IF page.price_error THEN "OFFLINE"
        ELSE IF data = None THEN (IF page.presence_error THEN "DEGRADED" ELSE "CONNECTING")
        ELSE IF page.presence_error /\ aged = "LIVE" THEN "DEGRADED"
        ELSE aged

-----------------------------------------------------------------------------
(* The loop.  A request is the price request under way, or the heartbeat   *)
(* that asks for the startup price; an aborted one is no longer current    *)
(* and what was answered to it is lost.                                    *)

Request(since) == [since |-> since, current |-> TRUE, answer |-> None]

\* workers.price.timer = setTimeout(...): a timer it held still fires.
Scheduled(p, at) ==
    [p EXCEPT !.timer = at, !.strays = IF p.timer = None THEN @ ELSE @ \union {p.timer}]

\* poll("price"): a request under way, of an earlier period too, is awaited.
PollPrice(p) ==
    IF p.price # None THEN p ELSE [p EXCEPT !.price = Request(clock), !.timer = None]

Blank ==
    [running |-> FALSE, data |-> None, received |-> 0, price_error |-> FALSE,
     presence_error |-> FALSE, startup |-> None, price |-> None, timer |-> None,
     strays |-> {}]

\* start: its heartbeat carries the request for a price, unless one of an earlier
\* period is still under way.
Starts(p) ==
    LET q == [p EXCEPT !.running = TRUE]
    IN  {[q EXCEPT !.startup = Request(clock)], PollPrice(q)}

Init ==
    /\ clock = 0
    /\ quotes \in FirstBooks
    /\ marks = [p \in DOMAIN quotes \intersect Configured |-> "SUCCESS"]
    /\ refreshes = 0
    /\ page = [Blank EXCEPT !.running = TRUE, !.startup = Request(clock)]
    /\ shown = clock
    /\ hides = 0

\* The server stores a batch.
Refresh ==
    /\ refreshes < MaxRefreshes
    /\ refreshes' = refreshes + 1
    /\ \E good, bad \in SUBSET Configured :
        /\ quotes' = [p \in DOMAIN quotes \union good |->
                         IF p \in good THEN clock ELSE quotes[p]]
        /\ Book!Batch(good, bad)
    /\ UNCHANGED <<page, shown, hides>>

\* The server answers the request in field k; the network delivers it later, or not.
ServerAnswers(k) ==
    /\ page[k] # None
    /\ page[k].current /\ page[k].answer = None
    /\ \E readable, reported \in BOOLEAN :
           page' = [page EXCEPT ![k].answer = Answer(readable, reported)]
    /\ UNCHANGED <<clock, server, shown, hides>>

\* Mutant: a failure is no news while quotes are held.
PriceSettledQuietly(p, ok) ==
    LET request == p.price
        idle == [p EXCEPT !.price = None]
    IN  IF ~ request.current
        THEN IF p.running THEN Scheduled(idle, clock) ELSE idle
        ELSE LET read == IF ok /\ Accepted(request.answer) THEN ReceivePrice(idle, request.answer)
                         ELSE [idle EXCEPT !.price_error = (p.data = None)]
             IN  Scheduled(read, clock + Cadence)

\* The price request settles: with its answer, or (aborted, failed, timed out)
\* without.  An answer of an earlier period is ignored, and the loop resumes.
PriceSettled(p, ok) ==
    LET request == p.price
        idle == [p EXCEPT !.price = None]
    IN  IF ~ request.current
        THEN IF p.running THEN Scheduled(idle, clock) ELSE idle
        ELSE LET read == IF ok /\ Accepted(request.answer) THEN ReceivePrice(idle, request.answer)
                         ELSE [idle EXCEPT !.price_error = TRUE]
             IN  Scheduled(read, clock + Cadence)

SettlePrice ==
    /\ page.price # None
    /\ \E ok \in BOOLEAN :
        /\ ok => page.price.answer # None
        /\ page' = PriceSettled(page, ok)
    /\ UNCHANGED <<clock, server, shown, hides>>

\* The startup heartbeat settles.  The price loop starts at once, or later when
\* a price came with it and none came meanwhile.
SettleStartup ==
    LET idle == [page EXCEPT !.startup = None]
        answer == page.startup.answer
        After(p, delay) == IF p.timer # None THEN p
                           ELSE IF delay = None THEN PollPrice(p)
                           ELSE Scheduled(p, clock + delay)
    IN
    /\ page.startup # None
    /\ \/ page' = After([idle EXCEPT !.presence_error = TRUE], None)
       \/ /\ answer # None
          /\ LET ok == [idle EXCEPT !.presence_error = FALSE]
             IN  IF Validates(answer)
                 THEN \E delay \in {StartupDelay, Cadence} :
                          page' = After(ReceivePrice(ok, answer), delay)
                 ELSE page' = After([ok EXCEPT !.price_error = TRUE], None)
    /\ UNCHANGED <<clock, server, shown, hides>>

\* A later heartbeat settles.
SettleHeartbeat ==
    /\ page.running
    /\ page.startup = None
    /\ page' = [page EXCEPT !.presence_error = ~ @]
    /\ UNCHANGED <<clock, server, shown, hides>>

TimerFires ==
    /\ page.timer # None
    /\ page.timer <= clock
    /\ page' = PollPrice([page EXCEPT !.timer = None])
    /\ UNCHANGED <<clock, server, shown, hides>>

StrayFires ==
    /\ \E at \in page.strays :
        /\ at <= clock
        /\ LET rest == [page EXCEPT !.strays = @ \ {at}]
           IN  page' = IF page.running THEN PollPrice(rest) ELSE rest
    /\ UNCHANGED <<clock, server, shown, hides>>

\* stop: what was received and what went wrong is kept.
Hide ==
    /\ page.running
    /\ hides < MaxHides
    /\ hides' = hides + 1
    /\ page' = [page EXCEPT
           !.running = FALSE,
           !.timer = None,
           !.startup = None,
           !.price = IF @ = None THEN None ELSE [@ EXCEPT !.current = FALSE, !.answer = None]]
    /\ UNCHANGED <<clock, server, shown>>

Show ==
    /\ ~ page.running
    /\ page' \in Starts(page)
    /\ shown' = clock
    /\ UNCHANGED <<clock, server, hides>>

\* Timers fire on time, and requests are aborted at their deadlines.
Tick ==
    /\ clock < MaxClock
    /\ \A at \in page.strays \union {page.timer} : at # None => clock < at
    /\ page.price # None => clock < page.price.since + PriceTimeout
    /\ page.startup # None => clock < page.startup.since + PresenceTimeout
    /\ clock' = clock + 1
    /\ UNCHANGED <<server, page, shown, hides>>

Next ==
    \/ Refresh
    \/ ServerAnswers("price") \/ ServerAnswers("startup")
    \/ SettlePrice \/ SettleStartup \/ SettleHeartbeat
    \/ TimerFires \/ StrayFires
    \/ Hide \/ Show
    \/ Tick

Spec == Init /\ [][Next]_vars

-----------------------------------------------------------------------------
Rank(status) ==
    CASE status = "LIVE" -> 3
      [] status = "DEGRADED" -> 2
      [] status = "STALE" -> 1
      [] OTHER -> 0

\* The rows of the last answer, as they are stored.
Held == {[source |-> source.source, at |-> source.at] : source \in page.data.sources}

\* Every answer is one the page can read: a quote that is fresh has an age, one
\* from the future has none, and 503 and UNAVAILABLE go together
\* (source-contract.md:149-165, dashboard.js:40-61).
AnswersValid ==
    \A k \in {"price", "startup"} :
        page[k] # None /\ page[k].answer # None =>
            /\ Validates(page[k].answer)
            /\ page[k].answer.http # 500 => Accepted(page[k].answer)

\* "Only a new server response can make an unknown, future, or stale observation
\* fresh": with the quotes and the health it has, the page never shows a better
\* status than the server would at its own clock, nor counts another quote
\* (source-contract.md:222-228, dashboard.js:82-97).
LabelNeverBetter ==
    page.running /\ page.data # None =>
        LET data == page.data
            then == data.evaluated_at + elapsed
        IN  /\ Rank(Label) <= Rank(Reported(F!PriceStatus(Held, data.health, then), data.errors))
            /\ {source.source : source \in Counted} \subseteq F!Contributors(Held, then)

\* The displayed average is made of recent quotes only, although the page counts
\* their ages from the moment an answer came: none is older than the maximal age
\* and the time an answer may take.
ShownQuotesAreRecent ==
    page.running /\ page.data # None =>
        \A source \in Counted : clock - source.at < MaxAge + PriceTimeout

\* A visible page that gets no prices says so: after a startup heartbeat and a
\* price request that both ran out, or a pause and such a request, it is OFFLINE.
SilenceShows ==
    LET last == IF page.received > shown THEN page.received ELSE shown
    IN  page.running /\ clock > last + PresenceTimeout + Cadence + PriceTimeout
            => Label = "OFFLINE"
=============================================================================
