# Bitcoin price tracker: specifications, model checks and proofs

This directory specifies the Bitcoin price tracker (`src/`), its server and its
page, in TLA+. TLC checks the modules on small instances; TLAPS proves the theorems for
every value of the constants. Nothing here is generated from the code: each
definition names, in `PROJECT.json` ("map"), the lines it translates.

## The system

One process, a tokio runtime of several threads, one SQLite file. The dashboard
tells the server which tabs are visible; as long as some tab is, price requests
start background refreshes that ask four providers and store what they answer.

| Component (source) | State | Operations | What makes it correct |
| --- | --- | --- | --- |
| Presence tracker (`presence.rs`, `state.rs`) | `viewers`, `full_refresh_generation` | heartbeat, reject, leave, count; each prunes first | capacity; expiry on time although pruning is lazy; one activation per first viewer |
| Refresh coordinator (`refresh.rs`) | round-robin cursor, last attempt, per-provider deadline and streak, served activation | `begin`, `complete` | minimum interval, documented backoff and hints kept exactly, fair rotation, no activation lost |
| Price request and refresh (`handlers.rs`, `pricing.rs`) | the refresh mutex, `price_refresh_report`, locals of requests and tasks | `cached_prices`, the spawned task, `refresh_snapshot` | one refresh at a time, no lost update, guard never leaked, readers never wait, honest status |
| Price store (`storage.rs`) | the SQLite tables | `store_refresh`, `load_price_state`, `init_db` | quotes and health change together or not at all, and survive a crash |
| Freshness (`freshness.rs`) | none | `evaluate_quotes` | status of a response from rows and health |
| Shutdown (`lifecycle.rs`, `main.rs`) | `stopping`, the deadline | drain requests, then the refresh, in one budget | it ends; an orderly end leaves nothing running; nothing new is dispatched |
| Connection server (`lifecycle.rs`) | connection slots, task set | accept, serve, abort | slots come back, one request per connection |
| Request limits (`limits.rs`) | token bucket, slots | admit, refuse, release | documented burst and rate, no lost permit |
| News cache (`news.rs`) | the cached feed | read, fetch, keep on failure | one fetch at a time, failures throttled, staleness marked |
| Dashboard (`dashboard.js`) | two polling loops and the feed reader, visibility generations, timer handles, the last prices | start, stop, poll, receivePrice, render, refreshFeed | no loop dies or doubles over visibility changes, a hidden tab is forgotten, a visible one stays a viewer, headlines arrive and are not shown as current too long, prices are never shown as better than they are |
| Provider clients (`pricing.rs`, `errors.rs`, `config.rs`) | the exchanges under way, the bytes held | the concurrent fetches of one refresh | only genuine quotes come out, failures are named for what happened, the join ends at its deadline |
| Configuration, assets, models (`config.rs`, `app.rs`, `ui.rs`, `models*`) | none | parsing, static answers | unit-testable; constants of the models |

How they interact: `POST /api/presence` changes `viewers` and may continue as a
price request. A price request tries the refresh mutex *before* it reads SQLite,
then counts viewers, then decides. A granted plan moves the mutex guard into a
spawned task, which rechecks the shutdown flag and the viewers, asks the
providers, stores quotes and health in one transaction, completes the plan,
publishes a report, and releases the guard. Shutdown drains the requests and then
waits for the same mutex.

What is hard here: requests and tasks interleave at every await; a request can be
cancelled at every await; several values are read at different moments and then
used together; the process can die anywhere and forgets everything but the
database; there are two clocks, and one of them can be set. `PROJECT.json`
("hazards") lists each of these at its line, with the properties that watch it.

## The modules

| Module | Models | Extends / instantiates |
| --- | --- | --- |
| `Presence` | presence.rs: pruning, admission, activation as operators and actions | |
| `PresenceApi` | `Presence` driven by clients, a clock, the value each call returns | `Presence` |
| `ViewerRegistry` | abstract: viewers that expire exactly on time, no pruning | instantiated by `PresenceApi` |
| `RefreshCoordinator` | refresh.rs: `Begin`, `Complete`, backoff, hints | |
| `RefreshCadence` | the coordinator over time, with the documented promises as history variables | `RefreshCoordinator` |
| `ProviderClient` | pricing.rs, errors.rs: the fetches of one refresh, from the connection to the outcome | |
| `Freshness` | freshness.rs: age and freshness of a row, contributors, status | |
| `PriceService` | handlers.rs, pricing.rs, storage.rs, lifecycle.rs together, with crash and restart | `Presence`, `RefreshCoordinator`; `F` = `Freshness` |
| `QuoteBook` | abstract: a refresh is one atomic batch of new quotes and outcomes | instantiated by `PriceService` and `PricePage` |
| `ServedLive` | `PriceService` plus, per request, whether the server was LIVE during it | `PriceService` |
| `RequestGate` | limits.rs: one gate | |
| `ConnectionServer` | lifecycle.rs: accept loop, connections with their deadlines, drain and abort, one gate behind them | `RequestGate` |
| `FeedCache` | news.rs | |
| `FeedReader` | the feed reader of dashboard.js, on the server's cache | `FeedCache` |
| `Dashboard` | the loops of dashboard.js in one tab, the network, and the server's presence tracker | `Presence` |
| `PricePage` | what dashboard.js holds and shows of the prices, over a server that is its stored book | `Book` = `QuoteBook`, `F` = `Freshness` |
| `PriceStore` | storage.rs, statement by statement | |
| `StoredState` | abstract: one stored value, replaced at once and read at once | instantiated by `PriceStore` |
| `PresenceProofs` | theorems and proofs about the tracker and the tab | `PresenceApi`, `Dashboard`, `TLAPS` |
| `RefreshCadenceProofs`, `PriceServiceProofs`, `ProviderClientProofs`, `ConnectionServerProofs`, `PriceStoreProofs`, `FeedReaderProofs`, `PricePageProofs` | theorems and proofs | their component, `TLAPS` |
| `MC*` | symmetry sets and constant values for TLC | their component |

Operators named as mutants in their comment are plausible bugs of the definition
that follows them; substituted for it, they break the property `PROJECT.json`
("mutants") pairs them with. Nothing else refers to them.

### Steps and atomicity

A step ends where the code awaits. What lies between two awaits is one action:

* `Request` is everything up to the await of `load_price_state`, `Load` its
  result, `Count` the viewers' mutex and the wall clock after it, and
  `Spawn`/`Respond` all that follows the report's mutex (handlers.rs:106-225). The
  atomics read there (`stopping`, `full_refresh_generation`) can change on another
  thread inside that stretch; each is read once, and a change after the read is
  the same as a change after the whole step, since nothing later in the stretch
  depends on it.
* The task: `RecheckStopping`, `RecheckViewers` (apart, because the flag is read
  before the viewers' mutex is awaited), `ProviderAnswers` per provider, `Commit` or
  `StoreFails`, `CompleteRefresh`, `Publish`. The report is replaced and the guard
  dropped in one step: between the two nothing awaits.
* The viewers' mutex is held only inside single steps, so it has no owner variable.
* A SQLite transaction is one step (`Commit`, `Load`): that is SQLite's promise. The
  refinement of `QuoteBook` is about what the code puts into it.
* In `PriceStore` a step is a statement, or the statements between two that someone
  else could see; the lock and the open reads are explicit.
* In `Dashboard` and `FeedReader` a step is a JavaScript handler, which runs to its end.
  The functions are operators from a page to a page, because they call each other
  within a step. A request that was aborted may settle at any time up to its deadline,
  later than browsers do: the code keeps the worker until then, and so must the loops.
* In `ProviderClient` a step is an await of `fetch_json` or `decode_response` that is
  over: the connection, the headers, one chunk, the end of the body, a timer. What the
  provider really did is kept beside what the client knows of it, as a history.
* In `PricePage` a step is a handler again. The price loop and the startup heartbeat are
  requests with the answer the server has given and the network not yet delivered; a
  later heartbeat is the error flag it leaves. The server is its book: any request may
  find it unreadable, or a reported error. `strays` are the timers whose handle was
  overwritten (see `LoopsAlive` below): they fire too.
* In `ConnectionServer` a connection's task moves when hyper reports the headers, in
  `limit_requests` (two steps, as in `RequestGate`), when the handler ends, and when
  the connection does. `AbortAll` is `abort_all` and the `join_next` loop after it.
* `limits.rs` reads the clock before it locks the bucket, so `RequestGate` has a step
  for each.

Data is abstracted to what the properties tell apart. A quote is the second it was
observed; prices, texts, warnings and quote kinds are left out. Instants and
durations are whole seconds (in `RequestGate`, the time one token takes). A
provider row of the database is "SUCCESS", "FAILURE" or absent for the `unknown` of
a fresh database. The monotonic clock is `now`; the wall clock is `now + skew`, and
`AdjustClock` sets it: at most once in `PriceService`, any number of times in `FeedReader`,
whose page plans with `Date.now()` and waits with timers that run on `now`. Provider hints occur in `RefreshCadence`, where the waits are
the subject; `PriceService` leaves them out, and lets `Tick` and failures vary. In `ProviderClient` a
body is a number of bytes and, when it is complete, a document: the form in which the
provider names what it quotes, and an amount of some JSON type and class of value.

### The abstract specifications

* `ViewerRegistry`: a session is there or not; it leaves by itself when its time is
  over; each call answers with the true count. `PresenceApi` implements it with
  `seen` = the map cut to its unexpired entries, so nobody can observe that expired
  entries linger.
* `QuoteBook`: quotes and marks change together, in batches that add the providers
  that answered and keep all others. `PriceService` implements it with the stored
  snapshot, through lost requests, failed writes, shutdowns and crashes.
* `StoredState`: what `Load` and `Commit` of `PriceService` assume of the database.
  `PriceStore` implements it with `View`, what a read of the whole file would answer;
  migration and retention are stuttering steps, so no reader can tell a migrated file
  from the old one.

## The runs

| Run | Configuration | Distinct states | Checks |
| --- | --- | --- | --- |
| `presence` | 3 sessions, capacity 2, TTL 2, clock to 8, 3 activations | 825 | `CapacityHeld`, `ActivationOnFirstViewer`, `RegistrySpec` |
| `cadence` | 3 providers, hints of 3 and (unrepresentable) 50, clock to 5 | 163 000 | `NoOvertaking`, `ActivationKept`, `AttemptsSpaced`, `BackoffRespected`, `NoNeedlessWait`; the documented ladder |
| `price_service` | 1 request, 1 task, 2 providers, clock to 1, the wall clock set once, either way | 258 000 | `TypeOK`, ownership, current data, spacing, orderly stop, `BookSpec`, `ReadersNeverWait`, `RefreshReleases`, `ShutdownEnds` |
| `providers` | two plans of 2 providers, connect deadline 1, request deadline 3, body limit 3, chunks of 1 or 2 | 1 420 000 | `QuoteIffGenuine`, `CauseNamed`, `JoinBounded` |
| `page` | 2 symmetric providers, an empty and an old database, 1 refresh, 1 hidden period, clock to 6 | 2 884 000 | `AnswersValid`, `LabelNeverBetter`, `ShownQuotesAreRecent`, `SilenceShows` |
| `front_door` | 2 remote peers on 1 slot, 1 loopback peer, rate 2, 1 handler, every deadline | 671 000 | both kinds of permits, the rate in clock order, `StoppedServerIsIdle`, `HandlersEndFirst`, `ServerEnds` |
| `feed` | one page over 3 generations, 2 possible fetches, interval 2, the wall clock set at will, ahead by 1 at most, clock to 7 | 1 165 000 | `OneFetch`, `RefreshReturns`, `NoticeHonest`, `HeadlinesArrive` |
| `dashboard` | one tab over 4 generations, 1 loss or restart, clock to 9 | 884 000 | `LoopsAlive`, `OneSetOfTimers`, `HiddenForgotten`, `VisibleIsLive` |
| `price_store` | 2 servers, 2 providers, files of every version with 0 to 2 snapshots, 2 refreshes | 255 000 | `SchemaWhole`, `StateSpec` |
| `gate_race` | 3 requests, rate 1 | finding | `AdmissionBound` |
| `served_live` | 2 providers, 1 request | finding | `LiveWasTrue` |
| `dispatch_while_stopping` | 1 provider | finding | `NoDispatchWhileStopping` |

Why these bounds are enough to be worth running. Capacity 2 with 3 sessions makes
admission, refusal and expiry at capacity meet. Three providers are the least for
which a cursor, a cooling provider and a passed-over one are distinct; four add
only another position. Its instants are scaled so that the interval is one; an assumption
of `MCRefreshCadence` has TLC compute the ladder from the program's own constants and
compare it with the documented one, 10 to 300 seconds.

In `price_service` two providers let a refresh half succeed, and two instants let a second
refresh follow a first; with a time to live of 0 a viewer is gone at the next instant. One
request is enough because requests meet only at the mutex, which each of them tries once,
and a second is represented by the task that holds it. One task is enough because a task
owns the mutex from its first step to its last (`GuardDiscipline`, checked here and proved
for any number of both): a second could not start. The deadlock check is off only where
the bounded clock ends the behaviour (`presence`, `cadence`, `front_door`, `feed`,
`dashboard`, `page`); the service, the store and the providers are checked for deadlock.

`providers` keeps the order of the numbers: a connect deadline below the request's, chunks
smaller than the limit that exceed it together, lengths declared from 0 to one more than
the limit, or not at all. The plans pair the four providers, so that each one's document
is met, and two fetches are enough to see that one neither ends nor names the other. The
clock goes past the deadlines, so that a missing one would show.

`page` counts in units of five seconds: a cadence of 1, deadlines of 1 and 2 for the
program's 5, 3 and 8 seconds. The maximal age is 2 instead of 18, so that quotes grow
stale between answers; the properties are about its order with one answer's delay, not
its length. The old database has what an earlier version, or a clock that was ahead, left
behind: a quote without a time, one from the future, one of an unknown source; either
provider may have either, so the providers are interchangeable.

`dashboard` counts in units of two and a half seconds: a cadence of 2, deadlines of 1
and 3 and a time to live of 6 are the program's 5, 3, 8 and 15 seconds, rounded so
that the sums the properties need (a deadline, a pause and a delivery within one time
to live) stay on the same side. The clock runs past one whole time to live after a
tab is left, and past one recovery after a fault. `feed` keeps the order of the
delays (soon <= timeout < delay = interval; the unit leaves a second and fifteen seconds no
difference), and lets the page wait, ask and settle twice. Its wall clock can be
set back by one unit, as often as it is set ahead again: that already breaks both bounds
of the page if their `behind` is left out. In `front_door` the handler's deadline and the headers' add up to the
lifetime, as in the program, and the grace period is shorter than the lifetime, so
that aborts happen. `price_store` starts from every file `init_db` can meet, with two
snapshots in either order of time or in the same second; the second server shows what
the immediate transaction is for.

`TypeOK` of `Dashboard`, `FeedCache` and `PriceStore` say what the variables are for
rather than what could go wrong, and are in no run; the inductive invariants of the proofs
contain what they say of types. `PriceService` checks its own, and it, `ApiTypeOK`,
`ReaderTypeOK`, `ServerTypeOK` and the coordinator's types are theorems.

Bounds: `MaxNow` (`MaxTime` in `PresenceApi`) and `MaxActivations` stop the clock and the
activation counter;
`Readers` and `Tasks` are the processes that can exist at once. `MaxInstant`
stands for the largest `Instant`: `checked_add` fails above it. `MaxSkew` is how far the
wall clock is ever ahead of the monotonic one, and so the most it can be set back by.

### Fairness

* `ReaderFairness`: the runtime polls a request whose await is ready. The viewers'
  and report mutexes are held only for single steps, SQLite reads run on the
  blocking pool and end.
* `TaskFairness`: the same for the spawned task, plus a time limit on each provider
  request (`UPSTREAM_REQUEST_TIMEOUT`, five seconds) and SQLite's own end of a
  write, with or without success.
* `ShutdownFairness`: the grace period is a timer. `HttpDeadline` and
  `RefreshDeadline` are enabled while there is something to give up on.
* No fairness on arrivals, cancellation, viewers, the clocks, shutdown or restart.
* `FairSpec`, which the `price_service` run checks, assumes the first and the third only:
  `ReadersNeverWait` and `ShutdownEnds` hold although every refresh and provider may
  hang. `RefreshReleases` names `TaskFairness` as its premise.
* `ReaderSpec`: a fetch of the news ends because its deadline is a timer
  (`RefreshTimeout`); `Tick` does not pass the deadline of a running fetch.
* `ServerFairSpec`: time passes, due timers fire, the drain is polled, and nothing
  awaits between the two halves of the gate. Clients and handlers owe nothing, and
  `ServerEnds` holds all the same. A shutdown is requested only while the bounded clock
  leaves room for the grace period.
* `Dashboard`, `PriceStore`, `ProviderClient` and `PricePage` have safety properties only.
  What must happen in time is said with the clock, which does not pass a due timer
  (`VisibleIsLive`, `HiddenForgotten`, `JoinBounded`, `SilenceShows`).

### What the passing runs show beyond the documents

* `LoopsAlive` and `OneSetOfTimers`. AUDIT.md:399 promises that visibility restoration
  "resumes exactly one set of timers". It does if the requests of the earlier period
  have settled. If the startup price arrives while an aborted price request still has
  not, the handle of its timer is overwritten (dashboard.js:194, :224) and one price
  request comes early; it takes over the loop when it fires, so loops never double.
* `VisibleIsLive`. A beacon that overtakes the next heartbeat costs one cadence: the tab
  is a live viewer again a beacon's delay, a deadline, a pause and a delivery after it
  was shown. A lost heartbeat or a restarted server costs no more.
* `HandlersEndFirst`. The five, twenty and twenty-five seconds of README.md:167-171 leave
  no slack. The headers' five end when the request is routed, but the handler's twenty
  begin only when the gate has admitted it (limits.rs:104), and the connection's twenty-five
  do not wait. So a request that was routed at the last moment and then waited in the gate,
  for the bucket's mutex, can be dropped with its connection before the 408. The property
  says that whoever is cut off there was routed twenty seconds ago: what the handler lacks
  of them is that wait, no more, and one that did not wait lacks nothing. Without the header deadline a slow client would lose far more.
* `HeadlinesArrive`, `NoticeHonest`. The server's interval and the page's retry delay are
  both five minutes, so headlines called current can be almost ten minutes old. The page
  plans its next question with `Date.now()` (dashboard.js:310, :316, :389). If the
  computer's clock is set back by an hour after a poll, a visible page asks nothing for an
  hour longer, while its notice still says "Updates every 5 minutes". `behind` is by how much the
  clock has put the planned question off, and both properties allow that much and no
  more: the delay is bounded by the correction, and over with the next answer.

* `LabelNeverBetter`, `ShownQuotesAreRecent`. The page starts counting when an answer
  arrives, so its ages may be short by what the answer took, eight seconds at most; that
  is all: at equal clocks it is never more optimistic than the server, also with quotes
  without a time or from the future.
* `SilenceShows`. A visible page without prices is OFFLINE after one startup deadline, one
  pause and one price deadline, through the hand-over between visibility periods.
* `QuoteIffGenuine` reads in both directions: nothing else becomes a quote, and a body of
  exactly the limit does.

### What the violations show

* `gate_race`. A request that read the clock at `t` can reach the bucket after one
  that read it at `t + 1`; `allow` then sets `updated` back to `t`, and the second
  between is refilled again (limits.rs:44, :86). README.md:165-166 promises bursts of at
  most one second's allowance. `AdmissionBoundInOrder` shows that this is the only
  way the rate is exceeded.
* `served_live`. A request reads the database, waits, and reads the report. If a
  refresh that half failed commits and reports in between, and the attempt before it
  had failed to be stored, the old healthy rows meet the new clean report: LIVE,
  although before the commit the server was DEGRADED by the report and after it by
  the failed provider (handlers.rs:82, :106; docs/source-contract.md:149, :154-155).
* `dispatch_while_stopping`. The task loads `stopping`, then awaits the viewers; the
  flag set during the await is not seen (handlers.rs:127-128). The comment at :126
  and docs/source-contract.md:207 promise otherwise. The consequence is mild, since
  the drain waits for the refresh: `StoppedMeansQuiet` and `ShutdownEnds` hold.

## The proofs

`tlapm` checks the eight proof modules to the last leaf. Together they state every
invariant and every action property of the passing runs, and the three refinements, for all
values of the constants; what is left to TLC is named at the end.

Assumptions are the named `ASSUME`s of the modules, which TLC evaluates on the runs:

* finite sets of sessions, requests of the gate and providers; natural or positive times,
  limits and capacities;
* `None` is none of the values it stands beside, and requests and tasks have different
  names: facts about the model's encoding, not about the code;
* the order of the program's durations where a property rests on it:
  the headers' and the handler's deadlines fit into the lifetime (`ServerAssumption`; 5 s +
  20 s <= 25 s); the connect deadline is no later than the request's (`ClientAssumption`);
  a startup pause is no longer than the cadence, the presence deadline no longer than the
  price deadline, and that no longer than a presence deadline and a pause
  (`PageAssumption`; 1 <= 5, 3 <= 8 <= 3 + 5); the short retry of the feed is no longer
  than the long one (`ReaderAssumption`);
* `PresenceTimeout + Cadence + MaxDelay <= TTL` (`DashboardAssumption`): with the
  program's 3, 5 and 15 seconds, the network delivers a message within seven seconds or
  never. This is the one assumption about the network. `VisibleIsLive` is false
  without it: a live viewer could expire between two heartbeats of a healthy tab;
* the wall clock is ahead of the monotonic one by `MaxSkew` at most, any natural number, and
  is set, either way, at most once in `PriceService` and any number of times in
  `FeedReader`;
* for `RefreshCadence`, that the documented ladder is the coordinator's
  (`DocBackoffAssumption`, which the `cadence` run evaluates, with `LadderIsDocumented` for
  the program's numbers) and that hints and clock steps are natural numbers.

`PresenceProofs`, the tracker (any sessions, time to live, capacity, clock bound):

* `TypeInvariant` is inductive as it stands; its core is that `Prune`, `Insert` and
  `Remove` keep a viewer map a viewer map (lemmas about each).
* `Capacity`: `CapacityHeld` needs `ApiTypeOK` for finiteness; pruning only shrinks the
  domain, and `Insert` adds one session to a domain `Admits` has found small enough,
  or none.
* `Activation`: an action property. The live viewers after a step are computed for
  each operation from the pruned map before it; a tick can only shrink them.
* `Implements`: `ApiSpec => Registry!Spec`. One step per operation; the mapping cuts the
  map to its unexpired entries, and pruning a pruned map changes nothing, so each
  operation is the registry's, and a tick is its expiry.

`PresenceProofs`, the tab (any pauses, deadlines and delays within the order above, any
number of visits, losses and restarts). `TabInvariant` is the inductive invariant:

* `Sound(page)`: no request is older than its deadline, no timer and no message is
  overdue, an armed handle holds a timer of its kind. `Runs(page)` is `LoopsAlive` made
  inductive: a handle that no request has replaced is that of an armed timer, so that a
  timer which fires finds its loop. `Tidy(page)` is `OneSetOfTimers` made inductive: every
  timer is in its handle, and prices wait idle for the first heartbeat. There is a lemma
  for each function of dashboard.js (`Sets`, `Asks`, `StartupEnds`, `Starts`, `Stops`,
  `Settles`, `Fires`).
* `AwayInv`: no heartbeat was sent after the user left, so the tracker knows of none later
  than a delivery after that: `HiddenForgotten`.
* `HereInv`, `NextInTime`, `InTime`: while the user is here only beacons of earlier periods
  are under way, and past a delivery after the last disturbance they are gone; for some
  heartbeat that is under way or known to the server the next is due a deadline and a pause
  later; hence each instant was followed by a heartbeat within that time. `TabTicks` is
  where the three meet: a tick past the due time of every successor would have passed a
  deadline or a timer. `VisibleIsLive` is `InTime` at the instant a delay, a deadline and a
  pause ago.

`RefreshCadenceProofs` (any number of providers, any interval, hints and clock). One
inductive invariant, `CadenceInv`, relates the coordinator to the history:

* `WaitsAgree`: the failure count is the true streak cut at six, and a deadline is the
  documented one where there is one, and none where nothing is owed. `CompleteStep` shows
  that the code's wait and the documented wait are the same number, hints that no instant
  can hold included. `Waits` and `NoLongerWaits` are the two directions of it, and
  `Spacing` follows from the attempt being charged when it is begun.
* `RotationBound`: how often a provider was passed over plus its distance from the cursor
  stays below N. A step that passes it over moves the cursor to just after a provider
  nearer to it, so the distance shrinks by at least one; any other resets the count. That
  is `FairRotation`. The cursor is set from the largest provider of a plan, whose
  existence is `LargestExists` (by the well-foundedness of strict inclusion between finite
  sets, since induction over numbers is out of the provers' reach).
* `ServiceKept`: a full plan for the last activation has promised every provider, asked or
  cooling, and a plan for an earlier one cannot mark the last as served:
  `ActivationsServed`.
* `CoordinatorTypes` is the type invariant.

`PriceServiceProofs` (any number of requests, tasks, providers, sessions):

* `Ownership` (`GuardDiscipline`) is the base. It is inductive: whoever takes the
  mutex becomes its owner only from `None`, `Spawn` passes it on, and only its owner
  releases it.
* `OneRefresh` (`SingleFlight`) follows at once, since an active task is the owner.
* `DecisionsAreCurrent` and `MergesAreCurrent`: neither is inductive alone. The
  strengthening joins them with `GuardDiscipline`: the database changes only by a
  task that commits, that task is the owner, so no reader owns the mutex then; and
  a task's base is what a current reader gave it.
* `QuietStop`: the strengthening says that no request is in progress from `waiting`
  on. A task can be active only as owner, and the stop needs the mutex free.
* `ServiceTypes` (`TypeOK`) and `BookImplemented` (`BookSpec`): `ServiceInv` adds the
  clocks, the viewers, the coordinator's types and `BatchInv`, by which no stored quote,
  and none a task has gathered, lies after the furthest wall clock so far, and what a task
  has gathered is about the providers of its plan. With that and a current base, `Commit`
  is one batch of the quote book (`CommitIsBatch`) and every other step leaves it alone or
  moves its clock. `ServiceTypes` states only the sets the variables lie in; what the
  invariant says of time is the theorem `StoredTimes` (`TimesInOrder`): no quote, stored
  or gathered, lies after the furthest clock so far, also after a clock was set back, and
  a batch about to be written is its base merged with the answers.
* `Spacing` (`SnapshotsSpaced`): as long as the wall clock is not set, whoever owns the
  mutex past the decision has seen the stored snapshot and an instant a minimal age after
  it (`SpacingInv`), crash and restart in between included.

`ProviderClientProofs` (any plans, limits and deadlines). `ClientInv` compares, fetch by
fetch, what the client knows with what the provider did: while the exchange is under way
they agree on bytes and length, within the limit and before the deadline, and once it is
done the outcome is the right one. `Genuineness`, `Causes` and `JoinInTime` read the three
parts off. Fetches do not touch each other, so the step is proved for one.

`ConnectionServerProofs` (any peers, pools, rate and deadlines). `ServerInv` joins
`PermitsAccountedFor` with where a request may be: it is handled only inside a connection
that has reached its handler, which is why a dropped connection gives back exactly what its
peer held. `BucketInv` (spent and left is no more than time has given up to the instant the
bucket knows) gives `Admission`; it holds as long as the clock readings arrive in order,
which is the finding of `gate_race` from the other side. `TimesInv` gives
`WholeHandlerTime`: a request is routed within the headers' deadline, so a whole handler's
deadline before its connection's lifetime ends, and what a handler that is cut off there
lacks is the time between routing and admission (`Begun`).

`PriceStoreProofs` (any servers, providers and refreshes). `StoreInv`: the work of an open
transaction is a function of the committed database and the statements done so far
(`Deleted`, `Replaced`, `Refreshed`), which no one else can change under the lock, and a
reader has read what it would read now. `Schema` follows from `Whole(db)`; `OneValue`
(`StateSpec`) maps a commit to the abstract replacement and the last read to one read.
`Existing`, the files of earlier versions, is where the induction starts.

`FeedReaderProofs` (any delays and deadlines). `FeedInv`: one fetch; the page has a timer
or a request while it runs; its next question is no later than `Latest`, the instant it
planned and what the wall clock has put that off by. `ClockInv` relates `next_check`, which
is on the wall clock, to that; setting the clock moves the two together (`AdjustKeeps`). The
plan is bounded by what is shown and by when the server got something newer. `Arrival` follows by arithmetic, `Honesty` from what a reply says at the time it is made.

`PricePageProofs` (any providers, first books, maximal age, durations in the order above).
`PriceInv`: an answer the page holds or awaits is `Good`, that is, its rows, ages and status
are those of one instant, and that instant is no more than the request before it arrived;
without an error the next question follows the last news within a deadline and a pause.
`NeverBetter` and `AverageIsRecent` compare the page's ageing with the server's at the same
clock, `SilenceIsShown` adds the deadline of the question.

What only TLC checks. Liveness under fairness and `ENABLED` are out of the prover's reach:
`ReadersNeverWait`, `RefreshReleases`, `ShutdownEnds`, `ServerEnds` and `RefreshReturns`.
`TypeOK` of `Dashboard` is not a theorem, for its bounds on generation and clock.

## Not modelled

TLS, redirects beyond not being followed, JSON syntax and number formats below the classes
of `ProviderClient`, floating-point average and spread, response texts, configuration
parsing, assets and ETags, HTTP parsing, the page's layout and texts, build and CI. In
`PricePage` an answer is evaluated in one step; what can go wrong between its reads is
`served_live`. A panic in a task and
a poisoned bucket mutex are left out: no path of the modelled code panics on the
states it can reach. `PriceService` lets requests start while draining, as
connections accepted before may; the code allows each such connection only one.

## Plan

Done in this order: presence; coordinator and cadence; the service with its store,
shutdown and restart; its proofs; limits and news; the dashboard and the feed reader;
the connection server; the store's statements and migration; the provider requests; what
the page shows; the proofs of the cadence; the proofs of the other components.

Next, the model:

1. `PriceService`'s drain refined to `ConnectionServer`'s, its provider answers with the
   outcomes and hints of `ProviderClient`.
2. Several tabs at the viewer limit on `Dashboard`'s network, and price requests of a tab
   that start refreshes.
3. Refreshes that go on after the wall clock was set back, as liveness under fair tasks.
4. The proofs that go with these, and that the steps of `ConnectionServer`'s drain
   implement those of `PriceService`.
