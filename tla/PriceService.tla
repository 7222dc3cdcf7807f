---------------------------- MODULE PriceService ----------------------------
(***************************************************************************)
(* One server process and its SQLite database: price requests, the        *)
(* background refresh they start, viewers, shutdown and crashes.           *)
(*                                                                         *)
(* A reader is a request inside cached_prices (handlers.rs); a task is a   *)
(* refresh it spawned.  Steps end where the code awaits, so everything     *)
(* between two awaits is one action.  A reader that finds the refresh      *)
(* mutex free takes it, and hands it to the task it spawns.                *)
(***************************************************************************)
EXTENDS Presence, RefreshCoordinator

CONSTANTS
    Readers,           \* requests that can be in progress at once
    Tasks,             \* refresh tasks that could exist at once
    MaxAge,            \* SOURCE_MAX_AGE_SECONDS
    MaxSkew,           \* bound: how far the wall clock may be ahead of the monotonic one
    MaxNow,            \* bound: the clock stops there
    MaxActivations     \* bound: activations of one process

ASSUME ProcessAssumption ==
    /\ Readers \intersect Tasks = {}
    /\ None \notin Readers \union Tasks
    /\ MaxSkew \in Nat
    /\ MaxAge \in Nat \ {0}

VARIABLES
    skew,       \* the wall clock reads now + skew
    adjusted,   \* history: the wall clock has been set
    db,         \* the SQLite file: the only state that outlives the process
    owner,      \* who holds the refresh mutex
    report,     \* price_refresh_report: the last completed attempt
    stopping,   \* AppState.stopping
    phase,      \* where serve_tracker_until is
    reader,     \* per reader: its place in cached_prices and what it has read
    task        \* per task: its place in the refresh and what it has gathered

F == INSTANCE Freshness WITH Configured <- Index

clockVars == <<now, skew, adjusted>>
processVars == <<presenceVars, coordinatorVars, owner, report, stopping, phase, reader, task>>
vars == <<clockVars, db, processVars>>

Skews == 0 .. MaxSkew

now_unix == now + skew

-----------------------------------------------------------------------------
\* What the database holds: the merged snapshot (its time and, per provider, the
\* time of its quote), or no snapshot at all, and the outcome of every
\* provider's last attempt.
NoQuotes == [i \in {} |-> 0]
NoSnapshot == [fetched_at |-> None, quotes |-> NoQuotes]
EmptyDb == [snapshot |-> NoSnapshot, health |-> [i \in {} |-> "SUCCESS"]]

\* The snapshots a refresh can store.
Snapshots == [fetched_at : Nat, quotes : UNION {[some -> Nat] : some \in SUBSET Index}]

ASSUME NoneIsNoValue == None \notin BOOLEAN /\ None \notin Snapshots

IdleReader == [pc |-> "idle", stored |-> None, seen |-> None]
IdleTask == [pc |-> "idle", plan |-> None, base |-> None, answers |-> None, write |-> None,
             saved |-> None]

NoReport == [succeeded |-> FALSE, errors |-> FALSE]

\* The state of a process that has just started (AppState::with_dependencies).
Boot ==
    /\ PresenceInit
    /\ CoordinatorInit
    /\ owner = None
    /\ report = NoReport
    /\ stopping = FALSE
    /\ phase = "serving"
    /\ reader = [r \in Readers |-> IdleReader]
    /\ task = [t \in Tasks |-> IdleTask]

Init ==
    /\ now = 0
    /\ skew \in Skews
    /\ adjusted = FALSE
    /\ db = EmptyDb
    /\ Boot

-----------------------------------------------------------------------------
\* The refresh mutex: an OwnedMutexGuard that moves from the reader to its task.

Acquire(r) == owner' = IF owner = None THEN r ELSE owner        \* try_lock_owned().ok()

Release(holder) == owner' = IF owner = holder THEN None ELSE owner

SetReader(r, record) == reader' = [reader EXCEPT ![r] = record]
SetTask(t, record) == task' = [task EXCEPT ![t] = record]

-----------------------------------------------------------------------------
\* Viewers: POST /api/presence.  A heartbeat that includes the price continues
\* as a Request.

Serving == phase \in {"serving", "draining"}

ViewerAction ==
    /\ Serving
    /\ \E s \in Sessions : Heartbeat(s) \/ Reject(s) \/ Leave(s)
    /\ full_refresh_generation' <= MaxActivations
    /\ UNCHANGED <<clockVars, db, coordinatorVars, owner, report, stopping, phase, reader, task>>

-----------------------------------------------------------------------------
\* Readers: cached_prices

\* The request arrives and tries the mutex, before it reads anything.
Request(r) ==
    /\ Serving
    /\ reader[r].pc = "idle"
    /\ Acquire(r)
    /\ SetReader(r, [IdleReader EXCEPT !.pc = "load"])
    /\ UNCHANGED <<clockVars, db, presenceVars, coordinatorVars, report, stopping, phase, task>>

\* Mutant: the read waits for the mutex (lock instead of try_lock).
LoadOwning(r) ==
    /\ reader[r].pc = "load"
    /\ owner = r
    /\ \E stored \in {db, None} : SetReader(r, [pc |-> "count", stored |-> stored, seen |-> None])
    /\ UNCHANGED <<clockVars, db, presenceVars, coordinatorVars, owner, report, stopping,
                   phase, task>>

\* load_price_state: one read transaction over quotes and health, or an error
\* (stored stays None).
Load(r) ==
    /\ reader[r].pc = "load"
    /\ \E stored \in {db, None} : SetReader(r, [pc |-> "count", stored |-> stored, seen |-> None])
    /\ UNCHANGED <<clockVars, db, presenceVars, coordinatorVars, owner, report, stopping,
                   phase, task>>

\* Mutant: ownership is reserved after the database has been read.
CountReserving(r) ==
    /\ reader[r].pc = "count"
    /\ CountViewers
    /\ Acquire(r)
    /\ SetReader(r, [reader[r] EXCEPT !.pc = "decide",
                                      !.seen = [viewers |-> Live # {}, at |-> now_unix]])
    /\ UNCHANGED <<clockVars, db, coordinatorVars, report, stopping, phase, task>>

\* active_viewer_count, then response_now.
Count(r) ==
    /\ reader[r].pc = "count"
    /\ CountViewers
    /\ SetReader(r, [reader[r] EXCEPT !.pc = "decide",
                                      !.seen = [viewers |-> Live # {}, at |-> now_unix]])
    /\ UNCHANGED <<clockVars, db, coordinatorVars, owner, report, stopping, phase, task>>

\* Mutant: the coordinator's gate is the only one.
TooSoonNever(snapshot, unix) == FALSE

\* snapshot_age_seconds and refresh_skip_reason: a snapshot from the future has
\* no age and does not delay a refresh.
TooSoon(snapshot, unix) ==
    /\ snapshot.fetched_at # None
    /\ unix - snapshot.fetched_at \in 0 .. Interval - 1

MayRefresh(r) ==
    /\ reader[r].stored # None
    /\ ~ stopping
    /\ reader[r].seen.viewers
    /\ ~ TooSoon(reader[r].stored.snapshot, reader[r].seen.at)
    /\ owner = r
    /\ CanBegin(now, full_refresh_generation)

\* The last poll of cached_prices: a granted plan goes to a spawned task, with
\* the mutex and the snapshot this reader loaded ...
Spawn(r, t) ==
    /\ reader[r].pc = "decide"
    /\ MayRefresh(r)
    /\ task[t].pc = "idle"
    /\ Begin(now, full_refresh_generation)
    /\ SetTask(t, [IdleTask EXCEPT !.pc = "spawned",
                                   !.plan = Plan(now, full_refresh_generation),
                                   !.base = reader[r].stored.snapshot])
    /\ owner' = t
    /\ SetReader(r, IdleReader)
    /\ UNCHANGED <<clockVars, db, presenceVars, report, stopping, phase>>

\* ... and any other outcome releases it.
Respond(r) ==
    /\ reader[r].pc = "decide"
    /\ ~ MayRefresh(r)
    /\ Release(r)
    /\ SetReader(r, IdleReader)
    /\ UNCHANGED <<clockVars, db, presenceVars, coordinatorVars, report, stopping, phase, task>>

\* Mutant: a cancelled request keeps the mutex.
CancelLeaking(r) ==
    /\ reader[r].pc # "idle"
    /\ SetReader(r, IdleReader)
    /\ UNCHANGED <<clockVars, db, presenceVars, coordinatorVars, owner, report, stopping,
                   phase, task>>

\* A disconnected client, the 20 second request deadline or the connection's
\* lifetime drops the request at an await; its guard is dropped with it.
Cancel(r) ==
    /\ reader[r].pc # "idle"
    /\ Release(r)
    /\ SetReader(r, IdleReader)
    /\ UNCHANGED <<clockVars, db, presenceVars, coordinatorVars, report, stopping, phase, task>>

\* The status a reader about to respond reports: evaluate_quotes on what it
\* loaded, and on the report as it is now.
StatusOf(stored, rep, unix) ==
    LET rows == {[source |-> i, at |-> stored.snapshot.quotes[i]] :
                     i \in DOMAIN stored.snapshot.quotes}
        status == F!PriceStatus(rows, stored.health, unix)
    IN  IF rep.errors /\ status = "LIVE" THEN "DEGRADED" ELSE status

-----------------------------------------------------------------------------
\* Tasks: the spawned refresh

Finish(t) == Release(t) /\ SetTask(t, IdleTask)

\* The task rechecks the shutdown flag, and then awaits the viewers' mutex.
RecheckStopping(t) ==
    /\ task[t].pc = "spawned"
    /\ IF stopping THEN Finish(t)
                   ELSE SetTask(t, [task[t] EXCEPT !.pc = "recheck"]) /\ UNCHANGED owner
    /\ UNCHANGED <<clockVars, db, presenceVars, coordinatorVars, report, stopping, phase, reader>>

\* Mutant: the task waits for a viewer to come back.
RecheckWaiting(t) ==
    /\ task[t].pc = "recheck"
    /\ Live # {}
    /\ CountViewers
    /\ SetTask(t, [task[t] EXCEPT !.pc = "fetch", !.answers = NoQuotes])
    /\ UNCHANGED <<clockVars, db, coordinatorVars, owner, report, stopping, phase, reader>>

\* With no viewer left the plan is dropped: complete is never called.
RecheckViewers(t) ==
    /\ task[t].pc = "recheck"
    /\ CountViewers
    /\ IF Live = {} THEN Finish(t)
                    ELSE /\ SetTask(t, [task[t] EXCEPT !.pc = "fetch", !.answers = NoQuotes])
                         /\ UNCHANGED owner
    /\ UNCHANGED <<clockVars, db, coordinatorVars, report, stopping, phase, reader>>

Succeeded(answers) == {i \in DOMAIN answers : answers[i] # None}

\* Mutants: a failed provider's quote is erased, or the batch replaces the snapshot.
MergeErasing(quotes, answers) ==
    [i \in DOMAIN quotes \union DOMAIN answers |->
        IF i \in DOMAIN answers THEN answers[i] ELSE quotes[i]]

MergeReplacing(quotes, answers) == [i \in Succeeded(answers) |-> answers[i]]

\* merge_snapshot_sources: the stored quotes, overridden by the new ones.
Merge(quotes, answers) ==
    [i \in DOMAIN quotes \union Succeeded(answers) |->
        IF i \in Succeeded(answers) THEN answers[i] ELSE quotes[i]]

\* Provider i of the plan answers (its quote is timed then) or fails (None).
\* The last answer ends the join, and the batch to store is put together.
ProviderAnswers(t, i) ==
    /\ task[t].pc = "fetch"
    /\ i \in task[t].plan.sources \ DOMAIN task[t].answers
    /\ \E answer \in {now_unix, None} :
         LET answers == Insert(task[t].answers, i, answer)
             joined == DOMAIN answers = task[t].plan.sources
         IN  SetTask(t, [task[t] EXCEPT
                 !.pc = IF joined THEN "store" ELSE "fetch",
                 !.answers = answers,
                 !.write = IF joined /\ Succeeded(answers) # {}
                           THEN [fetched_at |-> now_unix,
                                 quotes |-> Merge(task[t].base.quotes, answers)]
                           ELSE None])
    /\ UNCHANGED <<clockVars, db, presenceVars, coordinatorVars, owner, report, stopping,
                   phase, reader>>

\* write_provider_health: one row per provider asked.
Recorded(health, answers) ==
    [i \in DOMAIN health \union DOMAIN answers |->
        IF i \notin DOMAIN answers THEN health[i]
        ELSE IF answers[i] = None THEN "FAILURE" ELSE "SUCCESS"]

\* store_refresh commits the snapshot, if the batch has one, and the health rows
\* in one transaction ...
Commit(t) ==
    /\ task[t].pc = "store"
    /\ db' = [snapshot |-> IF task[t].write # None THEN task[t].write ELSE db.snapshot,
              health |-> Recorded(db.health, task[t].answers)]
    /\ SetTask(t, [task[t] EXCEPT !.pc = "complete", !.saved = TRUE])
    /\ UNCHANGED <<clockVars, presenceVars, coordinatorVars, owner, report, stopping, phase,
                   reader>>

\* ... or changes nothing.
StoreFails(t) ==
    /\ task[t].pc = "store"
    /\ SetTask(t, [task[t] EXCEPT !.pc = "complete", !.saved = FALSE])
    /\ UNCHANGED <<clockVars, db, presenceVars, coordinatorVars, owner, report, stopping,
                   phase, reader>>

\* The coordinator learns the providers' outcomes, stored or not.
CompleteRefresh(t) ==
    LET failed == task[t].plan.sources \ Succeeded(task[t].answers) IN
    /\ task[t].pc = "complete"
    /\ Complete(task[t].plan, [i \in failed |-> None], now, now_unix)
    /\ SetTask(t, [task[t] EXCEPT !.pc = "publish"])
    /\ UNCHANGED <<clockVars, db, presenceVars, owner, report, stopping, phase, reader>>

\* The report replaces the last one, and only then is the mutex released.
Publish(t) ==
    LET succeeded == task[t].saved /\ task[t].write # None IN
    /\ task[t].pc = "publish"
    /\ report' = [succeeded |-> succeeded, errors |-> ~ succeeded]
    /\ Finish(t)
    /\ UNCHANGED <<clockVars, db, presenceVars, coordinatorVars, stopping, phase, reader>>

-----------------------------------------------------------------------------
\* Shutdown: serve_tracker_until

ShutdownRequested ==
    /\ phase = "serving"
    /\ phase' = "draining"
    /\ stopping' = TRUE
    /\ UNCHANGED <<clockVars, db, presenceVars, coordinatorVars, owner, report, reader, task>>

HttpDrained ==
    /\ phase = "draining"
    /\ \A r \in Readers : reader[r].pc = "idle"
    /\ phase' = "waiting"
    /\ UNCHANGED <<clockVars, db, presenceVars, coordinatorVars, owner, report, stopping,
                   reader, task>>

\* Mutant: draining has no deadline.
HttpDeadlineNever == FALSE

\* The grace period ends with requests in progress: they are aborted.
HttpDeadline ==
    /\ phase = "draining"
    /\ \E r \in Readers : reader[r].pc # "idle"
    /\ phase' = "failed"
    /\ owner' = IF owner \in Readers THEN None ELSE owner
    /\ reader' = [r \in Readers |-> IdleReader]
    /\ UNCHANGED <<clockVars, db, presenceVars, coordinatorVars, report, stopping, task>>

\* Mutant: the stop does not wait for the background refresh.
RefreshUndrained ==
    /\ phase = "waiting"
    /\ phase' = "stopped"
    /\ UNCHANGED <<clockVars, db, presenceVars, coordinatorVars, owner, report, stopping,
                   reader, task>>

\* What is left of the grace period goes to waiting for the refresh mutex.
RefreshDrained ==
    /\ phase = "waiting"
    /\ owner = None
    /\ phase' = "stopped"
    /\ UNCHANGED <<clockVars, db, presenceVars, coordinatorVars, owner, report, stopping,
                   reader, task>>

RefreshDeadline ==
    /\ phase = "waiting"
    /\ owner # None
    /\ phase' = "failed"
    /\ UNCHANGED <<clockVars, db, presenceVars, coordinatorVars, owner, report, stopping,
                   reader, task>>

\* The process ends, orderly or not, and is started again: all but the
\* database is lost.
Restart ==
    /\ PresenceRestarts
    /\ CoordinatorRestarts
    /\ owner' = None
    /\ report' = NoReport
    /\ stopping' = FALSE
    /\ phase' = "serving"
    /\ reader' = [r \in Readers |-> IdleReader]
    /\ task' = [t \in Tasks |-> IdleTask]
    /\ UNCHANGED <<clockVars, db>>

-----------------------------------------------------------------------------
\* The clocks

Tick ==
    /\ now < MaxNow
    /\ now' = now + 1
    /\ UNCHANGED <<skew, adjusted, db, processVars>>

\* The wall clock is set (bound: once).
AdjustClock ==
    /\ ~ adjusted
    /\ skew' \in Skews \ {skew}
    /\ adjusted' = TRUE
    /\ UNCHANGED <<now, db, processVars>>

-----------------------------------------------------------------------------
ReaderStep(r) ==
    \/ Load(r)
    \/ Count(r)
    \/ \E t \in Tasks : Spawn(r, t)
    \/ Respond(r)

TaskStep(t) ==
    \/ RecheckStopping(t)
    \/ RecheckViewers(t)
    \/ \E i \in Index : ProviderAnswers(t, i)
    \/ Commit(t)
    \/ StoreFails(t)
    \/ CompleteRefresh(t)
    \/ Publish(t)

Shutdown ==
    \/ ShutdownRequested
    \/ HttpDrained
    \/ HttpDeadline
    \/ RefreshDrained
    \/ RefreshDeadline

Next ==
    \/ ViewerAction
    \/ \E r \in Readers : Request(r) \/ ReaderStep(r) \/ Cancel(r)
    \/ \E t \in Tasks : TaskStep(t)
    \/ Shutdown
    \/ Restart
    \/ Tick
    \/ AdjustClock

Spec == Init /\ [][Next]_vars

\* Requests are polled to their end.
ReaderFairness == \A r \in Readers : WF_vars(ReaderStep(r))

\* Providers answer or time out (REQUEST_TIMEOUT_SECONDS), SQLite answers or
\* fails (its busy timeout), and the runtime polls a woken task.
TaskFairness == \A t \in Tasks : WF_vars(TaskStep(t))

\* The grace period is a timer, and runs out.
ShutdownFairness == WF_vars(HttpDrained \/ HttpDeadline \/ RefreshDrained \/ RefreshDeadline)

\* Refreshes may hang for ever here: what depends on their progress says so.
FairSpec == Spec /\ ReaderFairness /\ ShutdownFairness

-----------------------------------------------------------------------------
IsQuotes(quotes) ==
    /\ DOMAIN quotes \subseteq Index
    /\ \A i \in DOMAIN quotes : quotes[i] \in Nat

IsSnapshot(snapshot) ==
    /\ IsQuotes(snapshot.quotes)
    /\ snapshot.fetched_at \in Nat \union {None}
    /\ snapshot.fetched_at = None <=> DOMAIN snapshot.quotes = {}

Active(t) == task[t].pc # "idle"

\* Types; a stored snapshot has at least one quote, and a health mark for each.
TypeOK ==
    /\ now \in Nat /\ skew \in Skews /\ adjusted \in BOOLEAN
    /\ IsViewerMap(viewers, now) /\ full_refresh_generation \in Nat
    /\ CoordinatorTypeOK
    /\ IsSnapshot(db.snapshot)
    /\ DOMAIN db.snapshot.quotes \subseteq DOMAIN db.health
    /\ owner \in Readers \union Tasks \union {None}
    /\ \A r \in Readers : reader[r].pc \in {"idle", "load", "count", "decide"}
    /\ \A t \in Tasks :
         /\ task[t].pc \in {"idle", "spawned", "recheck", "fetch", "store", "complete", "publish"}
         /\ Active(t) => task[t].plan.sources \in (SUBSET Index) \ {{}}

\* The guard is held exactly by a live request or by the one task at work: it is
\* never leaked by a cancelled request or an abandoned plan, and never dropped
\* while a refresh runs.
GuardDiscipline ==
    /\ owner \in Readers => reader[owner].pc # "idle"
    /\ \A t \in Tasks : Active(t) <=> owner = t

\* "One background price refresh runs at a time."
SingleFlight == \A t1, t2 \in Tasks : Active(t1) /\ Active(t2) => t1 = t2

\* A reader that owns the mutex decides on the database as it is, not as it was
\* (handlers.rs:78-81).
OwnerReadsCurrent ==
    \A r \in Readers :
        owner = r /\ reader[r].pc \in {"count", "decide"} /\ reader[r].stored # None
            => reader[r].stored = db

\* The snapshot a refresh merges its quotes into is still the stored one when
\* the batch is written: no other refresh is overwritten.
BaseIsCurrent ==
    \A t \in Tasks :
        task[t].pc \in {"spawned", "recheck", "fetch", "store"} => task[t].base = db.snapshot

\* An orderly stop leaves nothing running that could still write the database.
StoppedMeansQuiet ==
    phase = "stopped" => /\ owner = None
                         /\ \A r \in Readers : reader[r].pc = "idle"
                         /\ \A t \in Tasks : ~ Active(t)

\* In this step task t stores a snapshot.
Stores(t) == task[t].pc = "store" /\ task'[t].saved = TRUE /\ task[t].write # None

\* Two stored snapshots are at least the refresh interval apart, also across
\* restarts, which forget the coordinator's gate: the age of the stored snapshot
\* keeps a restarted server from asking again at once.  (Unless the wall clock
\* has been set: then the age says nothing.)
SnapshotsSpaced ==
    [][\A t \in Tasks : Stores(t) /\ db.snapshot.fetched_at # None /\ ~ adjusted
          => db'.snapshot.fetched_at - db.snapshot.fetched_at >= Interval]_vars

\* The latest time any wall clock can have shown: a quote is timed when its
\* provider answers, and the clock may be set back before it is stored.
furthest == now + MaxSkew

\* Every refresh is an atomic batch of the quote book.
Book == INSTANCE QuoteBook
    WITH Provider <- Index,
         clock <- furthest,
         quotes <- db.snapshot.quotes,
         marks <- db.health

BookSpec == Book!Spec

\* "Readers never wait for ownership, nor for any provider network request."
ReadersNeverWait == \A r \in Readers : reader[r].pc # "idle" ~> reader[r].pc = "idle"

\* If the tasks make progress, a refresh gives the mutex back: it cannot end in a
\* way that keeps the next one from starting.
RefreshReleases == TaskFairness => \A t \in Tasks : Active(t) ~> ~ Active(t)

\* A requested shutdown ends, one way or the other, although requests keep coming
\* and a refresh hangs.
ShutdownEnds == phase \in {"draining", "waiting"} ~> phase \notin {"draining", "waiting"}

\* "Recheck admission immediately before provider I/O begins" and "Shutdown
\* prevents new dispatch": no task starts asking providers once the server is
\* stopping.
NoDispatchWhileStopping ==
    [][\A t \in Tasks : task[t].pc # "fetch" /\ task'[t].pc = "fetch" => ~ stopping]_vars
=============================================================================
