----------------------------- MODULE PriceStore -----------------------------
(***************************************************************************)
(* storage.rs, statement by statement: the start of a server (migration,   *)
(* retention), the transaction of a refresh, and the transaction of a      *)
(* read.  Servers can start, fail and die at any statement, and more than  *)
(* one can open the file.  SQLite is modelled by its promises: one write   *)
(* transaction at a time, invisible until it commits, and no commit while  *)
(* a read transaction is open.                                             *)
(***************************************************************************)
EXTENDS Integers, FiniteSets

CONSTANTS
    Servers,         \* processes that open the database
    Providers,       \* UpstreamSource::ALL
    LegacyTimes,     \* values of fetched_at_unix in a file that exists already
    MaxRefreshes,    \* bound on the refreshes stored
    None

ASSUME StoreAssumption ==
    /\ IsFiniteSet(Providers) /\ Providers # {}
    /\ LegacyTimes \subseteq Nat /\ MaxRefreshes \in Nat
    /\ None \notin Int \union Servers
    /\ None \notin [id : Nat, fetched_at : Nat]
    /\ None \notin [Providers -> {"unknown", "success", "failure"}]
    /\ \A some \in SUBSET Providers : None \notin [some -> Nat]

SCHEMA_VERSION == 1

VARIABLES
    db,           \* the committed database: version, snapshots, rows, health, next id
    lock,         \* the server whose write transaction is open, or None
    work,         \* what that transaction has made of db, or None
    start,        \* per server: where init_db is; "running" when it is over
    writer,       \* per server: where store_refresh is, and the refresh it stores
    reader,       \* per server: where load_price_state is, and what it has read
    answer,       \* per server: the last StoredPriceState, or None
    refreshes     \* refreshes so far; also their fetched_at_unix

storeVars == <<db, lock, work, start, writer, reader, answer, refreshes>>

IdleWriter == [pc |-> "idle", refresh |-> None]
IdleReader == [pc |-> "idle", latest |-> None, quotes |-> None]

-----------------------------------------------------------------------------
(* Operators on a database.                                                *)

\* ORDER BY fetched_at_unix DESC, id DESC LIMIT 1
IsLatest(snapshots, x) ==
    \A y \in snapshots : \/ y.fetched_at < x.fetched_at
                         \/ y.fetched_at = x.fetched_at /\ y.id <= x.id

Latest(snapshots) ==
    IF snapshots = {} THEN None ELSE CHOOSE x \in snapshots : IsLatest(snapshots, x)

\* DELETE FROM price_snapshots, with ON DELETE CASCADE.
Deleted(d, doomed) ==
    [d EXCEPT !.snapshots = @ \ doomed,
              !.rows = {r \in @ : \A x \in doomed : r.snapshot # x.id}]

\* migrate_unversioned_schema: the times of old quotes stay unknown, and so does the
\* health of every provider.
Migrated(d) ==
    [d EXCEPT !.rows = {[r EXCEPT !.time = None] : r \in @},
              !.health = [p \in Providers |-> "unknown"]]

\* prune_snapshots_to_latest
Pruned(d) == Deleted(d, d.snapshots \ {Latest(d.snapshots)})

\* The second half of write_snapshot.
Inserted(d, refresh) ==
    [d EXCEPT !.snapshots = @ \union {[id |-> d.next_id, fetched_at |-> refresh.fetched_at]},
              !.rows = @ \union {[snapshot |-> d.next_id, source |-> p,
                                  time |-> refresh.quotes[p]] : p \in DOMAIN refresh.quotes},
              !.next_id = @ + 1]

\* write_provider_health: an upsert per provider asked.
HealthWritten(d, refresh) ==
    [d EXCEPT !.health = [p \in DOMAIN @ \union DOMAIN refresh.health |->
        IF p \in DOMAIN refresh.health THEN refresh.health[p] ELSE @[p]]]

\* The rows of a snapshot, as quotes.
Quotes(d, x) ==
    LET rows == {r \in d.rows : r.snapshot = x.id} IN
    [p \in {r.source : r \in rows} |-> (CHOOSE r \in rows : r.source = p).time]

-----------------------------------------------------------------------------
Snapshots(times) ==
    {[id |-> i, fetched_at |-> times[i]] : i \in DOMAIN times}

\* A file without tables, one written by a version without schema version, one of
\* this version, or one of a later version.
Existing(version, n, times) ==
    [version |-> version, next_id |-> n + 1,
     snapshots |-> Snapshots(times),
     rows |-> {[snapshot |-> i, source |-> p,
                time |-> IF version = 0 THEN None ELSE times[i]] :
                   i \in 1 .. n, p \in Providers},
     health |-> IF version = 0 THEN None ELSE [p \in Providers |-> "success"]]

Init ==
    /\ \E version \in 0 .. 2, n \in 0 .. 2 : \E times \in [1 .. n -> LegacyTimes] :
        /\ version # 0 => n <= 1
        /\ db = Existing(version, n, times)
    /\ lock = None
    /\ work = None
    /\ start = [s \in Servers |-> "down"]
    /\ writer = [s \in Servers |-> IdleWriter]
    /\ reader = [s \in Servers |-> IdleReader]
    /\ answer = [s \in Servers |-> None]
    /\ refreshes = 0

Reading == {s \in Servers : reader[s].pc \in {"rows", "health"}}

Begin(s) ==
    /\ lock = None
    /\ lock' = s

Commits(s) ==
    /\ lock = s
    /\ Reading = {}
    /\ db' = work
    /\ lock' = None
    /\ work' = None

\* The open transaction of a server is rolled back, if there is one.
RolledBack(s) ==
    IF lock = s THEN lock' = None /\ work' = None ELSE UNCHANGED <<lock, work>>

-----------------------------------------------------------------------------
(* init_db                                                                 *)

\* BEGIN IMMEDIATE takes the write lock before anything is read.
StartUp(s) ==
    /\ start[s] = "down"
    /\ Begin(s)
    /\ work' = db
    /\ start' = [start EXCEPT ![s] = "version"]
    /\ UNCHANGED <<db, writer, reader, answer, refreshes>>

\* A version that is neither 0 nor the supported one makes the start fail.
CheckVersion(s) ==
    /\ start[s] = "version"
    /\ work.version \in {0, SCHEMA_VERSION}
    /\ start' = [start EXCEPT ![s] = IF work.version = 0 THEN "migrate" ELSE "prune"]
    /\ UNCHANGED <<db, lock, work, writer, reader, answer, refreshes>>

\* Mutant: the migration commits by itself.
MigrateApart(s) ==
    /\ start[s] = "migrate"
    /\ work' = Migrated(work)
    /\ db' = Migrated(work)
    /\ start' = [start EXCEPT ![s] = "prune"]
    /\ UNCHANGED <<lock, writer, reader, answer, refreshes>>

Migrate(s) ==
    /\ start[s] = "migrate"
    /\ work' = Migrated(work)
    /\ start' = [start EXCEPT ![s] = "prune"]
    /\ UNCHANGED <<db, lock, writer, reader, answer, refreshes>>

Prune(s) ==
    /\ start[s] = "prune"
    /\ work' = [Pruned(work) EXCEPT !.version = SCHEMA_VERSION]
    /\ start' = [start EXCEPT ![s] = "commit"]
    /\ UNCHANGED <<db, lock, writer, reader, answer, refreshes>>

StartCommits(s) ==
    /\ start[s] = "commit"
    /\ Commits(s)
    /\ start' = [start EXCEPT ![s] = "running"]
    /\ UNCHANGED <<writer, reader, answer, refreshes>>

\* A statement fails, or the version is not supported: the process exits.
StartFails(s) ==
    /\ start[s] \notin {"down", "running"}
    /\ RolledBack(s)
    /\ start' = [start EXCEPT ![s] = "down"]
    /\ UNCHANGED <<db, writer, reader, answer, refreshes>>

-----------------------------------------------------------------------------
(* store_refresh.  Its transaction is deferred: the first write takes the  *)
(* lock, and nothing was read before.                                      *)

\* Refresh n asks some providers, and some of those answer.
Refresh(n, asked, answered) ==
    [fetched_at |-> n,
     quotes |-> IF answered = {} THEN None ELSE [p \in answered |-> n],
     health |-> [p \in asked |-> IF p \in answered THEN "success" ELSE "failure"]]

StoreRefresh(s) ==
    /\ start[s] = "running"
    /\ writer[s].pc = "idle"
    /\ refreshes < MaxRefreshes
    /\ refreshes' = refreshes + 1
    /\ \E asked \in (SUBSET Providers) \ {{}} : \E answered \in SUBSET asked :
        writer' = [writer EXCEPT ![s] =
            [pc |-> IF answered = {} THEN "health" ELSE "delete",
             refresh |-> Refresh(refreshes + 1, asked, answered)]]
    /\ UNCHANGED <<db, lock, work, start, reader, answer>>

DeleteSnapshots(s) ==
    /\ writer[s].pc = "delete"
    /\ Begin(s)
    /\ work' = Deleted(db, db.snapshots)
    /\ writer' = [writer EXCEPT ![s].pc = "insert"]
    /\ UNCHANGED <<db, start, reader, answer, refreshes>>

\* Mutant: quotes and health are two transactions.
InsertSnapshotApart(s) ==
    /\ writer[s].pc = "insert"
    /\ work' = Inserted(work, writer[s].refresh)
    /\ db' = Inserted(work, writer[s].refresh)
    /\ writer' = [writer EXCEPT ![s].pc = "health"]
    /\ UNCHANGED <<lock, start, reader, answer, refreshes>>

InsertSnapshot(s) ==
    /\ writer[s].pc = "insert"
    /\ work' = Inserted(work, writer[s].refresh)
    /\ writer' = [writer EXCEPT ![s].pc = "health"]
    /\ UNCHANGED <<db, lock, start, reader, answer, refreshes>>

\* Without a snapshot this is the first write of the transaction.
WriteHealth(s) ==
    /\ writer[s].pc = "health"
    /\ \/ /\ lock = s
          /\ work' = HealthWritten(work, writer[s].refresh)
          /\ UNCHANGED lock
       \/ /\ Begin(s)
          /\ work' = HealthWritten(db, writer[s].refresh)
    /\ writer' = [writer EXCEPT ![s].pc = "commit"]
    /\ UNCHANGED <<db, start, reader, answer, refreshes>>

StoreCommits(s) ==
    /\ writer[s].pc = "commit"
    /\ Commits(s)
    /\ writer' = [writer EXCEPT ![s] = IdleWriter]
    /\ UNCHANGED <<start, reader, answer, refreshes>>

\* A statement fails, or waits for the lock longer than SQLite's busy timeout.
StoreFails(s) ==
    /\ writer[s].pc # "idle"
    /\ RolledBack(s)
    /\ writer' = [writer EXCEPT ![s] = IdleWriter]
    /\ UNCHANGED <<db, start, reader, answer, refreshes>>

-----------------------------------------------------------------------------
(* load_price_state: one deferred read transaction.                        *)

ReadMetadata(s) ==
    /\ start[s] = "running"
    /\ reader[s].pc = "idle"
    /\ reader' = [reader EXCEPT ![s].pc = "rows", ![s].latest = Latest(db.snapshots)]
    /\ UNCHANGED <<db, lock, work, start, writer, answer, refreshes>>

ReadRows(s) ==
    LET latest == reader[s].latest IN
    /\ reader[s].pc = "rows"
    /\ reader' = [reader EXCEPT ![s].pc = "health",
                                ![s].quotes = IF latest = None THEN None ELSE Quotes(db, latest)]
    /\ UNCHANGED <<db, lock, work, start, writer, answer, refreshes>>

ReadHealth(s) ==
    LET latest == reader[s].latest IN
    /\ reader[s].pc = "health"
    /\ answer' = [answer EXCEPT ![s] =
           [fetched_at |-> IF latest = None THEN None ELSE latest.fetched_at,
            quotes |-> reader[s].quotes, health |-> db.health]]
    /\ reader' = [reader EXCEPT ![s] = IdleReader]
    /\ UNCHANGED <<db, lock, work, start, writer, refreshes>>

\* The process dies, with the transactions it has open.
Crash(s) ==
    /\ start[s] = "running"
    /\ RolledBack(s)
    /\ start' = [start EXCEPT ![s] = "down"]
    /\ writer' = [writer EXCEPT ![s] = IdleWriter]
    /\ reader' = [reader EXCEPT ![s] = IdleReader]
    /\ answer' = [answer EXCEPT ![s] = None]
    /\ UNCHANGED <<db, refreshes>>

Next ==
    \E s \in Servers :
        \/ StartUp(s) \/ CheckVersion(s) \/ Migrate(s) \/ Prune(s)
        \/ StartCommits(s) \/ StartFails(s)
        \/ StoreRefresh(s) \/ DeleteSnapshots(s) \/ InsertSnapshot(s) \/ WriteHealth(s)
        \/ StoreCommits(s) \/ StoreFails(s)
        \/ ReadMetadata(s) \/ ReadRows(s) \/ ReadHealth(s)
        \/ Crash(s)

Spec == Init /\ [][Next]_storeVars

-----------------------------------------------------------------------------
IsDatabase(d) ==
    /\ d.version \in 0 .. 2
    /\ \A x \in d.snapshots : x.id \in 1 .. d.next_id - 1
    /\ \A r \in d.rows : r.source \in Providers /\ r.snapshot < d.next_id
    /\ d.health = None \/ d.health \in [Providers -> {"unknown", "success", "failure"}]

\* Types; there is a transaction's work exactly while the lock is held.
TypeOK ==
    /\ IsDatabase(db)
    /\ lock \in Servers \union {None}
    /\ IF lock = None THEN work = None ELSE IsDatabase(work)
    /\ \A s \in Servers :
        /\ start[s] \in {"down", "version", "migrate", "prune", "commit", "running"}
        /\ writer[s].pc \in {"idle", "delete", "insert", "health", "commit"}
        /\ reader[s].pc \in {"idle", "rows", "health"}

\* The schema version never promises more than the file holds, whatever fails or
\* dies while two servers start: a migrated file has the health of every provider,
\* one snapshot at most and no row of a deleted one (storage.rs:30-50).
SchemaWhole ==
    /\ db.version = 0 <=> db.health = None
    /\ db.version = SCHEMA_VERSION =>
        /\ Cardinality(db.snapshots) <= 1
        /\ \A r \in db.rows : \E x \in db.snapshots : x.id = r.snapshot

\* What load_price_state would answer if it read the file at once, and the file
\* had been migrated.
View ==
    LET latest == Latest(db.snapshots) IN
    [fetched_at |-> IF latest = None THEN None ELSE latest.fetched_at,
     quotes |-> IF latest = None THEN None ELSE Quotes(db, latest),
     health |-> IF db.health = None THEN [p \in Providers |-> "unknown"] ELSE db.health]

Stores(n) ==
    UNION {{Refresh(n, asked, answered) : answered \in SUBSET asked} :
               asked \in (SUBSET Providers) \ {{}}}

State == INSTANCE StoredState
         WITH stored <- View, Refreshes <- UNION {Stores(n) : n \in 1 .. MaxRefreshes}

\* Statement by statement, the file is the one value that refreshes replace and
\* requests read at once; no start and no migration changes it (storage.rs:19-53,
\* :184-201, :287-304).
StateSpec == State!AtomicSpec
=============================================================================
