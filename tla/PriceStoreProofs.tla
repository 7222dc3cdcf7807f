-------------------------- MODULE PriceStoreProofs --------------------------
(***************************************************************************)
(* What the database promises, proved for any number of servers and        *)
(* providers: however the starts, refreshes and reads of servers are cut   *)
(* into statements and end, the schema version tells the truth about the   *)
(* file, and the file is one value that is replaced and read at once.      *)
(*                                                                         *)
(* The invariant says of the server whose write transaction is open what   *)
(* its statements have made of the committed database so far - a function  *)
(* of that database, which nobody else can change meanwhile - and of every *)
(* reader that what it has read is still there.                            *)
(***************************************************************************)
EXTENDS PriceStore, FiniteSetTheorems, TLAPS

Marks == {"unknown", "success", "failure"}
Fields == {"version", "next_id", "snapshots", "rows", "health"}
SnapshotRecords == [id : Nat, fetched_at : Nat]
Rows == [snapshot : Nat, source : Providers, time : Nat \union {None}]

(* A database as some server has committed it.                             *)
Whole(d) ==
    /\ DOMAIN d = Fields
    /\ d.version \in 0 .. 2 /\ d.next_id \in Nat
    /\ d.snapshots \subseteq SnapshotRecords
    /\ \A x, y \in d.snapshots : x.id = y.id => x = y
    /\ d.snapshots # {} => \E x \in d.snapshots : IsLatest(d.snapshots, x)
    /\ d.rows \subseteq Rows
    /\ \A r \in d.rows : \E x \in d.snapshots : x.id = r.snapshot
    /\ IF d.version = 0 THEN d.health = None /\ \A r \in d.rows : r.time = None
                        ELSE d.health \in [Providers -> Marks]
    /\ d.version = SCHEMA_VERSION => \A x, y \in d.snapshots : x = y

(* View, of any database.                                                  *)
ViewOf(d) ==
    LET latest == Latest(d.snapshots) IN
    [fetched_at |-> IF latest = None THEN None ELSE latest.fetched_at,
     quotes |-> IF latest = None THEN None ELSE Quotes(d, latest),
     health |-> IF d.health = None THEN [p \in Providers |-> "unknown"] ELSE d.health]

(* What a start has made of the file when it prunes, and when it commits.  *)
Prepared(d) == IF d.version = 0 THEN Migrated(d) ELSE d
Started(d) == [Pruned(Prepared(d)) EXCEPT !.version = SCHEMA_VERSION]

(* What a refresh has made of it when it writes the health rows, and when  *)
(* it commits.                                                             *)
Replaced(d, refresh) ==
    IF refresh.quotes = None THEN d ELSE Inserted(Deleted(d, d.snapshots), refresh)
Refreshed(d, refresh) == HealthWritten(Replaced(d, refresh), refresh)

Possible == UNION {Stores(n) : n \in 1 .. MaxRefreshes}

-----------------------------------------------------------------------------
(* The operators on databases.                                             *)

(* Quotes, of the rows of one snapshot.                                    *)
QuotesOf(rows) ==
    [p \in {r.source : r \in rows} |-> (CHOOSE r \in rows : r.source = p).time]

LEMMA QuotesOfRows ==
    ASSUME NEW d, NEW x
    PROVE  Quotes(d, x) = QuotesOf({r \in d.rows : r.snapshot = x.id})
  BY DEF Quotes, QuotesOf

LEMMA LatestShape ==
    ASSUME NEW d, Whole(d)
    PROVE  /\ d.snapshots = {} => Latest(d.snapshots) = None
           /\ d.snapshots # {} => /\ Latest(d.snapshots) \in d.snapshots
                                  /\ IsLatest(d.snapshots, Latest(d.snapshots))
                                  /\ Latest(d.snapshots) # None
<1>1. d.snapshots = {} => Latest(d.snapshots) = None
  BY DEF Latest
<1>2. CASE d.snapshots # {}
  <2>1. \E x \in d.snapshots : IsLatest(d.snapshots, x)
    BY <1>2 DEF Whole
  <2>2. /\ Latest(d.snapshots) \in d.snapshots
        /\ IsLatest(d.snapshots, Latest(d.snapshots))
    BY <1>2, <2>1 DEF Latest
  <2>3. Latest(d.snapshots) # None
    BY <2>2, StoreAssumption DEF Whole, SnapshotRecords
  <2> QED
    BY <1>2, <2>2, <2>3
<1> QED
  BY <1>1, <1>2

LEMMA LatestOfOne ==
    ASSUME NEW x \in SnapshotRecords
    PROVE  IsLatest({x}, x) /\ Latest({x}) = x /\ x # None
<1>1. IsLatest({x}, x)
  BY DEF IsLatest, SnapshotRecords
<1>2. x # None
  BY StoreAssumption DEF SnapshotRecords
<1> QED
  BY <1>1, <1>2 DEF Latest

LEMMA MigratedShape ==
    ASSUME NEW d, Whole(d), d.version = 0
    PROVE  /\ DOMAIN Migrated(d) = Fields
           /\ Migrated(d).snapshots = d.snapshots /\ Migrated(d).rows = d.rows
           /\ Migrated(d).health = [p \in Providers |-> "unknown"]
           /\ Migrated(d).next_id = d.next_id
<1>1. DOMAIN d = Fields
  BY DEF Whole
<1>2. \A r \in d.rows : [r EXCEPT !.time = None] = r
  BY DEF Whole, Rows
<1>3. {[r EXCEPT !.time = None] : r \in d.rows} = d.rows
  BY <1>2
<1> QED
  BY <1>1, <1>3 DEF Migrated, Fields

(* A start keeps the latest snapshot and its rows, and so the answer.      *)
LEMMA StartedWhole ==
    ASSUME NEW d, Whole(d), d.version \in {0, SCHEMA_VERSION}
    PROVE  /\ Whole(Started(d)) /\ Started(d).version = SCHEMA_VERSION
           /\ ViewOf(Started(d)) = ViewOf(d)
<1> DEFINE e == Prepared(d)
           latest == Latest(d.snapshots)
           doomed == d.snapshots \ {latest}
           f == Started(d)
<1>1. /\ DOMAIN e = Fields /\ e.snapshots = d.snapshots /\ e.rows = d.rows
      /\ e.next_id = d.next_id
      /\ e.health = IF d.health = None THEN [p \in Providers |-> "unknown"] ELSE d.health
      /\ e.health \in [Providers -> Marks]
  <2>1. CASE d.version = 0
    BY <2>1, MigratedShape DEF Prepared, Whole, Marks
  <2>2. CASE d.version = SCHEMA_VERSION
    BY <2>2, StoreAssumption DEF Prepared, Whole, Marks, SCHEMA_VERSION
  <2> QED
    BY <2>1, <2>2
<1> HIDE DEF e
<1>2. f = [Deleted(e, doomed) EXCEPT !.version = SCHEMA_VERSION]
  BY <1>1 DEF Started, Pruned, e
<1>3. /\ DOMAIN f = Fields /\ f.version = SCHEMA_VERSION
      /\ f.snapshots = d.snapshots \ doomed
      /\ f.rows = {r \in d.rows : \A x \in doomed : r.snapshot # x.id}
      /\ f.next_id = d.next_id /\ f.health = e.health
  BY <1>1, <1>2 DEF Deleted, Fields
<1> HIDE DEF f
<1>4. CASE d.snapshots = {}
  <2>1. latest = None /\ f.snapshots = {} /\ f.rows = {}
    BY <1>3, <1>4, LatestShape DEF Whole
  <2>2. Latest(f.snapshots) = None
    BY <2>1 DEF Latest
  <2>3. Whole(f)
    BY <1>1, <1>3, <2>1 DEF Whole, SCHEMA_VERSION
  <2>4. f.health # None
    BY <1>1, <1>3, StoreAssumption DEF Marks
  <2>5. ViewOf(f) = ViewOf(d)
    BY <1>1, <1>3, <2>1, <2>2, <2>4 DEF ViewOf
  <2> QED
    BY <1>3, <2>3, <2>5 DEF f
<1>5. CASE d.snapshots # {}
  <2>1. latest \in d.snapshots /\ latest # None /\ latest \in SnapshotRecords
    BY <1>5, LatestShape DEF Whole
  <2>2. f.snapshots = {latest}
    BY <1>3, <2>1
  <2>3. IsLatest(f.snapshots, latest) /\ Latest(f.snapshots) = latest
    BY <2>1, <2>2, LatestOfOne
  <2> HIDE DEF latest
  <2>4. \A r \in d.rows : r.snapshot = latest.id <=> \A x \in doomed : r.snapshot # x.id
    BY <2>1 DEF Whole
  <2>5. f.rows = {r \in d.rows : r.snapshot = latest.id}
    BY <1>3, <2>4
  <2>6. Whole(f)
    BY <1>1, <1>3, <2>1, <2>2, <2>3, <2>5 DEF Whole, SCHEMA_VERSION
  <2>7. {r \in f.rows : r.snapshot = latest.id} = {r \in d.rows : r.snapshot = latest.id}
    BY <2>5
  <2>8. Quotes(f, latest) = Quotes(d, latest)
    BY <2>7, QuotesOfRows
  <2>9. f.health # None
    BY <1>1, <1>3, StoreAssumption DEF Marks
  <2>10. ViewOf(f) = ViewOf(d)
    BY <1>1, <1>3, <2>1, <2>3, <2>8, <2>9 DEF ViewOf, latest
  <2> QED
    BY <1>3, <2>6, <2>10 DEF f
<1> QED
  BY <1>4, <1>5

-----------------------------------------------------------------------------
(* What a refresh brings.                                                  *)
LEMMA RefreshShape ==
    ASSUME NEW refresh \in Possible
    PROVE  /\ refresh.fetched_at \in Nat
           /\ \E some \in SUBSET Providers : refresh.health \in [some -> Marks]
           /\ \/ refresh.quotes = None
              \/ refresh.quotes # None /\ \E some \in SUBSET Providers :
                   refresh.quotes \in [some -> Nat]
<1>1. PICK n \in 1 .. MaxRefreshes, asked \in (SUBSET Providers) \ {{}} :
        \E answered \in SUBSET asked : refresh = Refresh(n, asked, answered)
  BY DEF Possible, Stores
<1>2. PICK answered \in SUBSET asked : refresh = Refresh(n, asked, answered)
  BY <1>1
<1>3. /\ refresh.fetched_at = n
      /\ refresh.quotes = IF answered = {} THEN None ELSE [p \in answered |-> n]
      /\ refresh.health = [p \in asked |-> IF p \in answered THEN "success" ELSE "failure"]
  BY <1>2 DEF Refresh
<1>4. n \in Nat /\ answered \in SUBSET Providers /\ asked \in SUBSET Providers
  BY StoreAssumption
<1>5. refresh.health \in [asked -> Marks]
  BY <1>3 DEF Marks
<1>6. [p \in answered |-> n] \in [answered -> Nat]
  BY <1>4
<1>7. [p \in answered |-> n] # None
  BY <1>4, <1>6, StoreAssumption
<1> QED
  BY <1>3, <1>4, <1>5, <1>6, <1>7

(* The whole refresh replaces the value.                                   *)
LEMMA RefreshedWhole ==
    ASSUME NEW d, Whole(d), d.version = SCHEMA_VERSION, NEW refresh \in Possible
    PROVE  /\ Whole(Refreshed(d, refresh)) /\ Refreshed(d, refresh).version = SCHEMA_VERSION
           /\ ViewOf(Refreshed(d, refresh)) = State!Stored(ViewOf(d), refresh)
<1> DEFINE e == Replaced(d, refresh)
           f == Refreshed(d, refresh)
           health == [p \in Providers |-> IF p \in DOMAIN refresh.health THEN refresh.health[p]
                                                                         ELSE d.health[p]]
<1>1. /\ refresh.fetched_at \in Nat
      /\ DOMAIN refresh.health \subseteq Providers
      /\ \A p \in DOMAIN refresh.health : refresh.health[p] \in Marks
  BY RefreshShape
<1>2. d.health \in [Providers -> Marks] /\ d.health # None /\ DOMAIN d = Fields
  BY StoreAssumption DEF Whole, SCHEMA_VERSION, Marks
<1>3. /\ DOMAIN e = Fields /\ e.health = d.health /\ e.version = d.version
      /\ e.next_id \in Nat
  BY <1>2 DEF Replaced, Inserted, Deleted, Fields, Whole
<1>4. f = [e EXCEPT !.health = [p \in DOMAIN @ \union DOMAIN refresh.health |->
              IF p \in DOMAIN refresh.health THEN refresh.health[p] ELSE @[p]]]
  BY DEF Refreshed, HealthWritten
<1> HIDE DEF e
<1>5. DOMAIN d.health \union DOMAIN refresh.health = Providers
  BY <1>1, <1>2
<1>6. f.health = health
  BY <1>3, <1>4, <1>5 DEF Fields
<1>7. /\ DOMAIN f = Fields /\ f.version = SCHEMA_VERSION
      /\ f.snapshots = e.snapshots /\ f.rows = e.rows /\ f.next_id = e.next_id
  BY <1>3, <1>4 DEF Fields
<1>8. health \in [Providers -> Marks]
  BY <1>1, <1>2
<1>9. health # None
  BY <1>8, StoreAssumption DEF Marks
<1> HIDE DEF f, health
<1>10. CASE refresh.quotes = None
  <2>1. e = d
    BY <1>10 DEF e, Replaced
  <2>2. Whole(f)
    BY <1>6, <1>7, <1>8, <2>1 DEF Whole, SCHEMA_VERSION
  <2>3. \A x : Quotes(f, x) = Quotes(d, x)
    BY <1>7, <2>1 DEF Quotes
  <2>4. /\ ViewOf(f).fetched_at = ViewOf(d).fetched_at
        /\ ViewOf(f).quotes = ViewOf(d).quotes
        /\ ViewOf(f).health = health /\ ViewOf(d).health = d.health
    BY <1>2, <1>6, <1>7, <1>9, <2>1, <2>3 DEF ViewOf
  <2>5. ViewOf(f) = [fetched_at |-> ViewOf(d).fetched_at, quotes |-> ViewOf(d).quotes,
                     health |-> health]
    BY <2>4 DEF ViewOf
  <2>6. DOMAIN ViewOf(d).health = Providers
    BY <1>2, <2>4
  <2>7. ViewOf(f) = State!Stored(ViewOf(d), refresh)
    BY <1>10, <2>4, <2>5, <2>6 DEF State!Stored, health
  <2> QED
    BY <1>7, <2>2, <2>7 DEF f
<1>11. CASE refresh.quotes # None
  <2> DEFINE x == [id |-> d.next_id, fetched_at |-> refresh.fetched_at]
             quotes == refresh.quotes
             row(p) == [snapshot |-> d.next_id, source |-> p, time |-> quotes[p]]
             new == {row(p) : p \in DOMAIN quotes}
  <2>1. /\ DOMAIN quotes \subseteq Providers /\ quotes = [p \in DOMAIN quotes |-> quotes[p]]
        /\ \A p \in DOMAIN quotes : quotes[p] \in Nat
    BY <1>11, RefreshShape
  <2>2. d.next_id \in Nat /\ x \in SnapshotRecords
    BY <1>1 DEF Whole, SnapshotRecords
  <2>3. {r \in d.rows : \A y \in d.snapshots : r.snapshot # y.id} = {}
    BY DEF Whole
  <2>4. e.snapshots = {x} /\ e.rows = new
    BY <1>2, <1>11, <2>3 DEF e, Replaced, Inserted, Deleted, Fields
  <2>5. Latest(f.snapshots) = x /\ IsLatest(f.snapshots, x) /\ x # None
    BY <1>7, <2>2, <2>4, LatestOfOne
  <2>6. \A r \in new : r \in Rows /\ r.snapshot = x.id
    BY <2>1, <2>2 DEF Rows
  <2>7. Whole(f)
    <3> HIDE DEF x, new
    <3> QED
      BY <1>3, <1>6, <1>7, <1>8, <2>2, <2>4, <2>5, <2>6 DEF Whole, SCHEMA_VERSION
  <2>8. Quotes(f, x) = quotes
    <3>1. {r \in f.rows : r.snapshot = x.id} = new
      BY <1>7, <2>4, <2>6
    <3>2. Quotes(f, x) = [p \in {r.source : r \in new} |-> (CHOOSE r \in new : r.source = p).time]
      BY <3>1 DEF Quotes
    <3>3. {r.source : r \in new} = DOMAIN quotes
      <4>1. \A p \in DOMAIN quotes : row(p) \in new /\ row(p).source = p
        OBVIOUS
      <4>2. \A r \in new : r.source \in DOMAIN quotes
        OBVIOUS
      <4> HIDE DEF new, row, quotes
      <4> QED
        BY <4>1, <4>2
    <3>4. ASSUME NEW p \in DOMAIN quotes
          PROVE  (CHOOSE r \in new : r.source = p).time = quotes[p]
      <4>1. row(p) \in new /\ row(p).source = p
        OBVIOUS
      <4>2. \A r \in new : r.source = p => r = row(p)
        OBVIOUS
      <4>3. (CHOOSE r \in new : r.source = p) = row(p)
        BY <4>1, <4>2
      <4> QED
        BY <4>3
    <3> QED
      BY <2>1, <3>2, <3>3, <3>4
  <2> HIDE DEF new
  <2>9. ViewOf(f) = [fetched_at |-> refresh.fetched_at, quotes |-> quotes, health |-> health]
    BY <1>6, <1>9, <2>5, <2>8 DEF ViewOf
  <2>10. ViewOf(d).health = d.health /\ DOMAIN ViewOf(d).health = Providers
    BY <1>2 DEF ViewOf
  <2>11. ViewOf(f) = State!Stored(ViewOf(d), refresh)
    BY <1>11, <2>9, <2>10 DEF State!Stored, health
  <2> QED
    BY <1>7, <2>7, <2>11 DEF f
<1> QED
  BY <1>10, <1>11
-----------------------------------------------------------------------------
(* The inductive invariant.                                                *)

(* What the start of a server knows of the file.                           *)
StartPart(s) ==
    /\ start[s] \in {"down", "version", "migrate", "prune", "commit", "running"}
    /\ start[s] = "down" => lock # s
    /\ start[s] \in {"version", "migrate"} => lock = s /\ work = db
    /\ start[s] = "migrate" => db.version = 0
    /\ start[s] = "prune" =>
        lock = s /\ db.version \in {0, SCHEMA_VERSION} /\ work = Prepared(db)
    /\ start[s] = "commit" =>
        lock = s /\ db.version \in {0, SCHEMA_VERSION} /\ work = Started(db)
    /\ start[s] = "running" => db.version = SCHEMA_VERSION
    /\ start[s] # "running" => writer[s].pc = "idle" /\ reader[s].pc = "idle"

(* What the statements of a refresh have made of it.                       *)
WriterPart(s) ==
    LET refresh == writer[s].refresh IN
    /\ DOMAIN writer[s] = {"pc", "refresh"}
    /\ writer[s].pc \in {"idle", "delete", "insert", "health", "commit"}
    /\ writer[s].pc # "idle" => refresh \in Possible
    /\ writer[s].pc = "idle" /\ start[s] = "running" => lock # s
    /\ writer[s].pc = "delete" => lock # s /\ refresh.quotes # None
    /\ writer[s].pc = "insert" =>
        lock = s /\ refresh.quotes # None /\ work = Deleted(db, db.snapshots)
    /\ writer[s].pc = "health" =>
        IF lock = s THEN work = Replaced(db, refresh) ELSE refresh.quotes = None
    /\ writer[s].pc = "commit" => lock = s /\ work = Refreshed(db, refresh)

(* What a reader has read is what it would read now.                       *)
ReaderPart(s) ==
    /\ DOMAIN reader[s] = {"pc", "latest", "quotes"}
    /\ reader[s].pc \in {"idle", "rows", "health"}
    /\ reader[s].pc # "idle" => reader[s].latest = Latest(db.snapshots)
    /\ reader[s].pc = "health" =>
        reader[s].quotes = IF reader[s].latest = None THEN None ELSE Quotes(db, reader[s].latest)

ServerPart(s) == StartPart(s) /\ WriterPart(s) /\ ReaderPart(s)

StoreInv ==
    /\ Whole(db)
    /\ lock \in Servers \union {None}
    /\ DOMAIN start = Servers /\ DOMAIN writer = Servers /\ DOMAIN reader = Servers
    /\ refreshes \in Nat
    /\ \A s \in Servers : ServerPart(s)

-----------------------------------------------------------------------------
(* A server has met any file it may meet: at most two snapshots.           *)
LEMMA InitialWhole ==
    Init => Whole(db)
<1> SUFFICES ASSUME Init PROVE Whole(db)
  OBVIOUS
<1>1. PICK version \in 0 .. 2, n \in 0 .. 2 : \E times \in [1 .. n -> LegacyTimes] :
        (version # 0 => n <= 1) /\ db = Existing(version, n, times)
  BY DEF Init
<1>2. PICK times \in [1 .. n -> LegacyTimes] :
        (version # 0 => n <= 1) /\ db = Existing(version, n, times)
  BY <1>1
<1> DEFINE snapshot(i) == [id |-> i, fetched_at |-> times[i]]
<1>3. /\ DOMAIN db = Fields /\ db.version = version /\ db.next_id = n + 1
      /\ db.snapshots = {snapshot(i) : i \in 1 .. n}
      /\ db.rows = {[snapshot |-> i, source |-> p,
                     time |-> IF version = 0 THEN None ELSE times[i]] :
                        i \in 1 .. n, p \in Providers}
      /\ db.health = IF version = 0 THEN None ELSE [p \in Providers |-> "success"]
  BY <1>2 DEF Existing, Snapshots, Fields
<1>4. \A i \in 1 .. n : times[i] \in Nat /\ i \in Nat
  <2>1. \A i \in 1 .. n : times[i] \in LegacyTimes
    OBVIOUS
  <2>2. \A t \in LegacyTimes : t \in Nat
    BY StoreAssumption
  <2> QED
    BY <2>1, <2>2
<1>5. db.snapshots \subseteq SnapshotRecords
  BY <1>3, <1>4 DEF SnapshotRecords
<1>6. \A x, y \in db.snapshots : x.id = y.id => x = y
  BY <1>3
<1>7. db.snapshots # {} => \E x \in db.snapshots : IsLatest(db.snapshots, x)
  <2>1. CASE n = 0
    BY <1>3, <2>1
  <2>2. CASE n = 1
    <3>1. db.snapshots = {snapshot(1)}
      BY <1>3, <2>2
    <3>2. snapshot(1) \in SnapshotRecords
      BY <1>4, <2>2 DEF SnapshotRecords
    <3> QED
      BY <3>1, <3>2, LatestOfOne
  <2>3. CASE n = 2
    <3>1. db.snapshots = {snapshot(1), snapshot(2)}
      BY <1>3, <2>3
    <3>2. times[1] \in Nat /\ times[2] \in Nat
      BY <1>4, <2>3
    <3>3. IF times[1] <= times[2] THEN IsLatest(db.snapshots, snapshot(2))
                                  ELSE IsLatest(db.snapshots, snapshot(1))
      BY <3>1, <3>2 DEF IsLatest
    <3> QED
      BY <3>1, <3>3
  <2> QED
    BY <2>1, <2>2, <2>3
<1>8. db.rows \subseteq Rows
  BY <1>3, <1>4 DEF Rows
<1>9. \A r \in db.rows : \E x \in db.snapshots : x.id = r.snapshot
  <2> TAKE r \in db.rows
  <2>1. PICK i \in 1 .. n : r.snapshot = i
    BY <1>3
  <2>2. snapshot(i) \in db.snapshots /\ snapshot(i).id = r.snapshot
    BY <1>3, <2>1
  <2> HIDE DEF snapshot
  <2> QED
    BY <2>2
<1>10. version = 0 => \A r \in db.rows : r.time = None
  BY <1>3
<1>11. version # 0 => db.health \in [Providers -> Marks]
  BY <1>3 DEF Marks
<1>12. version # 0 => \A x, y \in db.snapshots : x = y
  <2> SUFFICES ASSUME version # 0, NEW x \in db.snapshots, NEW y \in db.snapshots
               PROVE  x = y
    OBVIOUS
  <2>1. \A i, j \in 1 .. n : i = j
    BY <1>2
  <2> QED
    BY <1>3, <2>1
<1>13. db.health = None \/ version # 0
  BY <1>3
<1>14. db.version = version /\ DOMAIN db = Fields /\ db.next_id \in Nat /\ version \in 0 .. 2
  BY <1>3
<1> QED
  BY <1>5, <1>6, <1>7, <1>8, <1>9, <1>10, <1>11, <1>12, <1>13, <1>14 DEF Whole, SCHEMA_VERSION

LEMMA StoreInit ==
    Init => StoreInv
<1> SUFFICES ASSUME Init PROVE StoreInv
  OBVIOUS
<1>1. Whole(db)
  BY InitialWhole
<1>2. /\ lock = None /\ refreshes = 0
      /\ start = [s \in Servers |-> "down"]
      /\ writer = [s \in Servers |-> IdleWriter]
      /\ reader = [s \in Servers |-> IdleReader]
  BY DEF Init
<1>3. \A s \in Servers : lock # s
  BY <1>2, StoreAssumption
<1>4. ASSUME NEW s \in Servers PROVE ServerPart(s)
  BY <1>2, <1>3 DEF ServerPart, StartPart, WriterPart, ReaderPart, IdleWriter, IdleReader
<1> QED
  BY <1>1, <1>2, <1>4 DEF StoreInv

(* A server keeps its part while others work: with the file unchanged, or  *)
(* replaced by a commit while nobody reads.                                *)
LEMMA OthersKeep ==
    ASSUME NEW q \in Servers, ServerPart(q),
           start'[q] = start[q], writer'[q] = writer[q], reader'[q] = reader[q],
           (lock' = q) <=> (lock = q), lock = q => work' = work,
           db' = db \/ (lock # q /\ reader[q].pc = "idle" /\ db'.version = SCHEMA_VERSION)
    PROVE  ServerPart(q)'
<1>1. CASE db' = db
  <2>1. StartPart(q)'
    BY <1>1 DEF ServerPart, StartPart
  <2>2. WriterPart(q)'
    BY <1>1 DEF ServerPart, WriterPart
  <2>3. ReaderPart(q)'
    BY <1>1 DEF ServerPart, ReaderPart
  <2> QED
    BY <2>1, <2>2, <2>3 DEF ServerPart
<1>2. CASE lock # q /\ reader[q].pc = "idle" /\ db'.version = SCHEMA_VERSION
  <2>1. StartPart(q)'
    BY <1>2 DEF ServerPart, StartPart
  <2>2. WriterPart(q)'
    BY <1>2 DEF ServerPart, WriterPart
  <2>3. ReaderPart(q)'
    BY <1>2 DEF ServerPart, ReaderPart
  <2> QED
    BY <2>1, <2>2, <2>3 DEF ServerPart
<1> QED
  BY <1>1, <1>2

(* What a step of server s leaves alone.                                   *)
Untouched(s) ==
    \A q \in Servers \ {s} :
        /\ start'[q] = start[q] /\ writer'[q] = writer[q] /\ reader'[q] = reader[q]
        /\ (lock' = q) <=> (lock = q)
        /\ lock = q => work' = work

Replaces(s) == Reading = {} /\ lock = s /\ db'.version = SCHEMA_VERSION

LEMMA StepOf ==
    ASSUME StoreInv, NEW s \in Servers, Untouched(s), ServerPart(s)', Whole(db)',
           lock' \in Servers \union {None}, refreshes' \in Nat,
           DOMAIN start' = Servers, DOMAIN writer' = Servers, DOMAIN reader' = Servers,
           db' = db \/ Replaces(s)
    PROVE  StoreInv'
<1>1. ASSUME NEW q \in Servers PROVE ServerPart(q)'
  <2>1. CASE q = s
    BY <2>1
  <2>2. CASE q # s
    <3>1. /\ start'[q] = start[q] /\ writer'[q] = writer[q] /\ reader'[q] = reader[q]
          /\ (lock' = q) <=> (lock = q)
          /\ lock = q => work' = work
      BY <2>2 DEF Untouched
    <3>2. ServerPart(q)
      BY DEF StoreInv
    <3>3. reader[q].pc \in {"rows", "health"} \/ reader[q].pc = "idle"
      BY <3>2 DEF ServerPart, ReaderPart
    <3>4. db' = db \/ (lock # q /\ reader[q].pc = "idle" /\ db'.version = SCHEMA_VERSION)
      BY <2>2, <3>3 DEF Replaces, Reading
    <3> QED
      BY <3>1, <3>2, <3>4, OthersKeep
  <2> QED
    BY <2>1, <2>2
<1> QED
  BY <1>1 DEF StoreInv

(* The lock passes between a server and nobody.                            *)
LEMMA LockOf ==
    ASSUME StoreInv, NEW s \in Servers
    PROVE  /\ s # None
           /\ Begin(s) => /\ lock = None /\ lock' = s /\ lock # s
                          /\ \A q \in Servers \ {s} : lock # q /\ lock' # q
           /\ Commits(s) => /\ lock' # s
                            /\ \A q \in Servers \ {s} : lock # q /\ lock' # q
           /\ RolledBack(s) => /\ lock' # s /\ lock' \in Servers \union {None}
                               /\ \A q \in Servers \ {s} :
                                    /\ (lock' = q) <=> (lock = q)
                                    /\ lock = q => work' = work
<1>1. \A q \in Servers : q # None
  BY StoreAssumption
<1> QED
  BY <1>1 DEF StoreInv, Begin, Commits, RolledBack

-----------------------------------------------------------------------------
(* Every step of a start keeps the invariant.                              *)
LEMMA StartUpKeeps ==
    ASSUME StoreInv, NEW s \in Servers, StartUp(s)
    PROVE  StoreInv'
<1>1. ServerPart(s) /\ DOMAIN start = Servers
  BY DEF StoreInv
<1>2. /\ Begin(s) /\ start[s] = "down" /\ work' = db /\ db' = db
      /\ start' = [start EXCEPT ![s] = "version"]
      /\ writer' = writer /\ reader' = reader /\ refreshes' = refreshes
  BY DEF StartUp
<1>3. Untouched(s)
  BY <1>2, LockOf DEF Untouched
<1>4. start'[s] = "version" /\ lock' = s /\ lock # s
  BY <1>1, <1>2, LockOf
<1>5. StartPart(s)'
  BY <1>1, <1>2, <1>4 DEF ServerPart, StartPart
<1>6. WriterPart(s)'
  BY <1>1, <1>2, <1>4 DEF ServerPart, StartPart, WriterPart
<1>7. ReaderPart(s)'
  BY <1>1, <1>2 DEF ServerPart, ReaderPart
<1> QED
  BY <1>1, <1>2, <1>3, <1>4, <1>5, <1>6, <1>7, StepOf DEF ServerPart, StoreInv

LEMMA CheckVersionKeeps ==
    ASSUME StoreInv, NEW s \in Servers, CheckVersion(s)
    PROVE  StoreInv'
<1>1. ServerPart(s) /\ DOMAIN start = Servers
  BY DEF StoreInv
<1>2. /\ start[s] = "version" /\ work.version \in {0, SCHEMA_VERSION}
      /\ start' = [start EXCEPT ![s] = IF work.version = 0 THEN "migrate" ELSE "prune"]
      /\ lock' = lock /\ work' = work /\ db' = db
      /\ writer' = writer /\ reader' = reader /\ refreshes' = refreshes
  BY DEF CheckVersion
<1>3. Untouched(s)
  BY <1>2 DEF Untouched
<1>4. /\ lock = s /\ work = db
      /\ start'[s] = IF db.version = 0 THEN "migrate" ELSE "prune"
  BY <1>1, <1>2 DEF ServerPart, StartPart
<1>5. StartPart(s)'
  BY <1>1, <1>2, <1>4 DEF ServerPart, StartPart, Prepared, SCHEMA_VERSION
<1>6. WriterPart(s)'
  BY <1>1, <1>2, <1>4 DEF ServerPart, StartPart, WriterPart
<1>7. ReaderPart(s)'
  BY <1>1, <1>2 DEF ServerPart, ReaderPart
<1> QED
  BY <1>1, <1>2, <1>3, <1>5, <1>6, <1>7, StepOf DEF ServerPart, StoreInv

LEMMA MigrateKeeps ==
    ASSUME StoreInv, NEW s \in Servers, Migrate(s)
    PROVE  StoreInv'
<1>1. ServerPart(s) /\ DOMAIN start = Servers
  BY DEF StoreInv
<1>2. /\ start[s] = "migrate" /\ work' = Migrated(work)
      /\ start' = [start EXCEPT ![s] = "prune"]
      /\ lock' = lock /\ db' = db
      /\ writer' = writer /\ reader' = reader /\ refreshes' = refreshes
  BY DEF Migrate
<1>3. lock = s /\ work' = Prepared(db) /\ db.version = 0 /\ start'[s] = "prune"
  BY <1>1, <1>2 DEF ServerPart, StartPart, Prepared
<1>4. Untouched(s)
  BY <1>2, <1>3 DEF Untouched
<1>5. StartPart(s)'
  BY <1>1, <1>2, <1>3 DEF ServerPart, StartPart
<1>6. WriterPart(s)'
  BY <1>1, <1>2, <1>3 DEF ServerPart, StartPart, WriterPart
<1>7. ReaderPart(s)'
  BY <1>1, <1>2 DEF ServerPart, ReaderPart
<1> QED
  BY <1>1, <1>2, <1>4, <1>5, <1>6, <1>7, StepOf DEF ServerPart, StoreInv

LEMMA PruneKeeps ==
    ASSUME StoreInv, NEW s \in Servers, Prune(s)
    PROVE  StoreInv'
<1>1. ServerPart(s) /\ DOMAIN start = Servers
  BY DEF StoreInv
<1>2. /\ start[s] = "prune" /\ work' = [Pruned(work) EXCEPT !.version = SCHEMA_VERSION]
      /\ start' = [start EXCEPT ![s] = "commit"]
      /\ lock' = lock /\ db' = db
      /\ writer' = writer /\ reader' = reader /\ refreshes' = refreshes
  BY DEF Prune
<1>3. /\ lock = s /\ work' = Started(db) /\ db.version \in {0, SCHEMA_VERSION}
      /\ start'[s] = "commit"
  BY <1>1, <1>2 DEF ServerPart, StartPart, Started
<1>4. Untouched(s)
  BY <1>2, <1>3 DEF Untouched
<1>5. StartPart(s)'
  BY <1>1, <1>2, <1>3 DEF ServerPart, StartPart
<1>6. WriterPart(s)'
  BY <1>1, <1>2, <1>3 DEF ServerPart, StartPart, WriterPart
<1>7. ReaderPart(s)'
  BY <1>1, <1>2 DEF ServerPart, ReaderPart
<1> QED
  BY <1>1, <1>2, <1>4, <1>5, <1>6, <1>7, StepOf DEF ServerPart, StoreInv

(* The commit of a start: what it promises of the version is then true,    *)
(* and it answers what the file answered before.                           *)
LEMMA StartCommitsKeeps ==
    ASSUME StoreInv, NEW s \in Servers, StartCommits(s)
    PROVE  StoreInv' /\ ViewOf(db)' = ViewOf(db)
<1>1. ServerPart(s) /\ DOMAIN start = Servers /\ Whole(db)
  BY DEF StoreInv
<1>2. /\ start[s] = "commit" /\ Commits(s) /\ start' = [start EXCEPT ![s] = "running"]
      /\ writer' = writer /\ reader' = reader /\ refreshes' = refreshes
  BY DEF StartCommits
<1>3. db.version \in {0, SCHEMA_VERSION} /\ db' = Started(db)
  BY <1>1, <1>2 DEF ServerPart, StartPart, Commits
<1>4. Whole(db') /\ db'.version = SCHEMA_VERSION /\ ViewOf(db') = ViewOf(db)
  BY <1>1, <1>3, StartedWhole
<1>5. Untouched(s) /\ Replaces(s) /\ lock' = None /\ lock' # s
  BY <1>2, <1>4, LockOf DEF Untouched, Replaces, Commits
<1>6. start'[s] = "running" /\ writer[s].pc = "idle" /\ reader[s].pc = "idle"
  BY <1>1, <1>2 DEF ServerPart, StartPart
<1>7. StartPart(s)'
  BY <1>4, <1>5, <1>6 DEF StartPart
<1>8. WriterPart(s)'
  BY <1>1, <1>2, <1>5, <1>6 DEF ServerPart, WriterPart
<1>9. ReaderPart(s)'
  BY <1>1, <1>2, <1>6 DEF ServerPart, ReaderPart
<1>10. StoreInv'
  BY <1>1, <1>2, <1>4, <1>5, <1>7, <1>8, <1>9, StepOf DEF ServerPart, StoreInv
<1> QED
  BY <1>4, <1>10

LEMMA StartFailsKeeps ==
    ASSUME StoreInv, NEW s \in Servers, StartFails(s)
    PROVE  StoreInv'
<1>1. ServerPart(s) /\ DOMAIN start = Servers
  BY DEF StoreInv
<1>2. /\ start[s] # "running" /\ RolledBack(s) /\ start' = [start EXCEPT ![s] = "down"]
      /\ db' = db /\ writer' = writer /\ reader' = reader /\ refreshes' = refreshes
  BY DEF StartFails
<1>3. Untouched(s) /\ lock' # s /\ lock' \in Servers \union {None}
  BY <1>2, LockOf DEF Untouched
<1>4. start'[s] = "down" /\ writer[s].pc = "idle" /\ reader[s].pc = "idle"
  BY <1>1, <1>2 DEF ServerPart, StartPart
<1>5. StartPart(s)'
  BY <1>2, <1>3, <1>4 DEF StartPart
<1>6. WriterPart(s)'
  BY <1>1, <1>2, <1>3, <1>4 DEF ServerPart, WriterPart
<1>7. ReaderPart(s)'
  BY <1>1, <1>2, <1>4 DEF ServerPart, ReaderPart
<1> QED
  BY <1>1, <1>2, <1>3, <1>5, <1>6, <1>7, StepOf DEF ServerPart, StoreInv

-----------------------------------------------------------------------------
(* Every step of a refresh keeps it.                                       *)

(* A refresh without answers writes health only.                           *)
LEMMA NewRefresh ==
    ASSUME refreshes \in Nat, refreshes < MaxRefreshes,
           NEW asked \in (SUBSET Providers) \ {{}}, NEW answered \in SUBSET asked
    PROVE  /\ Refresh(refreshes + 1, asked, answered) \in Possible
           /\ Refresh(refreshes + 1, asked, answered).quotes = None <=> answered = {}
<1> DEFINE n == refreshes + 1
<1>1. n \in 1 .. MaxRefreshes /\ n \in Nat
  BY StoreAssumption
<1>2. Refresh(n, asked, answered) \in Stores(n)
  BY DEF Stores
<1>3. Refresh(n, asked, answered) \in Possible
  BY <1>1, <1>2 DEF Possible
<1>4. [p \in answered |-> n] \in [answered -> Nat] /\ answered \in SUBSET Providers
  BY <1>1
<1>5. [p \in answered |-> n] # None
  BY <1>4, StoreAssumption
<1> HIDE DEF n
<1>6. Refresh(n, asked, answered).quotes = IF answered = {} THEN None ELSE [p \in answered |-> n]
  BY DEF Refresh
<1>7. Refresh(n, asked, answered).quotes = None <=> answered = {}
  BY <1>5, <1>6
<1> QED
  BY <1>3, <1>7 DEF n

LEMMA StoreRefreshKeeps ==
    ASSUME StoreInv, NEW s \in Servers, StoreRefresh(s)
    PROVE  StoreInv'
<1>1. ServerPart(s) /\ DOMAIN writer = Servers /\ refreshes \in Nat
  BY DEF StoreInv
<1>2. /\ start[s] = "running" /\ writer[s].pc = "idle" /\ refreshes < MaxRefreshes
      /\ refreshes' = refreshes + 1 /\ db' = db /\ lock' = lock /\ work' = work
      /\ start' = start /\ reader' = reader
  BY DEF StoreRefresh
<1>3. PICK asked \in (SUBSET Providers) \ {{}} : \E answered \in SUBSET asked :
        writer' = [writer EXCEPT ![s] =
            [pc |-> IF answered = {} THEN "health" ELSE "delete",
             refresh |-> Refresh(refreshes + 1, asked, answered)]]
  BY DEF StoreRefresh
<1>4. PICK answered \in SUBSET asked :
        writer' = [writer EXCEPT ![s] =
            [pc |-> IF answered = {} THEN "health" ELSE "delete",
             refresh |-> Refresh(refreshes + 1, asked, answered)]]
  BY <1>3
<1> DEFINE refresh == Refresh(refreshes + 1, asked, answered)
<1>5. refresh \in Possible /\ (refresh.quotes = None <=> answered = {})
  BY <1>1, <1>2, NewRefresh
<1> HIDE DEF refresh
<1>6. /\ writer'[s] = [pc |-> IF answered = {} THEN "health" ELSE "delete", refresh |-> refresh]
      /\ \A q \in Servers \ {s} : writer'[q] = writer[q]
      /\ DOMAIN writer' = Servers
  BY <1>1, <1>4 DEF refresh
<1>7. Untouched(s)
  BY <1>2, <1>6 DEF Untouched
<1>8. lock # s
  BY <1>1, <1>2 DEF ServerPart, WriterPart
<1>9. StartPart(s)'
  BY <1>1, <1>2 DEF ServerPart, StartPart
<1>10. WriterPart(s)'
  BY <1>2, <1>5, <1>6, <1>8 DEF WriterPart
<1>11. ReaderPart(s)'
  BY <1>1, <1>2 DEF ServerPart, ReaderPart
<1> QED
  BY <1>1, <1>2, <1>6, <1>7, <1>9, <1>10, <1>11, StepOf DEF ServerPart, StoreInv

(* A step of a writer that goes on: only its statement counter, the lock   *)
(* and the work of its transaction move.                                   *)
LEMMA WriterMoves ==
    ASSUME StoreInv, NEW s \in Servers, NEW pc \in {"insert", "health", "commit"},
           writer[s].pc # "idle", writer' = [writer EXCEPT ![s].pc = pc],
           lock = s \/ lock = None, lock' = s,
           db' = db, start' = start, reader' = reader, refreshes' = refreshes
    PROVE  /\ writer'[s].pc = pc /\ writer'[s].refresh = writer[s].refresh
           /\ writer[s].refresh \in Possible
           /\ WriterPart(s)' => StoreInv'
<1>1. ServerPart(s) /\ DOMAIN writer = Servers
  BY DEF StoreInv
<1>2. /\ DOMAIN writer[s] = {"pc", "refresh"} /\ writer[s].refresh \in Possible
      /\ start[s] = "running"
  BY <1>1 DEF ServerPart, StartPart, WriterPart
<1>3. /\ writer'[s].pc = pc /\ writer'[s].refresh = writer[s].refresh
      /\ \A q \in Servers \ {s} : writer'[q] = writer[q]
      /\ DOMAIN writer' = Servers
  BY <1>1, <1>2
<1>4. \A q \in Servers \ {s} : lock # q /\ lock' # q
  BY StoreAssumption
<1>5. Untouched(s)
  BY <1>3, <1>4 DEF Untouched
<1>6. StartPart(s)'
  BY <1>1, <1>2 DEF ServerPart, StartPart
<1>7. ReaderPart(s)'
  BY <1>1 DEF ServerPart, ReaderPart
<1>8. WriterPart(s)' => StoreInv'
  BY <1>1, <1>3, <1>5, <1>6, <1>7, StepOf DEF ServerPart, StoreInv
<1> QED
  BY <1>2, <1>3, <1>8

LEMMA DeleteSnapshotsKeeps ==
    ASSUME StoreInv, NEW s \in Servers, DeleteSnapshots(s)
    PROVE  StoreInv'
<1>1. WriterPart(s) /\ DOMAIN writer = Servers
  BY DEF StoreInv, ServerPart
<1>2. /\ writer[s].pc = "delete" /\ lock = None /\ lock' = s
      /\ work' = Deleted(db, db.snapshots)
      /\ writer' = [writer EXCEPT ![s].pc = "insert"]
      /\ db' = db /\ start' = start /\ reader' = reader /\ refreshes' = refreshes
  BY DEF DeleteSnapshots, Begin
<1>3. /\ writer'[s].pc = "insert" /\ writer'[s].refresh = writer[s].refresh
      /\ writer[s].refresh \in Possible
      /\ WriterPart(s)' => StoreInv'
  BY <1>2, WriterMoves
<1>4. DOMAIN writer'[s] = {"pc", "refresh"} /\ writer[s].refresh.quotes # None
  BY <1>1, <1>2 DEF WriterPart
<1>5. WriterPart(s)'
  BY <1>2, <1>3, <1>4 DEF WriterPart
<1> QED
  BY <1>3, <1>5

LEMMA InsertSnapshotKeeps ==
    ASSUME StoreInv, NEW s \in Servers, InsertSnapshot(s)
    PROVE  StoreInv'
<1>1. WriterPart(s) /\ DOMAIN writer = Servers
  BY DEF StoreInv, ServerPart
<1>2. /\ writer[s].pc = "insert"
      /\ work' = Inserted(work, writer[s].refresh)
      /\ writer' = [writer EXCEPT ![s].pc = "health"] /\ lock' = lock
      /\ db' = db /\ start' = start /\ reader' = reader /\ refreshes' = refreshes
  BY DEF InsertSnapshot
<1>3. /\ DOMAIN writer'[s] = {"pc", "refresh"} /\ lock = s
      /\ work' = Replaced(db, writer[s].refresh)
  BY <1>1, <1>2 DEF WriterPart, Replaced
<1>4. /\ writer'[s].pc = "health" /\ writer'[s].refresh = writer[s].refresh
      /\ writer[s].refresh \in Possible
      /\ WriterPart(s)' => StoreInv'
  BY <1>2, <1>3, WriterMoves
<1>5. WriterPart(s)'
  BY <1>2, <1>3, <1>4 DEF WriterPart
<1> QED
  BY <1>4, <1>5

LEMMA WriteHealthKeeps ==
    ASSUME StoreInv, NEW s \in Servers, WriteHealth(s)
    PROVE  StoreInv'
<1>1. WriterPart(s) /\ DOMAIN writer = Servers /\ s # None
  BY StoreAssumption DEF StoreInv, ServerPart
<1>2. /\ writer[s].pc = "health"
      /\ writer' = [writer EXCEPT ![s].pc = "commit"]
      /\ db' = db /\ start' = start /\ reader' = reader /\ refreshes' = refreshes
  BY DEF WriteHealth
<1>3. /\ DOMAIN writer'[s] = {"pc", "refresh"}
      /\ lock = s \/ (lock = None /\ lock' = s)
      /\ work' = Refreshed(db, writer[s].refresh)
  <2>1. CASE lock = s
    BY <1>1, <1>2, <2>1 DEF WriteHealth, WriterPart, Refreshed, Begin
  <2>2. CASE lock # s
    BY <1>1, <1>2, <2>2 DEF WriteHealth, WriterPart, Refreshed, Replaced, Begin
  <2> QED
    BY <2>1, <2>2
<1>4. lock' = s
  BY <1>3 DEF WriteHealth, Begin
<1>5. /\ writer'[s].pc = "commit" /\ writer'[s].refresh = writer[s].refresh
      /\ writer[s].refresh \in Possible
      /\ WriterPart(s)' => StoreInv'
  BY <1>2, <1>3, <1>4, WriterMoves
<1>6. WriterPart(s)'
  BY <1>2, <1>3, <1>4, <1>5 DEF WriterPart
<1> QED
  BY <1>5, <1>6

(* A refresh that ends, well or not, leaves its server without the lock.   *)
LEMMA WriterEnds ==
    ASSUME StoreInv, NEW s \in Servers, start[s] = "running",
           writer' = [writer EXCEPT ![s] = IdleWriter],
           start' = start, reader' = reader, refreshes' = refreshes,
           lock' # s, lock' \in Servers \union {None},
           \A q \in Servers \ {s} : /\ (lock' = q) <=> (lock = q)
                                    /\ lock = q => work' = work,
           Whole(db'), db' = db \/ Replaces(s)
    PROVE  StoreInv'
<1>1. ServerPart(s) /\ DOMAIN writer = Servers
  BY DEF StoreInv
<1>2. /\ writer'[s] = IdleWriter /\ DOMAIN writer' = Servers
      /\ \A q \in Servers \ {s} : writer'[q] = writer[q]
  BY <1>1
<1>3. Untouched(s)
  BY <1>2 DEF Untouched
<1>4. reader[s].pc \in {"rows", "health"} \/ reader[s].pc = "idle"
  BY <1>1 DEF ServerPart, ReaderPart
<1>5. db' = db \/ (reader[s].pc = "idle" /\ db'.version = SCHEMA_VERSION)
  BY <1>4 DEF Replaces, Reading
<1>6. StartPart(s)'
  BY <1>1, <1>5 DEF ServerPart, StartPart
<1>7. WriterPart(s)'
  BY <1>2 DEF WriterPart, IdleWriter
<1>8. ReaderPart(s)'
  BY <1>1, <1>5 DEF ServerPart, ReaderPart
<1> QED
  BY <1>1, <1>2, <1>3, <1>6, <1>7, <1>8, StepOf DEF ServerPart, StoreInv

(* The commit of a refresh replaces the value by what the refresh brings.  *)
LEMMA StoreCommitsKeeps ==
    ASSUME StoreInv, NEW s \in Servers, StoreCommits(s)
    PROVE  /\ StoreInv'
           /\ \E refresh \in Possible : ViewOf(db)' = State!Stored(ViewOf(db), refresh)
<1>1. StartPart(s) /\ WriterPart(s) /\ Whole(db)
  BY DEF StoreInv, ServerPart
<1> DEFINE refresh == writer[s].refresh
<1>2. /\ writer[s].pc = "commit" /\ Commits(s)
      /\ writer' = [writer EXCEPT ![s] = IdleWriter]
      /\ start' = start /\ reader' = reader /\ refreshes' = refreshes
  BY DEF StoreCommits
<1>3. /\ start[s] = "running" /\ refresh \in Possible
      /\ db.version = SCHEMA_VERSION /\ db' = Refreshed(db, refresh)
      /\ lock = s /\ lock' = None /\ Reading = {}
  BY <1>1, <1>2 DEF StartPart, WriterPart, Commits
<1>4. /\ Whole(db') /\ db'.version = SCHEMA_VERSION
      /\ ViewOf(db') = State!Stored(ViewOf(db), refresh)
  BY <1>1, <1>3, RefreshedWhole
<1>5. Replaces(s)
  BY <1>3, <1>4 DEF Replaces
<1>6. lock' # s /\ \A q \in Servers \ {s} : lock' # q /\ lock # q
  BY <1>2, LockOf
<1>7. StoreInv'
  BY <1>2, <1>3, <1>4, <1>5, <1>6, WriterEnds
<1> QED
  BY <1>3, <1>4, <1>7

LEMMA StoreFailsKeeps ==
    ASSUME StoreInv, NEW s \in Servers, StoreFails(s)
    PROVE  StoreInv'
<1>1. StartPart(s) /\ WriterPart(s) /\ Whole(db)
  BY DEF StoreInv, ServerPart
<1>2. /\ writer[s].pc # "idle" /\ RolledBack(s)
      /\ writer' = [writer EXCEPT ![s] = IdleWriter]
      /\ start' = start /\ reader' = reader /\ refreshes' = refreshes /\ db' = db
  BY DEF StoreFails
<1>3. start[s] = "running"
  BY <1>1, <1>2 DEF StartPart
<1> QED
  BY <1>1, <1>2, <1>3, LockOf, WriterEnds

-----------------------------------------------------------------------------
(* So do the steps of a reader, and the death of a server.                 *)

LEMMA ReaderMoves ==
    ASSUME StoreInv, NEW s \in Servers, ReaderPart(s)',
           DOMAIN reader' = Servers, \A q \in Servers \ {s} : reader'[q] = reader[q],
           start[s] = "running", db' = db, lock' = lock, work' = work, start' = start,
           writer' = writer, refreshes' = refreshes
    PROVE  StoreInv'
<1>1. StartPart(s) /\ WriterPart(s)
  BY DEF StoreInv, ServerPart
<1>2. Untouched(s)
  BY DEF Untouched
<1>3. StartPart(s)'
  BY <1>1 DEF StartPart
<1>4. WriterPart(s)'
  BY <1>1 DEF WriterPart
<1> QED
  BY <1>2, <1>3, <1>4, StepOf DEF ServerPart, StoreInv

LEMMA ReadMetadataKeeps ==
    ASSUME StoreInv, NEW s \in Servers, ReadMetadata(s)
    PROVE  StoreInv'
<1>1. ReaderPart(s) /\ DOMAIN reader = Servers
  BY DEF StoreInv, ServerPart
<1>2. /\ start[s] = "running"
      /\ reader' = [reader EXCEPT ![s].pc = "rows", ![s].latest = Latest(db.snapshots)]
      /\ db' = db /\ lock' = lock /\ work' = work /\ start' = start
      /\ writer' = writer /\ refreshes' = refreshes
  BY DEF ReadMetadata
<1>3. /\ DOMAIN reader'[s] = {"pc", "latest", "quotes"} /\ reader'[s].pc = "rows"
      /\ reader'[s].latest = Latest(db.snapshots)
      /\ DOMAIN reader' = Servers /\ \A q \in Servers \ {s} : reader'[q] = reader[q]
  BY <1>1, <1>2 DEF ReaderPart
<1>4. ReaderPart(s)'
  BY <1>2, <1>3 DEF ReaderPart
<1> QED
  BY <1>2, <1>3, <1>4, ReaderMoves

LEMMA ReadRowsKeeps ==
    ASSUME StoreInv, NEW s \in Servers, ReadRows(s)
    PROVE  StoreInv'
<1>1. StartPart(s) /\ ReaderPart(s) /\ DOMAIN reader = Servers
  BY DEF StoreInv, ServerPart
<1> DEFINE quotes == IF reader[s].latest = None THEN None ELSE Quotes(db, reader[s].latest)
<1>2. /\ reader[s].pc = "rows"
      /\ reader' = [reader EXCEPT ![s].pc = "health", ![s].quotes = quotes]
      /\ db' = db /\ lock' = lock /\ work' = work /\ start' = start
      /\ writer' = writer /\ refreshes' = refreshes
  BY DEF ReadRows
<1>3. start[s] = "running" /\ reader[s].latest = Latest(db.snapshots)
  BY <1>1, <1>2 DEF StartPart, ReaderPart
<1>4. /\ DOMAIN reader'[s] = {"pc", "latest", "quotes"} /\ reader'[s].pc = "health"
      /\ reader'[s].latest = reader[s].latest /\ reader'[s].quotes = quotes
      /\ DOMAIN reader' = Servers /\ \A q \in Servers \ {s} : reader'[q] = reader[q]
  <2> HIDE DEF quotes
  <2> QED
    BY <1>1, <1>2 DEF ReaderPart
<1>5. ReaderPart(s)'
  BY <1>2, <1>3, <1>4 DEF ReaderPart
<1> QED
  BY <1>2, <1>3, <1>4, <1>5, ReaderMoves

(* What a reader answers is the file, as it is.                            *)
LEMMA ReadHealthKeeps ==
    ASSUME StoreInv, NEW s \in Servers, ReadHealth(s)
    PROVE  /\ StoreInv'
           /\ answer' = [answer EXCEPT ![s] = ViewOf(db)] /\ db' = db
<1>1. /\ StartPart(s) /\ ReaderPart(s) /\ DOMAIN reader = Servers /\ Whole(db)
  BY DEF StoreInv, ServerPart
<1> DEFINE latest == reader[s].latest
           read == [fetched_at |-> IF latest = None THEN None ELSE latest.fetched_at,
                    quotes |-> reader[s].quotes, health |-> db.health]
<1>2. /\ reader[s].pc = "health" /\ reader' = [reader EXCEPT ![s] = IdleReader]
      /\ answer' = [answer EXCEPT ![s] = read]
      /\ db' = db /\ lock' = lock /\ work' = work /\ start' = start
      /\ writer' = writer /\ refreshes' = refreshes
  BY DEF ReadHealth
<1>3. /\ start[s] = "running" /\ db.version = SCHEMA_VERSION
      /\ latest = Latest(db.snapshots)
      /\ reader[s].quotes = IF latest = None THEN None ELSE Quotes(db, latest)
  BY <1>1, <1>2 DEF StartPart, ReaderPart
<1>4. db.health # None
  BY <1>1, <1>3, StoreAssumption DEF Whole, Marks, SCHEMA_VERSION
<1>5. read = ViewOf(db)
  BY <1>3, <1>4 DEF ViewOf
<1>6. /\ reader'[s] = IdleReader /\ DOMAIN reader' = Servers
      /\ \A q \in Servers \ {s} : reader'[q] = reader[q]
  BY <1>1, <1>2
<1>7. ReaderPart(s)'
  BY <1>6 DEF ReaderPart, IdleReader
<1>8. StoreInv'
  BY <1>2, <1>3, <1>6, <1>7, ReaderMoves
<1> QED
  BY <1>2, <1>5, <1>8

LEMMA CrashKeeps ==
    ASSUME StoreInv, NEW s \in Servers, Crash(s)
    PROVE  StoreInv'
<1>1. DOMAIN start = Servers /\ DOMAIN writer = Servers /\ DOMAIN reader = Servers
  BY DEF StoreInv
<1>2. /\ RolledBack(s) /\ start' = [start EXCEPT ![s] = "down"]
      /\ writer' = [writer EXCEPT ![s] = IdleWriter]
      /\ reader' = [reader EXCEPT ![s] = IdleReader]
      /\ db' = db /\ refreshes' = refreshes
  BY DEF Crash
<1>3. Untouched(s) /\ lock' # s /\ lock' \in Servers \union {None}
  BY <1>1, <1>2, LockOf DEF Untouched
<1>4. start'[s] = "down" /\ writer'[s] = IdleWriter /\ reader'[s] = IdleReader
  BY <1>1, <1>2
<1>5. ServerPart(s)'
  BY <1>3, <1>4 DEF ServerPart, StartPart, WriterPart, ReaderPart, IdleWriter, IdleReader
<1> QED
  BY <1>1, <1>2, <1>3, <1>5, StepOf DEF StoreInv

LEMMA StutterKeeps ==
    ASSUME StoreInv, UNCHANGED storeVars
    PROVE  StoreInv'
<1>1. \A s \in Servers : ServerPart(s)'
  BY DEF storeVars, StoreInv, ServerPart, StartPart, WriterPart, ReaderPart
<1> QED
  BY <1>1 DEF storeVars, StoreInv

LEMMA StoreStep ==
    StoreInv /\ [Next]_storeVars => StoreInv'
<1> SUFFICES ASSUME StoreInv, [Next]_storeVars PROVE StoreInv'
  OBVIOUS
<1>1. CASE UNCHANGED storeVars
  BY <1>1, StutterKeeps
<1>2. CASE Next
  <2>1. PICK s \in Servers :
          \/ StartUp(s) \/ CheckVersion(s) \/ Migrate(s) \/ Prune(s)
          \/ StartCommits(s) \/ StartFails(s)
          \/ StoreRefresh(s) \/ DeleteSnapshots(s) \/ InsertSnapshot(s) \/ WriteHealth(s)
          \/ StoreCommits(s) \/ StoreFails(s)
          \/ ReadMetadata(s) \/ ReadRows(s) \/ ReadHealth(s)
          \/ Crash(s)
    BY <1>2 DEF Next
  <2> QED
    BY <2>1, StartUpKeeps, CheckVersionKeeps, MigrateKeeps, PruneKeeps, StartCommitsKeeps,
       StartFailsKeeps, StoreRefreshKeeps, DeleteSnapshotsKeeps, InsertSnapshotKeeps,
       WriteHealthKeeps, StoreCommitsKeeps, StoreFailsKeeps, ReadMetadataKeeps,
       ReadRowsKeeps, ReadHealthKeeps, CrashKeeps
<1> QED
  BY <1>1, <1>2

THEOREM StoreInvariant == Spec => []StoreInv
  BY StoreInit, StoreStep, PTL DEF Spec

-----------------------------------------------------------------------------
(* The schema version tells the truth about the committed file, whatever   *)
(* fails or dies while servers start (storage.rs:30-50): a migrated file   *)
(* has the health of every provider, one snapshot at most, and no row of a *)
(* deleted one.                                                            *)
THEOREM Schema == Spec => []SchemaWhole
<1>1. StoreInv => SchemaWhole
  <2> SUFFICES ASSUME Whole(db) PROVE SchemaWhole
    BY DEF StoreInv
  <2>1. db.version = 0 <=> db.health = None
    BY StoreAssumption DEF Whole, Marks
  <2>2. ASSUME db.version = SCHEMA_VERSION PROVE Cardinality(db.snapshots) <= 1
    <3>1. CASE db.snapshots = {}
      BY <3>1, FS_EmptySet
    <3>2. CASE db.snapshots # {}
      <4>1. PICK x \in db.snapshots : TRUE
        BY <3>2
      <4>2. db.snapshots = {x}
        BY <2>2, <4>1 DEF Whole
      <4>3. Cardinality({x}) = 1
        BY FS_Singleton
      <4> QED
        BY <4>2, <4>3
    <3> QED
      BY <3>1, <3>2
  <2>3. \A r \in db.rows : \E x \in db.snapshots : x.id = r.snapshot
    BY DEF Whole
  <2> QED
    BY <2>1, <2>2, <2>3 DEF SchemaWhole
<1> QED
  BY <1>1, StoreInvariant, PTL

(* Statement by statement, the file is one value that a refresh replaces   *)
(* and a request reads at once; no start, no migration and no rollback     *)
(* changes it (storage.rs:19-53, :184-201, :287-304).                      *)
THEOREM OneValue == Spec => StateSpec
<1>1. View = ViewOf(db) /\ View' = ViewOf(db')
  BY DEF View, ViewOf
<1>2. Init => answer = [s \in Servers |-> None]
  BY DEF Init
<1>3. StoreInv /\ [Next]_storeVars => [State!AtomicNext]_<<View, answer>>
  <2> SUFFICES ASSUME StoreInv, [Next]_storeVars
               PROVE  [State!AtomicNext]_<<View, answer>>
    OBVIOUS
  <2>1. CASE db' = db /\ answer' = answer
    BY <2>1, <1>1 DEF ViewOf
  <2>2. ASSUME NEW s \in Servers, StartCommits(s) PROVE View' = View /\ answer' = answer
    BY <2>2, <1>1, StartCommitsKeeps DEF StartCommits
  <2>3. ASSUME NEW s \in Servers, StoreCommits(s)
        PROVE  [State!AtomicNext]_<<View, answer>>
    <3>1. PICK refresh \in Possible : ViewOf(db)' = State!Stored(ViewOf(db), refresh)
      BY <2>3, StoreCommitsKeeps
    <3>2. View' = State!Stored(View, refresh) /\ answer' = answer
      BY <1>1, <2>3, <3>1 DEF StoreCommits
    <3>3. View' = View \/ State!Store
      BY <3>2 DEF State!Store, Possible
    <3> QED
      BY <3>2, <3>3 DEF State!AtomicNext
  <2>4. ASSUME NEW s \in Servers, ReadHealth(s) PROVE State!Read(s)
    BY <1>1, <2>4, ReadHealthKeeps DEF State!Read, ViewOf
  <2>5. ASSUME NEW s \in Servers, Crash(s) PROVE State!Forget(s)
    BY <1>1, <2>5 DEF Crash, State!Forget, ViewOf
  <2>6. CASE UNCHANGED storeVars
    BY <2>1, <2>6 DEF storeVars
  <2>7. CASE Next
    <3>1. PICK s \in Servers :
            \/ StartUp(s) \/ CheckVersion(s) \/ Migrate(s) \/ Prune(s)
            \/ StartCommits(s) \/ StartFails(s)
            \/ StoreRefresh(s) \/ DeleteSnapshots(s) \/ InsertSnapshot(s) \/ WriteHealth(s)
            \/ StoreCommits(s) \/ StoreFails(s)
            \/ ReadMetadata(s) \/ ReadRows(s) \/ ReadHealth(s)
            \/ Crash(s)
      BY <2>7 DEF Next
    <3>2. CASE StartUp(s) \/ CheckVersion(s) \/ Migrate(s) \/ Prune(s) \/ StartFails(s)
      BY <2>1, <3>2 DEF StartUp, CheckVersion, Migrate, Prune, StartFails
    <3>3. CASE \/ StoreRefresh(s) \/ DeleteSnapshots(s) \/ InsertSnapshot(s)
               \/ WriteHealth(s) \/ StoreFails(s)
      BY <2>1, <3>3 DEF StoreRefresh, DeleteSnapshots, InsertSnapshot, WriteHealth, StoreFails
    <3>4. CASE ReadMetadata(s) \/ ReadRows(s)
      BY <2>1, <3>4 DEF ReadMetadata, ReadRows
    <3>5. CASE ReadHealth(s) \/ Crash(s)
      BY <2>4, <2>5, <3>5 DEF State!AtomicNext
    <3> QED
      BY <2>2, <2>3, <3>1, <3>2, <3>3, <3>4, <3>5
  <2> QED
    BY <2>6, <2>7
<1> QED
  BY <1>2, <1>3, StoreInvariant, PTL DEF Spec, StateSpec, State!AtomicSpec, State!atomicVars
=============================================================================
