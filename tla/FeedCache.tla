------------------------------ MODULE FeedCache ------------------------------
(***************************************************************************)
(* news.rs: the cached RSS feed.  Readers answer from the cache at once;   *)
(* the first to find it expired reserves the one refresh and spawns it.    *)
(* The fetch runs without the cache's mutex, which its end takes again.    *)
(***************************************************************************)
EXTENDS Integers, FiniteSets

CONSTANTS
    Fetches,            \* refresh tasks that could exist at once
    RefreshInterval,    \* REFRESH_INTERVAL: 300 seconds
    RefreshTimeout,     \* REFRESH_TIMEOUT: 12 seconds
    MaxNow,             \* bound: the clock stops there
    None

ASSUME FeedAssumption ==
    RefreshInterval \in Nat \ {0} /\ RefreshTimeout \in Nat \ {0} /\ None \notin Nat

VARIABLES
    now,
    checked_at,      \* FeedCache.checked_at: end of the last attempt, or None
    xml,             \* FeedCache.xml: the instant the kept feed was fetched, or None
    stale,           \* FeedCache.stale
    refreshing,      \* FeedCache.refreshing
    started          \* per fetch: when it was spawned, or None

cacheVars == <<checked_at, xml, stale, refreshing>>
vars == <<now, cacheVars, started>>

Init ==
    /\ now = 0
    /\ checked_at = None
    /\ xml = None
    /\ stale = FALSE
    /\ refreshing = FALSE
    /\ started = [f \in Fetches |-> None]

Running(f) == started[f] # None

Expired == checked_at # None => now - checked_at >= RefreshInterval

\* The fields of the FeedResponse a reader is given.
Response == [xml |-> xml, stale |-> stale \/ Expired, refreshing |-> refreshing]

\* Mutant: every reader of an expired cache fetches.
ReadAndRefetch(f) ==
    /\ Expired
    /\ ~ Running(f)
    /\ refreshing' = TRUE
    /\ started' = [started EXCEPT ![f] = now]
    /\ UNCHANGED <<now, checked_at, xml, stale>>

\* news_response, of a reader that reserves the refresh.
ReadAndRefresh(f) ==
    /\ Expired
    /\ ~ refreshing
    /\ ~ Running(f)
    /\ refreshing' = TRUE
    /\ started' = [started EXCEPT ![f] = now]
    /\ UNCHANGED <<now, checked_at, xml, stale>>

Ended(f) ==
    /\ Running(f)
    /\ started' = [started EXCEPT ![f] = None]
    /\ checked_at' = now
    /\ refreshing' = FALSE
    /\ UNCHANGED now

\* The feed arrived, in time and well formed.
FetchSucceeds(f) == Ended(f) /\ xml' = now /\ stale' = FALSE

\* Mutant: a failure gives nothing back.
FetchFailsStuck(f) ==
    /\ Running(f)
    /\ started' = [started EXCEPT ![f] = None]
    /\ checked_at' = now
    /\ stale' = TRUE
    /\ UNCHANGED <<now, xml, refreshing>>

\* It did not, or the deadline passed: the old feed is kept, and marked.
FetchFails(f) == Ended(f) /\ stale' = TRUE /\ UNCHANGED xml

\* The deadline timer fires before the clock moves past it.
Tick ==
    /\ now < MaxNow
    /\ \A f \in Fetches : Running(f) => now - started[f] < RefreshTimeout
    /\ now' = now + 1
    /\ UNCHANGED <<cacheVars, started>>

Next ==
    \/ \E f \in Fetches : ReadAndRefresh(f) \/ FetchSucceeds(f) \/ FetchFails(f)
    \/ Tick

Spec == Init /\ [][Next]_vars

-----------------------------------------------------------------------------
\* Types; no instant the cache keeps is in the future.
TypeOK ==
    /\ checked_at \in {None} \union 0 .. now
    /\ xml \in {None} \union 0 .. now
    /\ stale \in BOOLEAN
    /\ refreshing \in BOOLEAN
    /\ started \in [Fetches -> {None} \union 0 .. now]

\* refreshing says exactly that one fetch runs, and no two ever do.
OneFetch ==
    Cardinality({f \in Fetches : Running(f)}) = IF refreshing THEN 1 ELSE 0

\* Every reservation is given back, so the feed can be refreshed again.
RefreshReturns == refreshing ~> ~ refreshing
=============================================================================
