----------------------------- MODULE StoredState -----------------------------
(***************************************************************************)
(* What the rest of the server may think the database is: one value, which *)
(* a refresh replaces at once and a request reads at once.  Neither a      *)
(* start of the server nor a migration of the schema changes it.           *)
(***************************************************************************)
CONSTANTS
    Servers,
    Refreshes,    \* what a refresh may bring: [fetched_at, quotes, health]
    None

VARIABLES
    stored,    \* [fetched_at, quotes, health]: the latest snapshot and the health rows
    answer     \* per server: what its last read answered, or None

atomicVars == <<stored, answer>>

\* A refresh without a successful provider stores outcomes only.
Stored(value, refresh) ==
    [fetched_at |-> IF refresh.quotes = None THEN value.fetched_at ELSE refresh.fetched_at,
     quotes |-> IF refresh.quotes = None THEN value.quotes ELSE refresh.quotes,
     health |-> [p \in DOMAIN value.health |->
                    IF p \in DOMAIN refresh.health THEN refresh.health[p] ELSE value.health[p]]]

\* Any refresh: quotes and outcomes arrive together.
Store ==
    /\ stored' # stored
    /\ \E refresh \in Refreshes : stored' = Stored(stored, refresh)
    /\ UNCHANGED answer

Read(s) ==
    /\ answer' = [answer EXCEPT ![s] = stored]
    /\ UNCHANGED stored

Forget(s) ==
    /\ answer' = [answer EXCEPT ![s] = None]
    /\ UNCHANGED stored

AtomicNext == Store \/ \E s \in Servers : Read(s) \/ Forget(s)

AtomicSpec == answer = [s \in Servers |-> None] /\ [][AtomicNext]_atomicVars
=============================================================================
