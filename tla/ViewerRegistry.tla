--------------------------- MODULE ViewerRegistry ---------------------------
(***************************************************************************)
(* What presence promises its clients, without saying when anything is     *)
(* pruned: a registry of the sessions being watched, each with the instant *)
(* of its last heartbeat.  A session leaves the registry at the very tick  *)
(* its heartbeat becomes too old.                                          *)
(***************************************************************************)
EXTENDS Integers, FiniteSets

CONSTANTS Sessions, TTL, MaxViewers

VARIABLES
    now,
    seen,           \* a function from the watched sessions to their heartbeats
    activations,    \* how often the registry went from nobody to somebody
    answer          \* what the last operation told its caller

registryVars == <<now, seen, activations, answer>>

Watching == DOMAIN seen
Nobody == [s \in {} |-> 0]
Kept(map, S) == [s \in S |-> map[s]]
With(map, s, t) == [r \in DOMAIN map \union {s} |-> IF r = s THEN t ELSE map[r]]

Init ==
    /\ now = 0
    /\ seen = Nobody
    /\ activations = 0
    /\ answer = [admitted |-> TRUE, count |-> 0]

\* A watched session is always admitted; a new one only while there is room.
Arrive(s) ==
    /\ s \in Watching \/ Cardinality(Watching) < MaxViewers
    /\ seen' = With(seen, s, now)
    /\ activations' = activations + (IF Watching = {} THEN 1 ELSE 0)
    /\ answer' = [admitted |-> TRUE, count |-> Cardinality(DOMAIN seen')]
    /\ UNCHANGED now

TurnAway(s) ==
    /\ s \notin Watching
    /\ Cardinality(Watching) >= MaxViewers
    /\ answer' = [admitted |-> FALSE, count |-> Cardinality(Watching)]
    /\ UNCHANGED <<now, seen, activations>>

Depart(s) ==
    /\ seen' = Kept(seen, Watching \ {s})
    /\ answer' = [admitted |-> TRUE, count |-> Cardinality(DOMAIN seen')]
    /\ UNCHANGED <<now, activations>>

Ask ==
    /\ answer' = [admitted |-> TRUE, count |-> Cardinality(Watching)]
    /\ UNCHANGED <<now, seen, activations>>

\* One second passes; exactly the sessions now too old are dropped.
Tick ==
    /\ now' = now + 1
    /\ seen' = Kept(seen, {s \in Watching : now' - seen[s] <= TTL})
    /\ UNCHANGED <<activations, answer>>

Next ==
    \/ \E s \in Sessions : Arrive(s) \/ TurnAway(s) \/ Depart(s)
    \/ Ask
    \/ Tick

Spec == Init /\ [][Next]_registryVars
=============================================================================
