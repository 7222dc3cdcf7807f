------------------------------ MODULE Presence ------------------------------
(***************************************************************************)
(* The viewers of the dashboard: presence.rs, with the three pieces of     *)
(* AppState it touches.  Each browser session heartbeats; a session whose  *)
(* last heartbeat is older than the time to live is forgotten, but only    *)
(* when the next operation prunes the map.  The operations run under the   *)
(* viewers mutex and sample the clock after taking it, so each is one      *)
(* step.                                                                   *)
(***************************************************************************)
EXTENDS Integers, FiniteSets

CONSTANTS
    Sessions,      \* valid session identifiers (is_valid_session_id holds)
    TTL,           \* VIEWER_TTL_SECONDS
    MaxViewers     \* RuntimeConfig.max_viewers

ASSUME SessionsFinite == IsFiniteSet(Sessions)
ASSUME TTLAssumption == TTL \in Nat
ASSUME MaxViewersAssumption == MaxViewers \in Nat \ {0}

VARIABLES
    now,                       \* the monotonic clock, in seconds
    viewers,                   \* HashMap<session, instant of last heartbeat>
    full_refresh_generation    \* AtomicU64: activations so far

presenceVars == <<viewers, full_refresh_generation>>

\* A map from some of the sessions to heartbeats no later than t.
IsViewerMap(map, t) ==
    /\ map = [s \in DOMAIN map |-> map[s]]
    /\ DOMAIN map \subseteq Sessions
    /\ \A s \in DOMAIN map : map[s] \in 0 .. t

NoViewers == [s \in {} |-> 0]

-----------------------------------------------------------------------------
\* Mutant: the heartbeat expires at the time to live, not just after it.
UnexpiredTooStrict(map, t) == {s \in DOMAIN map : t - map[s] < TTL}

\* The sessions of a map that prune_inactive_viewers keeps at instant t.  The
\* subtraction saturates in the code; a heartbeat is never in the future here.
Unexpired(map, t) == {s \in DOMAIN map : t - map[s] <= TTL}

Prune(map, t) == [s \in Unexpired(map, t) |-> map[s]]

Insert(map, s, t) == [r \in DOMAIN map \union {s} |-> IF r = s THEN t ELSE map[r]]

Remove(map, s) == [r \in DOMAIN map \ {s} |-> map[r]]

\* Mutant: one viewer too many.
AdmitsOneMore(pruned, s) ==
    s \in DOMAIN pruned \/ Cardinality(DOMAIN pruned) <= MaxViewers

\* Would apply_presence_update admit session s, given the pruned map?
Admits(pruned, s) ==
    s \in DOMAIN pruned \/ Cardinality(DOMAIN pruned) < MaxViewers

Live == Unexpired(viewers, now)

-----------------------------------------------------------------------------
PresenceInit ==
    /\ viewers = NoViewers
    /\ full_refresh_generation = 0

\* The process starts again: viewers are not persisted.
PresenceRestarts ==
    /\ viewers' = NoViewers
    /\ full_refresh_generation' = 0

\* Mutant: emptiness is taken before pruning.
HeartbeatUnpruned(s) ==
    /\ Admits(Prune(viewers, now), s)
    /\ viewers' = Insert(Prune(viewers, now), s, now)
    /\ full_refresh_generation' =
           IF DOMAIN viewers = {} THEN full_refresh_generation + 1
                                  ELSE full_refresh_generation

\* apply_presence_update with active = true, admitted.  The first viewer of an
\* empty map is an activation: it asks for a refresh of every provider.
Heartbeat(s) ==
    LET pruned == Prune(viewers, now) IN
    /\ Admits(pruned, s)
    /\ viewers' = Insert(pruned, s, now)
    /\ full_refresh_generation' =
           IF DOMAIN pruned = {} THEN full_refresh_generation + 1
                                        ELSE full_refresh_generation

\* apply_presence_update with active = true at capacity: the early return
\* keeps the pruning.
Reject(s) ==
    /\ ~ Admits(Prune(viewers, now), s)
    /\ viewers' = Prune(viewers, now)
    /\ UNCHANGED full_refresh_generation

\* apply_presence_update with active = false, from a known session or not.
Leave(s) ==
    /\ viewers' = Remove(Prune(viewers, now), s)
    /\ UNCHANGED full_refresh_generation

\* active_viewer_count: prunes, and answers the number of sessions left.
CountViewers ==
    /\ viewers' = Prune(viewers, now)
    /\ UNCHANGED full_refresh_generation
=============================================================================
