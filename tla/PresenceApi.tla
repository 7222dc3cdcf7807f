----------------------------- MODULE PresenceApi -----------------------------
(***************************************************************************)
(* The presence component as its clients drive it: the operations of       *)
(* Presence in any order, the clock, and the answer each caller gets from  *)
(* apply_presence_update (Ok(len) or Err(len)) or active_viewer_count.     *)
(***************************************************************************)
EXTENDS Presence

CONSTANTS
    MaxTime,           \* bound: the clock stops there
    MaxActivations     \* bound: activations counted

ASSUME MaxTimeAssumption == MaxTime \in Nat

VARIABLE reply      \* [admitted, count]: the Result<usize, usize> last returned

vars == <<now, viewers, full_refresh_generation, reply>>

Replies == [admitted : BOOLEAN, count : Nat]

Answers(admitted) == reply' = [admitted |-> admitted, count |-> Cardinality(DOMAIN viewers')]

ApiInit ==
    /\ now = 0
    /\ PresenceInit
    /\ reply = [admitted |-> TRUE, count |-> 0]

ApiTick ==
    /\ now < MaxTime
    /\ now' = now + 1
    /\ UNCHANGED <<viewers, full_refresh_generation, reply>>

DoHeartbeat(s) ==
    /\ Heartbeat(s)
    /\ full_refresh_generation' <= MaxActivations
    /\ Answers(TRUE)
    /\ UNCHANGED now

DoReject(s) == Reject(s) /\ Answers(FALSE) /\ UNCHANGED now

DoLeave(s) == Leave(s) /\ Answers(TRUE) /\ UNCHANGED now

DoCount == CountViewers /\ Answers(TRUE) /\ UNCHANGED now

ApiNext ==
    \/ \E s \in Sessions : DoHeartbeat(s) \/ DoReject(s) \/ DoLeave(s)
    \/ DoCount
    \/ ApiTick

ApiSpec == ApiInit /\ [][ApiNext]_vars

-----------------------------------------------------------------------------
\* Types; a heartbeat is never later than the clock, so no age is negative.
ApiTypeOK ==
    /\ now \in Nat
    /\ IsViewerMap(viewers, now)
    /\ full_refresh_generation \in Nat
    /\ reply \in Replies

\* The map, expired entries included, never holds more sessions than the
\* configured maximum: admission counts after pruning (presence.rs:20-25).
CapacityHeld == Cardinality(DOMAIN viewers) <= MaxViewers

\* full_refresh_generation moves exactly when the tracker goes from no live
\* viewer to some live viewer, however long the expired entries lingered in
\* the map (previously_empty is taken after pruning, presence.rs:17-34).
ActivationOnFirstViewer ==
    [][full_refresh_generation' # full_refresh_generation
          <=> Live = {} /\ Live' # {}]_vars

\* Pruning on demand cannot be told from expiry on time: with the map cut to
\* its unexpired entries, every operation and every answer is one the
\* registry gives.
Registry == INSTANCE ViewerRegistry
    WITH seen <- Prune(viewers, now),
         activations <- full_refresh_generation,
         answer <- reply

RegistrySpec == Registry!Spec
=============================================================================
