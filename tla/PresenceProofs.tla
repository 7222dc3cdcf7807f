--------------------------- MODULE PresenceProofs ---------------------------
(***************************************************************************)
(* Presence, for any number of sessions, any capacity and any time to      *)
(* live: the map is well formed and never over capacity, a full refresh is *)
(* requested exactly when the first viewer arrives, and pruning on demand  *)
(* implements a registry that expires its entries on time.                 *)
(*                                                                         *)
(* And the tab that sends the heartbeats, for any pauses, deadlines and    *)
(* delays in the program's order: its loops live and do not double, and    *)
(* the tracker sees it soon after it came and forgets it after it went.    *)
(***************************************************************************)
EXTENDS PresenceApi, Dashboard, FiniteSetTheorems, TLAPS

USE TTLAssumption, MaxTimeAssumption

(* What pruning does to a well-formed map: it stays well formed, its domain is the unexpired part. *)
LEMMA PruneShape ==
    ASSUME NEW map, NEW t0 \in Nat, NEW t \in Nat, t0 <= t, IsViewerMap(map, t0)
    PROVE  /\ IsViewerMap(Prune(map, t), t)
           /\ DOMAIN Prune(map, t) = Unexpired(map, t)
           /\ Unexpired(map, t) \subseteq DOMAIN map
           /\ \A s \in Unexpired(map, t) : Prune(map, t)[s] = map[s] /\ t - map[s] <= TTL
  BY DEF Prune, Unexpired, IsViewerMap

(* A map with nothing expired is its own pruning. *)
LEMMA PruneUnexpired ==
    ASSUME NEW map, NEW t \in Nat, IsViewerMap(map, t),
           \A s \in DOMAIN map : t - map[s] <= TTL
    PROVE  Prune(map, t) = map
  <1>1. Unexpired(map, t) = DOMAIN map
    BY DEF Unexpired
  <1> QED
    BY <1>1 DEF Prune, IsViewerMap

(* Pruning twice at one instant is pruning once. *)
LEMMA PruneTwice ==
    ASSUME NEW map, NEW t \in Nat, IsViewerMap(map, t)
    PROVE  Prune(Prune(map, t), t) = Prune(map, t)
  <1>1. /\ IsViewerMap(Prune(map, t), t)
        /\ \A s \in DOMAIN Prune(map, t) : t - Prune(map, t)[s] <= TTL
    BY PruneShape
  <1> QED
    BY <1>1, PruneUnexpired

(* Inserting the present instant, or removing a session, keeps a pruned map pruned. *)
LEMMA InsertShape ==
    ASSUME NEW map, NEW t \in Nat, IsViewerMap(map, t), NEW s \in Sessions,
           \A r \in DOMAIN map : t - map[r] <= TTL
    PROVE  /\ IsViewerMap(Insert(map, s, t), t)
           /\ DOMAIN Insert(map, s, t) = DOMAIN map \union {s}
           /\ Prune(Insert(map, s, t), t) = Insert(map, s, t)
  <1>1. /\ IsViewerMap(Insert(map, s, t), t)
        /\ DOMAIN Insert(map, s, t) = DOMAIN map \union {s}
    BY DEF Insert, IsViewerMap
  <1>2. \A r \in DOMAIN Insert(map, s, t) : t - Insert(map, s, t)[r] <= TTL
    BY DEF Insert, IsViewerMap
  <1> QED
    BY <1>1, <1>2, PruneUnexpired

LEMMA RemoveShape ==
    ASSUME NEW map, NEW t \in Nat, IsViewerMap(map, t), NEW s \in Sessions,
           \A r \in DOMAIN map : t - map[r] <= TTL
    PROVE  /\ IsViewerMap(Remove(map, s), t)
           /\ DOMAIN Remove(map, s) = DOMAIN map \ {s}
           /\ Prune(Remove(map, s), t) = Remove(map, s)
  <1>1. /\ IsViewerMap(Remove(map, s), t)
        /\ DOMAIN Remove(map, s) = DOMAIN map \ {s}
    BY DEF Remove, IsViewerMap
  <1>2. \A r \in DOMAIN Remove(map, s) : t - Remove(map, s)[r] <= TTL
    BY DEF Remove, IsViewerMap
  <1> QED
    BY <1>1, <1>2, PruneUnexpired

(* Sets of sessions are finite, so counting them makes sense. *)
LEMMA SessionSets ==
    ASSUME NEW S, S \subseteq Sessions
    PROVE  IsFiniteSet(S) /\ Cardinality(S) \in Nat
  BY SessionsFinite, FS_Subset, FS_CardinalityType

-----------------------------------------------------------------------------
(* The map is always well formed and the answer is a count. *)
THEOREM TypeInvariant == ApiSpec => []ApiTypeOK
<1>1. ApiInit => ApiTypeOK
  BY DEF ApiInit, PresenceInit, NoViewers, ApiTypeOK, IsViewerMap, Replies
<1>2. ApiTypeOK /\ [ApiNext]_vars => ApiTypeOK'
  <2> SUFFICES ASSUME ApiTypeOK, [ApiNext]_vars PROVE ApiTypeOK'
    OBVIOUS
  <2> USE DEF ApiTypeOK
  <2>0. /\ IsViewerMap(Prune(viewers, now), now)
        /\ \A r \in DOMAIN Prune(viewers, now) : now - Prune(viewers, now)[r] <= TTL
    BY PruneShape
  <2>1. ASSUME NEW s \in Sessions, DoHeartbeat(s) PROVE ApiTypeOK'
    <3>1. IsViewerMap(viewers', now') /\ now' = now
      BY <2>0, <2>1, InsertShape DEF DoHeartbeat, Heartbeat
    <3>2. full_refresh_generation' \in Nat
      BY <2>1 DEF DoHeartbeat, Heartbeat
    <3>3. reply' \in Replies
      BY <2>1, <3>1, SessionSets DEF DoHeartbeat, Answers, Replies, IsViewerMap
    <3> QED
      BY <3>1, <3>2, <3>3
  <2>2. ASSUME NEW s \in Sessions, DoReject(s) PROVE ApiTypeOK'
    <3>1. IsViewerMap(viewers', now') /\ now' = now
      BY <2>0, <2>2 DEF DoReject, Reject
    <3>2. reply' \in Replies
      BY <2>2, <3>1, SessionSets DEF DoReject, Answers, Replies, IsViewerMap
    <3> QED
      BY <2>2, <3>1, <3>2 DEF DoReject, Reject
  <2>3. ASSUME NEW s \in Sessions, DoLeave(s) PROVE ApiTypeOK'
    <3>1. IsViewerMap(viewers', now') /\ now' = now
      BY <2>0, <2>3, RemoveShape DEF DoLeave, Leave
    <3>2. reply' \in Replies
      BY <2>3, <3>1, SessionSets DEF DoLeave, Answers, Replies, IsViewerMap
    <3> QED
      BY <2>3, <3>1, <3>2 DEF DoLeave, Leave
  <2>4. CASE DoCount
    <3>1. IsViewerMap(viewers', now') /\ now' = now
      BY <2>0, <2>4 DEF DoCount, CountViewers
    <3>2. reply' \in Replies
      BY <2>4, <3>1, SessionSets DEF DoCount, Answers, Replies, IsViewerMap
    <3> QED
      BY <2>4, <3>1, <3>2 DEF DoCount, CountViewers
  <2>5. CASE ApiTick
    BY <2>5 DEF ApiTick, IsViewerMap
  <2>6. CASE UNCHANGED vars
    BY <2>6 DEF vars
  <2> QED
    BY <2>1, <2>2, <2>3, <2>4, <2>5, <2>6 DEF ApiNext
<1> QED
  BY <1>1, <1>2, PTL DEF ApiSpec

(* Admission never lets the map, stale entries included, outgrow MaxViewers. *)
THEOREM Capacity == ApiSpec => []CapacityHeld
<1>1. ApiInit => CapacityHeld
  BY FS_EmptySet, MaxViewersAssumption DEF ApiInit, PresenceInit, NoViewers, CapacityHeld
<1>2. ApiTypeOK /\ CapacityHeld /\ [ApiNext]_vars => CapacityHeld'
  <2> SUFFICES ASSUME ApiTypeOK, CapacityHeld, [ApiNext]_vars PROVE CapacityHeld'
    OBVIOUS
  <2> DEFINE pruned == Prune(viewers, now)
  <2>0. /\ IsViewerMap(pruned, now)
        /\ \A r \in DOMAIN pruned : now - pruned[r] <= TTL
        /\ DOMAIN pruned \subseteq DOMAIN viewers
    BY PruneShape DEF ApiTypeOK
  <2>a. \A S \in SUBSET DOMAIN viewers : Cardinality(S) <= MaxViewers
    <3> TAKE S \in SUBSET DOMAIN viewers
    <3>1. IsFiniteSet(DOMAIN viewers) /\ Cardinality(DOMAIN viewers) \in Nat
      BY SessionSets DEF ApiTypeOK, IsViewerMap
    <3>2. Cardinality(S) <= Cardinality(DOMAIN viewers) /\ Cardinality(S) \in Nat
      BY <3>1, FS_Subset, FS_CardinalityType
    <3> QED
      BY <3>1, <3>2, MaxViewersAssumption DEF CapacityHeld
  <2>1. ASSUME NEW s \in Sessions, DoHeartbeat(s) PROVE CapacityHeld'
    <3>1. DOMAIN viewers' = DOMAIN pruned \union {s}
      BY <2>0, <2>1, InsertShape DEF DoHeartbeat, Heartbeat, ApiTypeOK
    <3>2. CASE s \in DOMAIN pruned
      <4>1. DOMAIN viewers' \in SUBSET DOMAIN viewers
        BY <2>0, <3>1, <3>2
      <4> QED
        BY <2>a, <4>1 DEF CapacityHeld
    <3>3. CASE s \notin DOMAIN pruned
      <4>1. IsFiniteSet(DOMAIN pruned) /\ Cardinality(DOMAIN pruned) \in Nat
        BY <2>0, SessionSets DEF IsViewerMap
      <4>2. Cardinality(DOMAIN viewers') = Cardinality(DOMAIN pruned) + 1
        BY <3>1, <3>3, <4>1, FS_AddElement
      <4>3. Cardinality(DOMAIN pruned) < MaxViewers
        BY <2>1, <3>3 DEF DoHeartbeat, Heartbeat, Admits
      <4> QED
        BY <4>1, <4>2, <4>3, MaxViewersAssumption DEF CapacityHeld
    <3> QED
      BY <3>2, <3>3
  <2>2. ASSUME NEW s \in Sessions, DoReject(s) PROVE CapacityHeld'
    BY <2>0, <2>2, <2>a DEF DoReject, Reject, CapacityHeld
  <2>3. ASSUME NEW s \in Sessions, DoLeave(s) PROVE CapacityHeld'
    <3>1. DOMAIN viewers' \subseteq DOMAIN pruned
      BY <2>3 DEF DoLeave, Leave, Remove
    <3> QED
      BY <2>0, <3>1, <2>a DEF CapacityHeld
  <2>4. CASE DoCount
    BY <2>0, <2>4, <2>a DEF DoCount, CountViewers, CapacityHeld
  <2>5. CASE ApiTick
    BY <2>5 DEF ApiTick, CapacityHeld
  <2>6. CASE UNCHANGED vars
    BY <2>6 DEF vars, CapacityHeld
  <2> QED
    BY <2>1, <2>2, <2>3, <2>4, <2>5, <2>6 DEF ApiNext
<1> QED
  BY <1>1, <1>2, TypeInvariant, PTL DEF ApiSpec

(* A full refresh is requested exactly when the first live viewer arrives. *)
THEOREM Activation == ApiSpec => ActivationOnFirstViewer
<1> DEFINE Edge == full_refresh_generation' # full_refresh_generation
                     <=> Live = {} /\ Live' # {}
<1>1. ApiTypeOK /\ ApiTypeOK' /\ [ApiNext]_vars => [Edge]_vars
  <2> SUFFICES ASSUME ApiTypeOK, ApiTypeOK', ApiNext PROVE Edge
    BY DEF vars
  <2> DEFINE pruned == Prune(viewers, now)
  <2>0. /\ IsViewerMap(pruned, now)
        /\ \A r \in DOMAIN pruned : now - pruned[r] <= TTL
        /\ DOMAIN pruned = Live
        /\ full_refresh_generation \in Nat
    BY PruneShape DEF ApiTypeOK, Live
  <2>a. ASSUME now' = now, DOMAIN viewers' \subseteq DOMAIN pruned
        PROVE  Live' \subseteq Live
    BY <2>0, <2>a DEF Live, Unexpired
  <2>1. ASSUME NEW s \in Sessions, DoHeartbeat(s) PROVE Edge
    <3>1. viewers' = Insert(pruned, s, now) /\ now' = now
      BY <2>1 DEF DoHeartbeat, Heartbeat
    <3>2. s \in DOMAIN viewers' /\ viewers'[s] = now
      BY <3>1 DEF Insert
    <3>3. s \in Live'
      BY <3>1, <3>2 DEF Live, Unexpired, ApiTypeOK
    <3> QED
      BY <2>0, <2>1, <3>3 DEF DoHeartbeat, Heartbeat
  <2>2. ASSUME NEW s \in Sessions, DoReject(s) PROVE Edge
    BY <2>2, <2>a DEF DoReject, Reject
  <2>3. ASSUME NEW s \in Sessions, DoLeave(s) PROVE Edge
    <3>1. DOMAIN viewers' \subseteq DOMAIN pruned /\ now' = now
      BY <2>3 DEF DoLeave, Leave, Remove
    <3> QED
      BY <2>3, <2>a, <3>1 DEF DoLeave, Leave
  <2>4. CASE DoCount
    BY <2>4, <2>a DEF DoCount, CountViewers
  <2>5. CASE ApiTick
    <3>1. Live' \subseteq Live
      BY <2>5 DEF ApiTick, Live, Unexpired, ApiTypeOK, IsViewerMap
    <3> QED
      BY <2>5, <3>1 DEF ApiTick
  <2> QED
    BY <2>1, <2>2, <2>3, <2>4, <2>5 DEF ApiNext
<1> QED
  BY <1>1, TypeInvariant, PTL DEF ApiSpec, ActivationOnFirstViewer

-----------------------------------------------------------------------------
(* The registry counts as presence does. *)
LEMMA SameCount == \A S : Registry!Cardinality(S) = Cardinality(S)
  BY DEF Cardinality, Registry!Cardinality, IsFiniteSet, Registry!IsFiniteSet

(* Expiry on demand implements expiry on time: the map cut to its unexpired
   entries behaves as the registry, answers included. *)
THEOREM Implements == ApiSpec => RegistrySpec
<1> DEFINE pruned == Prune(viewers, now)
<1>1. ApiInit => Registry!Init
  <2> SUFFICES ASSUME ApiInit PROVE Registry!Init
    OBVIOUS
  <2>1. pruned = NoViewers
    BY DEF ApiInit, PresenceInit, NoViewers, Prune, Unexpired
  <2> QED
    BY <2>1 DEF ApiInit, PresenceInit, NoViewers, Registry!Init, Registry!Nobody
<1>2. ApiTypeOK /\ ApiTypeOK' /\ [ApiNext]_vars => [Registry!Next]_(Registry!registryVars)
  <2> SUFFICES ASSUME ApiTypeOK, ApiTypeOK', [ApiNext]_vars
               PROVE  Registry!Next \/ UNCHANGED Registry!registryVars
    OBVIOUS
  <2>0. /\ IsViewerMap(pruned, now)
        /\ \A r \in DOMAIN pruned : now - pruned[r] <= TTL
        /\ Prune(pruned, now) = pruned
        /\ now \in Nat
    BY PruneShape, PruneTwice DEF ApiTypeOK
  <2>1. ASSUME NEW s \in Sessions, DoHeartbeat(s) PROVE Registry!Arrive(s)
    <3>1. /\ viewers' = Insert(pruned, s, now)
          /\ now' = now
          /\ Admits(pruned, s)
      BY <2>1 DEF DoHeartbeat, Heartbeat
    <3>2. pruned' = viewers'
      BY <2>0, <3>1, InsertShape
    <3>3. pruned' = Registry!With(pruned, s, now)
      BY <3>1, <3>2 DEF Insert, Registry!With
    <3>4. full_refresh_generation' =
             full_refresh_generation + (IF DOMAIN pruned = {} THEN 1 ELSE 0)
      BY <2>1 DEF DoHeartbeat, Heartbeat, ApiTypeOK
    <3>5. reply' = [admitted |-> TRUE, count |-> Cardinality(DOMAIN pruned')]
      BY <2>1, <3>2 DEF DoHeartbeat, Answers
    <3> QED
      BY <3>1, <3>3, <3>4, <3>5, SameCount DEF Admits, Registry!Arrive, Registry!Watching
  <2>a. ASSUME viewers' = pruned, now' = now PROVE pruned' = pruned
    BY <2>0, <2>a
  <2>2. ASSUME NEW s \in Sessions, DoReject(s) PROVE Registry!TurnAway(s)
    <3>1. /\ pruned' = pruned /\ now' = now
          /\ UNCHANGED full_refresh_generation
          /\ reply' = [admitted |-> FALSE, count |-> Cardinality(DOMAIN pruned)]
      BY <2>2, <2>a DEF DoReject, Reject, Answers
    <3>2. s \notin DOMAIN pruned /\ ~ Cardinality(DOMAIN pruned) < MaxViewers
      BY <2>2 DEF DoReject, Reject, Admits
    <3>3. Cardinality(DOMAIN pruned) >= MaxViewers
      BY <2>0, <3>2, SessionSets, MaxViewersAssumption DEF IsViewerMap
    <3> QED
      BY <3>1, <3>2, <3>3, SameCount DEF Registry!TurnAway, Registry!Watching
  <2>3. ASSUME NEW s \in Sessions, DoLeave(s) PROVE Registry!Depart(s)
    <3>1. /\ viewers' = Remove(pruned, s) /\ now' = now
          /\ UNCHANGED full_refresh_generation
      BY <2>3 DEF DoLeave, Leave
    <3>2. pruned' = viewers'
      BY <2>0, <3>1, RemoveShape
    <3>3. pruned' = Registry!Kept(pruned, DOMAIN pruned \ {s})
      BY <3>1, <3>2 DEF Remove, Registry!Kept
    <3>4. reply' = [admitted |-> TRUE, count |-> Cardinality(DOMAIN pruned')]
      BY <2>3, <3>2 DEF DoLeave, Answers
    <3> QED
      BY <3>1, <3>3, <3>4, SameCount DEF Registry!Depart, Registry!Watching
  <2>4. CASE DoCount
    <3>1. /\ pruned' = pruned /\ now' = now
          /\ UNCHANGED full_refresh_generation
          /\ reply' = [admitted |-> TRUE, count |-> Cardinality(DOMAIN pruned)]
      BY <2>4, <2>a DEF DoCount, CountViewers, Answers
    <3> QED
      BY <3>1, SameCount DEF Registry!Next, Registry!Ask, Registry!Watching
  <2>5. CASE ApiTick
    <3>1. now' = now + 1 /\ UNCHANGED <<viewers, full_refresh_generation, reply>>
      BY <2>5 DEF ApiTick
    <3>2. Unexpired(viewers, now') = {s \in DOMAIN pruned : now' - pruned[s] <= TTL}
      BY <2>0, <3>1 DEF Unexpired, Prune, ApiTypeOK, IsViewerMap
    <3>3. pruned' = [s \in Unexpired(viewers, now') |-> pruned[s]]
      BY <3>1, <3>2 DEF Prune
    <3>4. pruned' = Registry!Kept(pruned, {s \in DOMAIN pruned : now' - pruned[s] <= TTL})
      BY <3>2, <3>3 DEF Registry!Kept
    <3> QED
      BY <3>1, <3>4 DEF Registry!Next, Registry!Tick, Registry!Watching
  <2>6. CASE UNCHANGED vars
    BY <2>6 DEF vars, Registry!registryVars
  <2> QED
    BY <2>1, <2>2, <2>3, <2>4, <2>5, <2>6 DEF ApiNext, Registry!Next
<1> QED
  BY <1>1, <1>2, TypeInvariant, PTL DEF ApiSpec, RegistrySpec, Registry!Spec
-----------------------------------------------------------------------------
(* The tab that sends the heartbeats, for any durations and any number of  *)
(* visibility periods.  Its two loops are told apart by what they hold: a  *)
(* request under way, or a timer.                                          *)

Workers == [busy : BOOLEAN, owner : Nat, include : BOOLEAN, since : Nat, answered : BOOLEAN]
Messages == [active : BOOLEAN, owner : Nat, sent : Nat]
Timers == [kind : Kinds, due : Nat]
TimerMaps == UNION {[S -> Timers] : S \in {S \in SUBSET (Nat \ {0}) : IsFiniteSet(S)}}
TabPages ==
    [running : BOOLEAN, hidden : BOOLEAN, generation : Nat, worker : [Kinds -> Workers],
     handle : [Kinds -> Nat \union {None}], timers : TimerMaps, outbox : SUBSET Messages]

Busy(p, k) == p.worker[k].busy
Armed(p, k) == p.handle[k] \in DOMAIN p.timers

(* The first heartbeat of the current period is under way.                 *)
Starting(p) ==
    p.worker["presence"].include /\ p.worker["presence"].owner = p.generation

(* What holds of a page whatever it is doing.                              *)
Sound(p) ==
    /\ p \in TabPages
    /\ \A k \in Kinds :
         \/ p.worker[k] = Idle
         \/ /\ Busy(p, k) /\ p.worker[k].owner \in 1 .. p.generation
            /\ p.worker[k].since <= now /\ now <= p.worker[k].since + Timeout[k]
    /\ \A k \in Kinds : Armed(p, k) => p.timers[p.handle[k]].kind = k
    /\ \A i \in DOMAIN p.timers : now <= p.timers[i].due /\ p.timers[i].due <= now + Cadence
    /\ \A m \in p.outbox : m.sent <= now /\ now <= m.sent + MaxDelay
    /\ p.running => p.generation # 0
    /\ ~ p.running => ~ Starting(p) /\ \A k \in Kinds : p.handle[k] = None

(* A handle that no request has replaced is that of an armed timer.        *)
Ready(p, k) == ~ Busy(p, k) /\ p.handle[k] # None => Armed(p, k)

Goes(p, k) ==
    \/ Busy(p, k)
    \/ Armed(p, k) /\ p.timers[p.handle[k]].kind = k
    \/ k = "price" /\ Starting(p)

Runs(p) == p.running => \A k \in Kinds : Ready(p, k) /\ Goes(p, k)

(* No timer is armed but those in the handles, and a loop has a request or *)
(* a timer; prices wait for the first heartbeat.                           *)
Neat(p) ==
    /\ \A i \in DOMAIN p.timers : p.handle[p.timers[i].kind] = i
    /\ \A k \in Kinds : Busy(p, k) => p.handle[k] = None

Tidy(p) == Neat(p) /\ (Starting(p) => ~ Busy(p, "price") /\ p.handle["price"] = None)

(* After a heartbeat at h, or from h on, the next is due by this time.     *)
Due(p, h) ==
    \/ Busy(p, "presence") /\ p.worker["presence"].since <= h
    \/ /\ ~ Busy(p, "presence") /\ Armed(p, "presence")
       /\ p.timers[p.handle["presence"]].due <= h + PresenceTimeout + Cadence

-----------------------------------------------------------------------------
LEMMA DashboardDurations ==
    /\ Cadence \in Nat /\ StartupDelay \in Nat /\ PresenceTimeout \in Nat
    /\ PriceTimeout \in Nat /\ MaxDelay \in Nat /\ StartupDelay <= Cadence
    /\ PresenceTimeout + Cadence + MaxDelay <= TTL /\ TTL \in Nat
    /\ None \notin Nat /\ Tab \in Sessions
<1>1. {Cadence, StartupDelay, PresenceTimeout, PriceTimeout, MaxDelay} \subseteq Nat
  BY DashboardAssumption
<1> QED
  BY <1>1, DashboardAssumption, TTLAssumption

LEMMA KindsShape ==
    /\ "presence" \in Kinds /\ "price" \in Kinds
    /\ \A k \in Kinds : k = "presence" \/ k = "price"
    /\ Timeout["presence"] = PresenceTimeout /\ Timeout["price"] = PriceTimeout
BY DEF Kinds, Timeout

LEMMA TimerMapShape ==
    ASSUME NEW S \in SUBSET (Nat \ {0}), IsFiniteSet(S), NEW t, t = [i \in S |-> t[i]],
           \A i \in S : t[i] \in Timers
    PROVE  t \in TimerMaps
<1>1. t \in [S -> Timers]
  OBVIOUS
<1> QED
  BY <1>1 DEF TimerMaps

LEMMA TimerMapFacts ==
    ASSUME NEW t \in TimerMaps
    PROVE  /\ DOMAIN t \in SUBSET (Nat \ {0}) /\ IsFiniteSet(DOMAIN t)
           /\ t = [i \in DOMAIN t |-> t[i]]
           /\ \A i \in DOMAIN t : t[i] \in Timers
<1>1. PICK S \in {S \in SUBSET (Nat \ {0}) : IsFiniteSet(S)} : t \in [S -> Timers]
  BY DEF TimerMaps
<1> QED
  BY <1>1

LEMMA WithoutShape ==
    ASSUME NEW t \in TimerMaps, NEW i
    PROVE  /\ Without(t, i) \in TimerMaps
           /\ DOMAIN Without(t, i) = DOMAIN t \ {i}
           /\ \A j \in DOMAIN t \ {i} : Without(t, i)[j] = t[j]
<1> DEFINE S == DOMAIN t \ {i}
           u == Without(t, i)
<1>1. /\ S \in SUBSET (Nat \ {0}) /\ IsFiniteSet(DOMAIN t) /\ S \subseteq DOMAIN t
      /\ \A j \in S : t[j] \in Timers
  BY TimerMapFacts
<1>2. IsFiniteSet(S)
  BY <1>1, FS_Subset
<1>3. /\ u = [j \in S |-> u[j]] /\ DOMAIN u = S /\ \A j \in S : u[j] = t[j]
  BY DEF Without
<1>4. \A j \in S : u[j] \in Timers
  BY <1>1, <1>3
<1> HIDE DEF u, S
<1>5. u \in TimerMaps
  BY <1>1, <1>2, <1>3, <1>4, TimerMapShape
<1> QED
  BY <1>3, <1>5 DEF u, S

(* There is always a number left.                                          *)
LEMMA NewTimerFresh ==
    ASSUME NEW p \in TabPages
    PROVE  /\ NewTimer(p) \in Nat \ {0} /\ NewTimer(p) \notin DOMAIN p.timers
           /\ \A k \in Kinds : p.handle[k] # NewTimer(p)
<1> DEFINE handles == {p.handle[k] : k \in Kinds}
           used == DOMAIN p.timers \union handles
           n == Cardinality(used)
<1>1. IsFiniteSet(DOMAIN p.timers)
  BY TimerMapFacts DEF TabPages
<1>2. IsFiniteSet(handles)
  <2>1. handles = {p.handle["presence"], p.handle["price"]}
    BY KindsShape
  <2>2. IsFiniteSet({p.handle["presence"]}) /\ IsFiniteSet({p.handle["price"]})
    BY FS_Singleton
  <2>3. IsFiniteSet({p.handle["presence"]} \union {p.handle["price"]})
    BY <2>2, FS_Union
  <2>4. handles = {p.handle["presence"]} \union {p.handle["price"]}
    BY <2>1
  <2> QED
    BY <2>3, <2>4
<1> HIDE DEF handles
<1>3. IsFiniteSet(used) /\ n \in Nat
  BY <1>1, <1>2, FS_Union, FS_CardinalityType
<1> HIDE DEF used
<1>4. \E i \in 1 .. n + 1 : i \notin used
  <2> SUFFICES ASSUME 1 .. n + 1 \subseteq used PROVE FALSE
    OBVIOUS
  <2>1. Cardinality(1 .. n + 1) <= n
    BY <1>3, FS_Subset
  <2>2. Cardinality(1 .. n + 1) = n + 1
    <3>1. \A a, b \in Int : Cardinality(a .. b) = IF a > b THEN 0 ELSE b - a + 1
      BY FS_Interval
    <3>2. n + 1 \in Int /\ ~ (1 > n + 1) /\ n + 1 - 1 + 1 = n + 1
      BY <1>3
    <3> QED
      BY <3>1, <3>2
  <2> QED
    BY <1>3, <2>1, <2>2
<1>5. NewTimer(p) = CHOOSE i \in 1 .. n + 1 : i \notin used
  BY DEF NewTimer, used, handles
<1>6. NewTimer(p) \in 1 .. n + 1 /\ NewTimer(p) \notin used
  BY <1>4, <1>5
<1>7. NewTimer(p) \in Nat \ {0}
  BY <1>3, <1>6
<1> QED
  BY <1>6, <1>7 DEF used, handles

-----------------------------------------------------------------------------
(* The functions of the page.                                              *)

LEMMA Clears ==
    ASSUME NEW p \in TabPages, NEW k \in Kinds
    PROVE  LET q == ClearTimer(p, k) IN
           /\ q \in TabPages /\ q.running = p.running /\ q.hidden = p.hidden
           /\ q.generation = p.generation /\ q.worker = p.worker /\ q.outbox = p.outbox
           /\ q.handle[k] = None
           /\ \A j \in Kinds \ {k} : q.handle[j] = p.handle[j]
           /\ DOMAIN q.timers = DOMAIN p.timers \ {p.handle[k]}
           /\ \A i \in DOMAIN q.timers : q.timers[i] = p.timers[i]
<1> DEFINE q == ClearTimer(p, k)
           timers == Without(p.timers, p.handle[k])
<1>1. /\ timers \in TimerMaps /\ DOMAIN timers = DOMAIN p.timers \ {p.handle[k]}
      /\ \A i \in DOMAIN timers : timers[i] = p.timers[i]
  BY WithoutShape DEF TabPages
<1>2. q = [p EXCEPT !.timers = timers, !.handle[k] = None]
  BY DEF ClearTimer, TabPages
<1> HIDE DEF q, timers
<1>3. /\ q \in TabPages /\ q.running = p.running /\ q.hidden = p.hidden
      /\ q.generation = p.generation /\ q.worker = p.worker /\ q.outbox = p.outbox
      /\ q.handle = [p.handle EXCEPT ![k] = None] /\ q.timers = timers
  BY <1>1, <1>2 DEF TabPages
<1>4. q.handle[k] = None /\ \A j \in Kinds \ {k} : q.handle[j] = p.handle[j]
  BY <1>3 DEF TabPages
<1> QED
  BY <1>1, <1>3, <1>4 DEF q

(* q is p with a new timer in the handle of kind k.                        *)
TimerSet(p, q, k, delay) ==
    /\ Sound(q) /\ q.running /\ q.hidden = p.hidden
    /\ q.generation = p.generation /\ q.worker = p.worker /\ q.outbox = p.outbox
    /\ Armed(q, k) /\ q.handle[k] # None
    /\ q.timers[q.handle[k]] = [kind |-> k, due |-> now + delay]
    /\ \A j \in Kinds \ {k} : q.handle[j] = p.handle[j]
    /\ \A i \in DOMAIN p.timers : i \in DOMAIN q.timers /\ q.timers[i] = p.timers[i]
    /\ \A i \in DOMAIN q.timers : i \in DOMAIN p.timers \/ i = q.handle[k]

(* The page sets the timer of a kind.                                      *)
LEMMA Sets ==
    ASSUME now \in Nat, NEW p, Sound(p), p.running, NEW k \in Kinds, NEW delay \in Nat,
           delay <= Cadence
    PROVE  TimerSet(p, SetTimer(p, k, delay), k, delay)
<1> DEFINE q == SetTimer(p, k, delay)
           i == NewTimer(p)
           timer == [kind |-> k, due |-> now + delay]
           timers == [j \in DOMAIN p.timers \union {i} |-> IF j = i THEN timer ELSE p.timers[j]]
<1>1. /\ p \in TabPages /\ p.timers \in TimerMaps /\ p.handle \in [Kinds -> Nat \union {None}]
  BY DEF Sound, TabPages
<1>2. /\ i \in Nat \ {0} /\ i \notin DOMAIN p.timers /\ i # None
      /\ \A j \in Kinds : p.handle[j] # i
  BY <1>1, NewTimerFresh, DashboardDurations
<1>3. timer \in Timers
  BY DEF Timers
<1>4. q = [p EXCEPT !.handle[k] = i, !.timers = timers]
  BY DEF SetTimer
<1> HIDE DEF i, q
<1>5. /\ DOMAIN p.timers \in SUBSET (Nat \ {0}) /\ IsFiniteSet(DOMAIN p.timers)
      /\ \A j \in DOMAIN p.timers : p.timers[j] \in Timers
  BY <1>1, TimerMapFacts
<1>6. /\ timers = [j \in DOMAIN timers |-> timers[j]]
      /\ DOMAIN timers = DOMAIN p.timers \union {i} /\ timers[i] = timer
      /\ \A j \in DOMAIN p.timers : timers[j] = p.timers[j]
  BY <1>2
<1> HIDE DEF timers
<1>7. timers \in TimerMaps
  <2>1. IsFiniteSet(DOMAIN timers)
    BY <1>5, <1>6, FS_AddElement
  <2>2. DOMAIN timers \in SUBSET (Nat \ {0}) /\ \A j \in DOMAIN timers : timers[j] \in Timers
    BY <1>2, <1>3, <1>5, <1>6
  <2> QED
    BY <1>6, <2>1, <2>2, TimerMapShape
<1>8. /\ q \in TabPages /\ q.running = p.running /\ q.hidden = p.hidden
      /\ q.generation = p.generation /\ q.worker = p.worker /\ q.outbox = p.outbox
      /\ q.handle = [p.handle EXCEPT ![k] = i] /\ q.timers = timers
  BY <1>1, <1>2, <1>4, <1>7 DEF TabPages
<1>9. q.handle[k] = i /\ \A j \in Kinds \ {k} : q.handle[j] = p.handle[j]
  BY <1>1, <1>8
<1>10. q.running
  BY <1>8
<1>11. /\ \A j \in Kinds : Armed(q, j) => q.timers[q.handle[j]].kind = j
       /\ \A j \in DOMAIN q.timers : now <= q.timers[j].due /\ q.timers[j].due <= now + Cadence
  <2>1. timer.kind = k /\ timer.due = now + delay
    OBVIOUS
  <2> HIDE DEF timer
  <2>2. ASSUME NEW j \in Kinds, Armed(q, j) PROVE q.timers[q.handle[j]].kind = j
    <3>1. CASE j = k
      BY <1>6, <1>8, <1>9, <2>1, <3>1
    <3>2. CASE j # k
      <4>1. q.handle[j] = p.handle[j] /\ p.handle[j] \in DOMAIN p.timers
        BY <1>2, <1>6, <1>8, <1>9, <2>2, <3>2 DEF Armed
      <4> QED
        BY <1>6, <1>8, <4>1 DEF Sound, Armed
    <3> QED
      BY <3>1, <3>2
  <2>3. now <= timer.due /\ timer.due <= now + Cadence
    BY <2>1, DashboardDurations
  <2>4. \A j \in DOMAIN q.timers : now <= q.timers[j].due /\ q.timers[j].due <= now + Cadence
    BY <1>6, <1>8, <2>3 DEF Sound
  <2> QED
    BY <2>2, <2>4
<1>12. Sound(q)
  BY <1>8, <1>10, <1>11 DEF Sound, Busy
<1>13. Armed(q, k) /\ q.handle[k] # None /\ q.timers[q.handle[k]] = timer
  BY <1>2, <1>6, <1>8, <1>9 DEF Armed
<1> QED
  BY <1>6, <1>8, <1>9, <1>10, <1>12, <1>13 DEF q, TimerSet

(* The page asks.                                                          *)
Asked(p, include) ==
    [busy |-> TRUE, owner |-> p.generation, include |-> include, since |-> now,
     answered |-> FALSE]

(* q is p with a new request of kind k under way.                          *)
RequestMade(p, q, k, include) ==
    /\ Sound(q) /\ q.running /\ q.hidden = p.hidden /\ q.generation = p.generation
    /\ q.worker[k] = Asked(p, include) /\ Busy(q, k)
    /\ \A j \in Kinds \ {k} : q.worker[j] = p.worker[j]
    /\ q.outbox = IF k = "presence" THEN p.outbox \union {Message(TRUE, p.generation)}
                                    ELSE p.outbox
    /\ q.handle[k] = None
    /\ \A j \in Kinds \ {k} : q.handle[j] = p.handle[j]
    /\ DOMAIN q.timers = DOMAIN p.timers \ {p.handle[k]}
    /\ \A i \in DOMAIN q.timers : q.timers[i] = p.timers[i]
    /\ \A j \in Kinds \ {k} : Armed(p, j) => Armed(q, j)

LEMMA Asks ==
    ASSUME now \in Nat, NEW p, Sound(p), p.running, NEW k \in Kinds, ~ Busy(p, k),
           NEW include \in BOOLEAN
    PROVE  RequestMade(p, Poll(p, k, include), k, include)
<1> DEFINE q == Poll(p, k, include)
           r == ClearTimer(p, k)
           asked == Asked(p, include)
           outbox == IF k = "presence" THEN p.outbox \union {Message(TRUE, p.generation)}
                                       ELSE p.outbox
<1>1. p \in TabPages /\ p.generation \in Nat /\ p.generation # 0
  BY DEF Sound, TabPages
<1>2. /\ r \in TabPages /\ r.running = p.running /\ r.hidden = p.hidden
      /\ r.generation = p.generation /\ r.worker = p.worker /\ r.outbox = p.outbox
      /\ r.handle[k] = None
      /\ \A j \in Kinds \ {k} : r.handle[j] = p.handle[j]
      /\ DOMAIN r.timers = DOMAIN p.timers \ {p.handle[k]}
      /\ \A i \in DOMAIN r.timers : r.timers[i] = p.timers[i]
  BY <1>1, Clears
<1>3. q = [r EXCEPT !.worker[k] = asked, !.outbox = outbox]
  BY <1>1, <1>2 DEF Poll, Asked, Busy, TabPages
<1>4. /\ asked \in Workers /\ asked.busy /\ asked.owner = p.generation /\ asked.since = now
      /\ asked.include = include
  BY <1>1 DEF Asked, Workers
<1>5. /\ Message(TRUE, p.generation) \in Messages /\ Message(TRUE, p.generation).sent = now
      /\ p.outbox \subseteq Messages
  BY <1>1 DEF Message, Messages, TabPages
<1>6. /\ outbox \in SUBSET Messages
      /\ \A m \in outbox : m.sent <= now /\ now <= m.sent + MaxDelay
  <2>1. now <= now + MaxDelay
    BY DashboardDurations
  <2>2. \A m \in outbox : m \in p.outbox \/ m = Message(TRUE, p.generation)
    OBVIOUS
  <2> HIDE DEF outbox
  <2>3. \A m \in outbox : m.sent <= now /\ now <= m.sent + MaxDelay
    <3>1. ASSUME NEW m \in p.outbox PROVE m.sent <= now /\ now <= m.sent + MaxDelay
      BY DEF Sound
    <3>2. ASSUME NEW m, m = Message(TRUE, p.generation)
          PROVE  m.sent <= now /\ now <= m.sent + MaxDelay
      <4>1. m.sent = now
        BY <1>5, <3>2
      <4> QED
        BY <2>1, <4>1
    <3> QED
      BY <2>2, <3>1, <3>2
  <2>4. outbox \in SUBSET Messages
    BY <1>5, <2>2
  <2> QED
    BY <2>3, <2>4
<1> HIDE DEF r, asked, outbox, q
<1>7. /\ q \in TabPages /\ q.running = p.running /\ q.hidden = p.hidden
      /\ q.generation = p.generation /\ q.worker = [p.worker EXCEPT ![k] = asked]
      /\ q.outbox = outbox /\ q.handle = r.handle /\ q.timers = r.timers
  BY <1>2, <1>3, <1>4, <1>6 DEF TabPages
<1>8. q.worker[k] = asked /\ \A j \in Kinds \ {k} : q.worker[j] = p.worker[j]
  BY <1>1, <1>7 DEF TabPages
<1>9. q.running
  BY <1>7
<1>10. Busy(q, k)
  BY <1>4, <1>8 DEF Busy
<1>11. \A j \in Kinds \ {k} : Armed(p, j) => Armed(q, j)
  BY <1>2, <1>7 DEF Armed, Sound
<1>12. \A j \in Kinds :
         \/ q.worker[j] = Idle
         \/ /\ Busy(q, j) /\ q.worker[j].owner \in 1 .. q.generation
            /\ q.worker[j].since <= now /\ now <= q.worker[j].since + Timeout[j]
  <2>1. now <= now + Timeout[k]
    BY KindsShape, DashboardDurations
  <2>2. p.generation \in 1 .. q.generation
    BY <1>1, <1>7
  <2> QED
    BY <1>4, <1>7, <1>8, <1>10, <2>1, <2>2 DEF Sound, Busy
<1>13. \A j \in Kinds : Armed(q, j) => q.timers[q.handle[j]].kind = j
  <2>1. None \notin DOMAIN q.timers
    BY <1>7, TimerMapFacts, DashboardDurations DEF TabPages
  <2> QED
    BY <1>2, <1>7, <2>1 DEF Sound, Armed
<1>14. Sound(q)
  BY <1>2, <1>6, <1>7, <1>9, <1>12, <1>13 DEF Sound
<1> QED
  BY <1>2, <1>7, <1>8, <1>9, <1>10, <1>11, <1>14 DEF q, asked, outbox, RequestMade

(* The loops of q are as well off as those of p; that of kind k is armed.  *)
TimerHelps(p, q, k, delay) ==
    /\ Ready(q, k) /\ Goes(q, k)
    /\ \A j \in Kinds \ {k} : /\ Ready(p, j) => Ready(q, j)
                              /\ Goes(p, j) => Goes(q, j)
    /\ Neat(p) /\ ~ Busy(p, k) /\ ~ Armed(p, k) => Neat(q)
    /\ k = "price" => \A h \in Nat : Due(p, h) => Due(q, h)
    /\ k = "presence" /\ ~ Busy(p, k) =>
         \A h \in Nat : now + delay <= h + PresenceTimeout + Cadence => Due(q, h)

(* What a new timer means to the loops.                                    *)
LEMMA SetsRun ==
    ASSUME now \in Nat, NEW p, Sound(p), p.running, NEW k \in Kinds, NEW delay \in Nat,
           delay <= Cadence
    PROVE  TimerHelps(p, SetTimer(p, k, delay), k, delay)
<1> DEFINE q == SetTimer(p, k, delay)
<1>0. TimerSet(p, q, k, delay)
  BY Sets
<1> HIDE DEF q
<1>1. /\ Sound(q) /\ q.running /\ q.hidden = p.hidden
      /\ q.generation = p.generation /\ q.worker = p.worker /\ q.outbox = p.outbox
      /\ Armed(q, k) /\ q.handle[k] # None
      /\ q.timers[q.handle[k]] = [kind |-> k, due |-> now + delay]
      /\ \A j \in Kinds \ {k} : q.handle[j] = p.handle[j]
      /\ \A i \in DOMAIN p.timers : i \in DOMAIN q.timers /\ q.timers[i] = p.timers[i]
      /\ \A i \in DOMAIN q.timers : i \in DOMAIN p.timers \/ i = q.handle[k]
  BY <1>0 DEF TimerSet
<1>2. q.timers[q.handle[k]].kind = k /\ q.timers[q.handle[k]].due = now + delay
  BY <1>1
<1>3. \A j \in Kinds : Busy(q, j) <=> Busy(p, j)
  BY <1>1 DEF Busy
<1>4. Starting(q) <=> Starting(p)
  BY <1>1 DEF Starting
<1>5. \A j \in Kinds \ {k} : Armed(p, j) =>
        Armed(q, j) /\ q.timers[q.handle[j]] = p.timers[p.handle[j]]
  BY <1>1 DEF Armed
<1>6. Ready(q, k) /\ Goes(q, k)
  BY <1>1, <1>2 DEF Ready, Goes
<1>7. \A j \in Kinds \ {k} : Ready(p, j) => Ready(q, j)
  BY <1>1, <1>3, <1>5 DEF Ready
<1>8. \A j \in Kinds \ {k} : Goes(p, j) => Goes(q, j)
  BY <1>3, <1>4, <1>5 DEF Goes
<1>9. ASSUME Neat(p), ~ Busy(p, k), ~ Armed(p, k) PROVE Neat(q)
  <2>1. ASSUME NEW i \in DOMAIN q.timers PROVE q.handle[q.timers[i].kind] = i
    <3>1. CASE i = q.handle[k]
      BY <1>2, <3>1
    <3>2. CASE i # q.handle[k]
      <4>1. /\ i \in DOMAIN p.timers /\ q.timers[i] = p.timers[i]
            /\ p.handle[p.timers[i].kind] = i
        BY <1>1, <1>9, <3>2 DEF Neat
      <4>2. p.timers[i].kind # k
        BY <1>9, <4>1 DEF Armed
      <4>3. p.timers[i].kind \in Kinds
        BY <4>1, TimerMapFacts DEF Sound, TabPages, Timers
      <4> QED
        BY <1>1, <4>1, <4>2, <4>3
    <3> QED
      BY <3>1, <3>2
  <2>2. \A j \in Kinds : Busy(q, j) => q.handle[j] = None
    BY <1>1, <1>3, <1>9 DEF Neat
  <2> QED
    BY <2>1, <2>2 DEF Neat
<1>10. ASSUME k = "price", NEW h \in Nat, Due(p, h) PROVE Due(q, h)
  <2>1. "presence" \in Kinds \ {k} /\ q.worker["presence"] = p.worker["presence"]
    BY <1>1, <1>10, KindsShape
  <2> QED
    BY <1>3, <1>5, <1>10, <2>1 DEF Due
<1>11. ASSUME k = "presence", ~ Busy(p, k), NEW h \in Nat,
              now + delay <= h + PresenceTimeout + Cadence
       PROVE  Due(q, h)
  BY <1>1, <1>2, <1>3, <1>11 DEF Due
<1> QED
  BY <1>6, <1>7, <1>8, <1>9, <1>10, <1>11 DEF q, TimerHelps

(* The same of q, where kind k has a request.                              *)
RequestHelps(p, q, k, include) ==
    /\ Ready(q, k) /\ Goes(q, k)
    /\ \A j \in Kinds \ {k} : /\ Ready(p, j) => Ready(q, j)
                              /\ Goes(p, j) => Goes(q, j)
    /\ Neat(p) => Neat(q)
    /\ k = "price" => /\ Starting(q) <=> Starting(p)
                      /\ \A h \in Nat : Due(p, h) => Due(q, h)
    /\ k = "presence" => /\ Starting(q) <=> include
                         /\ Due(q, now)

(* What a new request means to the loops.                                  *)
LEMMA AsksRun ==
    ASSUME now \in Nat, NEW p, Sound(p), p.running, NEW k \in Kinds, ~ Busy(p, k),
           NEW include \in BOOLEAN
    PROVE  RequestHelps(p, Poll(p, k, include), k, include)
<1> DEFINE q == Poll(p, k, include)
<1>0. RequestMade(p, q, k, include)
  BY Asks
<1> HIDE DEF q
<1>1. /\ Sound(q) /\ q.running /\ q.hidden = p.hidden /\ q.generation = p.generation
      /\ q.worker[k] = Asked(p, include) /\ Busy(q, k)
      /\ \A j \in Kinds \ {k} : q.worker[j] = p.worker[j]
      /\ q.outbox = IF k = "presence" THEN p.outbox \union {Message(TRUE, p.generation)}
                                      ELSE p.outbox
      /\ q.handle[k] = None
      /\ \A j \in Kinds \ {k} : q.handle[j] = p.handle[j]
      /\ DOMAIN q.timers = DOMAIN p.timers \ {p.handle[k]}
      /\ \A i \in DOMAIN q.timers : q.timers[i] = p.timers[i]
      /\ \A j \in Kinds \ {k} : Armed(p, j) => Armed(q, j)
  BY <1>0 DEF RequestMade
<1>2. \A j \in Kinds \ {k} : Busy(q, j) <=> Busy(p, j)
  BY <1>1 DEF Busy
<1>3. \A j \in Kinds \ {k} : Armed(p, j) =>
        Armed(q, j) /\ q.timers[q.handle[j]] = p.timers[p.handle[j]]
  BY <1>1 DEF Armed
<1>4. Ready(q, k) /\ Goes(q, k)
  BY <1>1 DEF Ready, Goes
<1>5. \A j \in Kinds \ {k} : Ready(p, j) => Ready(q, j)
  BY <1>1, <1>2, <1>3 DEF Ready
<1>6. k = "price" => (Starting(q) <=> Starting(p))
  <2> SUFFICES ASSUME k = "price" PROVE Starting(q) <=> Starting(p)
    OBVIOUS
  <2>1. q.worker["presence"] = p.worker["presence"]
    BY <1>1, KindsShape
  <2> QED
    BY <1>1, <2>1 DEF Starting
<1>7. k = "presence" => ~ Starting(p)
  <2> SUFFICES ASSUME k = "presence" PROVE ~ Starting(p)
    OBVIOUS
  <2>1. p.worker["presence"] = Idle
    BY DEF Sound, Busy
  <2> QED
    BY <2>1 DEF Starting, Idle
<1>8. \A j \in Kinds \ {k} : Goes(p, j) => Goes(q, j)
  BY <1>2, <1>3, <1>6, <1>7, KindsShape DEF Goes
<1>9. ASSUME Neat(p) PROVE Neat(q)
  <2>1. ASSUME NEW i \in DOMAIN q.timers PROVE q.handle[q.timers[i].kind] = i
    <3>1. /\ i \in DOMAIN p.timers /\ i # p.handle[k] /\ q.timers[i] = p.timers[i]
          /\ p.handle[p.timers[i].kind] = i
      BY <1>1, <1>9 DEF Neat
    <3>2. p.timers[i].kind \in Kinds /\ p.timers[i].kind # k
      BY <3>1, TimerMapFacts DEF Sound, TabPages, Timers
    <3> QED
      BY <1>1, <3>1, <3>2
  <2>2. \A j \in Kinds : Busy(q, j) => q.handle[j] = None
    BY <1>1, <1>2, <1>9 DEF Neat
  <2> QED
    BY <2>1, <2>2 DEF Neat
<1>10. ASSUME k = "price", NEW h \in Nat, Due(p, h) PROVE Due(q, h)
  <2>1. "presence" \in Kinds \ {k} /\ q.worker["presence"] = p.worker["presence"]
    BY <1>1, <1>10, KindsShape
  <2> QED
    BY <1>2, <1>3, <1>10, <2>1 DEF Due
<1>11. k = "presence" => (Starting(q) <=> include) /\ Due(q, now)
  <2> SUFFICES ASSUME k = "presence" PROVE (Starting(q) <=> include) /\ Due(q, now)
    OBVIOUS
  <2>1. /\ q.worker["presence"].include = include
        /\ q.worker["presence"].owner = p.generation /\ q.worker["presence"].since = now
    BY <1>1 DEF Asked
  <2>2. Starting(q) <=> include
    BY <1>1, <2>1 DEF Starting
  <2>3. Due(q, now)
    BY <1>1, <2>1 DEF Due
  <2> QED
    BY <2>2, <2>3
<1> QED
  BY <1>4, <1>5, <1>6, <1>8, <1>9, <1>10, <1>11 DEF q, RequestHelps

(* What start leaves once its first heartbeat is over.                     *)
StartupOver(p, q) ==
    /\ Sound(q) /\ q.running /\ q.hidden = p.hidden /\ q.generation = p.generation
    /\ q.outbox = p.outbox /\ q.worker["presence"] = p.worker["presence"]
    /\ Runs(q)
    /\ \A h \in Nat : Due(p, h) => Due(q, h)
    /\ Neat(p) /\ ~ Busy(p, "price") => Neat(q)

LEMMA StartupEnds ==
    ASSUME now \in Nat, NEW p, Sound(p), p.running, NEW delay,
           delay = None \/ (delay \in Nat /\ delay <= Cadence),
           \A k \in Kinds : Ready(p, k), Goes(p, "presence")
    PROVE  StartupOver(p, AfterStartup(p, delay))
<1> DEFINE q == AfterStartup(p, delay)
<1>1. "presence" \in Kinds \ {"price"} /\ "price" \in Kinds
      /\ \A k \in Kinds : k = "price" \/ k \in Kinds \ {"price"}
  BY KindsShape
<1>2. ASSUME q = p, Goes(p, "price") PROVE StartupOver(p, q)
  <2>1. Runs(p)
    BY <1>2, KindsShape DEF Runs
  <2> QED
    BY <1>2, <2>1 DEF StartupOver
<1>3. CASE p.handle["price"] # None
  <2>1. q = p
    BY <1>3 DEF AfterStartup
  <2>2. Goes(p, "price")
    BY <1>1, <1>3 DEF Goes, Ready, Sound
  <2> QED
    BY <1>2, <2>1, <2>2
<1>4. CASE p.handle["price"] = None /\ delay = None /\ Busy(p, "price")
  <2>1. q = p
    BY <1>4 DEF AfterStartup, Poll, Busy
  <2>2. Goes(p, "price")
    BY <1>4 DEF Goes
  <2> QED
    BY <1>2, <2>1, <2>2
<1>5. CASE p.handle["price"] = None /\ delay = None /\ ~ Busy(p, "price")
  <2>1. q = Poll(p, "price", FALSE)
    BY <1>5 DEF AfterStartup
  <2> HIDE DEF q
  <2>2. RequestMade(p, q, "price", FALSE) /\ RequestHelps(p, q, "price", FALSE)
    BY <1>1, <1>5, <2>1, Asks, AsksRun
  <2>3. /\ Sound(q) /\ q.running /\ q.hidden = p.hidden /\ q.generation = p.generation
        /\ q.outbox = p.outbox /\ q.worker["presence"] = p.worker["presence"]
    BY <1>1, <2>2 DEF RequestMade
  <2>4. Runs(q)
    <3>1. Ready(q, "price") /\ Goes(q, "price")
      BY <2>2 DEF RequestHelps
    <3>2. Ready(q, "presence") /\ Goes(q, "presence")
      BY <1>1, <2>2 DEF RequestHelps
    <3> QED
      BY <3>1, <3>2, KindsShape DEF Runs
  <2>5. \A h \in Nat : Due(p, h) => Due(q, h)
    BY <2>2 DEF RequestHelps
  <2>6. Neat(p) => Neat(q)
    BY <2>2 DEF RequestHelps
  <2>7. StartupOver(p, q)
    BY <2>3, <2>4, <2>5, <2>6 DEF StartupOver
  <2> QED
    BY <2>7 DEF q
<1>6. CASE p.handle["price"] = None /\ delay # None
  <2>1. q = SetTimer(p, "price", delay) /\ delay \in Nat /\ delay <= Cadence
    BY <1>6 DEF AfterStartup
  <2> HIDE DEF q
  <2>2. TimerSet(p, q, "price", delay) /\ TimerHelps(p, q, "price", delay)
    BY <1>1, <2>1, Sets, SetsRun
  <2>3. /\ Sound(q) /\ q.running /\ q.hidden = p.hidden /\ q.generation = p.generation
        /\ q.outbox = p.outbox /\ q.worker["presence"] = p.worker["presence"]
    BY <2>2 DEF TimerSet
  <2>4. Runs(q)
    <3>1. Ready(q, "price") /\ Goes(q, "price")
      BY <2>2 DEF TimerHelps
    <3>2. Ready(q, "presence") /\ Goes(q, "presence")
      BY <1>1, <2>2 DEF TimerHelps
    <3> QED
      BY <3>1, <3>2, KindsShape DEF Runs
  <2>5. \A h \in Nat : Due(p, h) => Due(q, h)
    BY <2>2 DEF TimerHelps
  <2>6. ~ Armed(p, "price")
    BY <1>6, TimerMapFacts, DashboardDurations DEF Armed, Sound, TabPages
  <2>7. Neat(p) /\ ~ Busy(p, "price") => Neat(q)
    BY <2>2, <2>6 DEF TimerHelps
  <2>8. StartupOver(p, q)
    BY <2>3, <2>4, <2>5, <2>7 DEF StartupOver
  <2> QED
    BY <2>8 DEF q
<1> QED
  BY <1>3, <1>4, <1>5, <1>6

(* A page that was not running starts.                                     *)
LEMMA Starts ==
    ASSUME now \in Nat, NEW p, Sound(p), ~ p.running, ~ p.hidden
    PROVE  LET q == Started(p) IN
           /\ Sound(q) /\ q.running /\ ~ q.hidden /\ Runs(q) /\ Due(q, now)
           /\ \A m \in q.outbox : m \in p.outbox \/ (m.active /\ m.sent = now)
           /\ Neat(p) /\ (\A k \in Kinds : ~ Busy(p, k)) => Tidy(q)
           /\ q.generation = p.generation + 1
<1> DEFINE q == Started(p)
           r == [p EXCEPT !.running = TRUE, !.generation = p.generation + 1]
<1>1. p \in TabPages /\ p.generation \in Nat /\ p.generation + 1 \in Nat
  BY DEF Sound, TabPages
<1>2. q = IF r.worker["presence"].busy THEN AfterStartup(r, None) ELSE Poll(r, "presence", TRUE)
  BY <1>1 DEF Started, TabPages
<1>3. /\ r \in TabPages /\ r.running /\ r.hidden = p.hidden
      /\ r.generation = p.generation + 1 /\ r.worker = p.worker /\ r.handle = p.handle
      /\ r.timers = p.timers /\ r.outbox = p.outbox
  <2> DEFINE generation == p.generation + 1
  <2>1. generation \in Nat /\ r = [p EXCEPT !.running = TRUE, !.generation = generation]
    BY <1>1
  <2> HIDE DEF generation, r
  <2>2. /\ r \in TabPages /\ r.running /\ r.hidden = p.hidden
        /\ r.generation = generation /\ r.worker = p.worker /\ r.handle = p.handle
        /\ r.timers = p.timers /\ r.outbox = p.outbox
    BY <1>1, <2>1 DEF TabPages
  <2> QED
    BY <2>2 DEF generation
<1> HIDE DEF r, q
<1>4. /\ \A k \in Kinds : p.handle[k] = None
      /\ \A k \in Kinds : Busy(r, k) <=> Busy(p, k)
      /\ \A k \in Kinds : Armed(r, k) <=> Armed(p, k)
  BY <1>3 DEF Sound, Busy, Armed
<1>5. Sound(r)
  <2>1. \A k \in Kinds :
           \/ r.worker[k] = Idle
           \/ /\ Busy(r, k) /\ r.worker[k].owner \in 1 .. r.generation
              /\ r.worker[k].since <= now /\ now <= r.worker[k].since + Timeout[k]
    BY <1>1, <1>3, <1>4 DEF Sound
  <2>2. \A k \in Kinds : Armed(r, k) => r.timers[r.handle[k]].kind = k
    BY <1>3, <1>4 DEF Sound
  <2>3. r.generation # 0
    BY <1>1, <1>3
  <2> QED
    BY <1>3, <2>1, <2>2, <2>3 DEF Sound
<1>6. ~ Starting(r)
  <2>1. CASE r.worker["presence"] = Idle
    BY <2>1 DEF Starting, Idle
  <2>2. CASE p.worker["presence"].owner \in 1 .. p.generation
    BY <1>1, <1>3, <2>2 DEF Starting
  <2> QED
    BY <1>3, <2>1, <2>2, KindsShape DEF Sound
<1>7. \A k \in Kinds : Ready(r, k)
  BY <1>3, <1>4 DEF Ready
<1>8. Neat(p) => Neat(r)
  BY <1>3, <1>4 DEF Neat
<1>9. CASE Busy(r, "presence")
  <2>1. q = AfterStartup(r, None)
    BY <1>2, <1>9 DEF Busy
  <2>2. Goes(r, "presence")
    BY <1>9 DEF Goes
  <2>3. StartupOver(r, q)
    BY <1>3, <1>5, <1>7, <2>1, <2>2, StartupEnds
  <2>4. Due(r, now)
    <3>1. r.worker["presence"] # Idle
      BY <1>9 DEF Busy, Idle
    <3> QED
      BY <1>5, <1>9, <3>1, KindsShape DEF Due, Sound
  <2>5. Due(q, now)
    BY <2>3, <2>4 DEF StartupOver
  <2>6. Sound(q) /\ q.running /\ ~ q.hidden /\ Runs(q) /\ q.generation = p.generation + 1
    BY <1>3, <2>3 DEF StartupOver
  <2>7. \A m \in q.outbox : m \in p.outbox
    BY <1>3, <2>3 DEF StartupOver
  <2>8. ~ (\A k \in Kinds : ~ Busy(p, k))
    BY <1>4, <1>9, KindsShape
  <2> QED
    BY <2>5, <2>6, <2>7, <2>8 DEF q
<1>10. CASE ~ Busy(r, "presence")
  <2>1. q = Poll(r, "presence", TRUE)
    BY <1>2, <1>10 DEF Busy
  <2>2. "presence" \in Kinds /\ TRUE \in BOOLEAN
    BY KindsShape
  <2>3. RequestMade(r, q, "presence", TRUE) /\ RequestHelps(r, q, "presence", TRUE)
    BY <1>3, <1>5, <1>10, <2>1, <2>2, Asks, AsksRun
  <2>4. /\ Sound(q) /\ q.running /\ ~ q.hidden /\ q.generation = p.generation + 1
        /\ q.outbox = p.outbox \union {Message(TRUE, r.generation)}
        /\ q.worker["price"] = p.worker["price"] /\ q.handle["price"] = None
    BY <1>3, <1>4, <2>3, KindsShape DEF RequestMade
  <2>5. Starting(q) /\ Due(q, now)
    BY <2>3 DEF RequestHelps
  <2>6. Runs(q)
    <3>1. Ready(q, "presence") /\ Goes(q, "presence") /\ Ready(q, "price")
      BY <1>7, <2>3, KindsShape DEF RequestHelps
    <3>2. Goes(q, "price")
      BY <2>5 DEF Goes
    <3> QED
      BY <3>1, <3>2, KindsShape DEF Runs
  <2>7. Neat(p) /\ (\A k \in Kinds : ~ Busy(p, k)) => Tidy(q)
    <3>1. Neat(p) => Neat(q)
      BY <1>8, <2>3 DEF RequestHelps
    <3>2. Busy(q, "price") <=> Busy(p, "price")
      BY <2>4 DEF Busy
    <3> QED
      BY <2>4, <3>1, <3>2, KindsShape DEF Tidy
  <2>8. \A m \in q.outbox : m \in p.outbox \/ (m.active /\ m.sent = now)
    BY <2>4 DEF Message
  <2> QED
    BY <2>4, <2>5, <2>6, <2>7, <2>8 DEF q
<1> QED
  BY <1>9, <1>10

(* A page that was running stops, and its beacon is under way.             *)
LEMMA Stops ==
    ASSUME now \in Nat, NEW p, Sound(p), p.running
    PROVE  LET q == Stopped(p) IN
           /\ Sound(q) /\ ~ q.running /\ q.hidden = p.hidden
           /\ q.generation = p.generation + 1
           /\ q.outbox = p.outbox \union {Message(FALSE, p.generation + 1)}
           /\ Neat(p) => Tidy(q)
<1> DEFINE q == Stopped(p)
           generation == p.generation + 1
           r == [p EXCEPT !.running = FALSE, !.generation = generation]
           s == ClearTimer(r, "presence")
           t == ClearTimer(s, "price")
           beacon == Message(FALSE, generation)
<1>1. p \in TabPages /\ p.generation \in Nat /\ generation \in Nat
  BY DEF Sound, TabPages
<1>2. q = [t EXCEPT !.outbox = @ \union {Message(FALSE, r.generation)}]
  BY DEF Stopped
<1> HIDE DEF generation
<1>3. /\ r \in TabPages /\ ~ r.running /\ r.hidden = p.hidden
      /\ r.generation = generation /\ r.worker = p.worker /\ r.handle = p.handle
      /\ r.timers = p.timers /\ r.outbox = p.outbox
  BY <1>1 DEF TabPages
<1> HIDE DEF r
<1>4. /\ s \in TabPages /\ s.running = r.running /\ s.hidden = r.hidden
      /\ s.generation = r.generation /\ s.worker = r.worker /\ s.outbox = r.outbox
      /\ s.handle["presence"] = None /\ s.handle["price"] = r.handle["price"]
      /\ DOMAIN s.timers = DOMAIN r.timers \ {r.handle["presence"]}
      /\ \A i \in DOMAIN s.timers : s.timers[i] = r.timers[i]
  BY <1>3, Clears, KindsShape
<1> HIDE DEF s
<1>5. /\ t \in TabPages /\ t.running = s.running /\ t.hidden = s.hidden
      /\ t.generation = s.generation /\ t.worker = s.worker /\ t.outbox = s.outbox
      /\ t.handle["price"] = None /\ t.handle["presence"] = s.handle["presence"]
      /\ DOMAIN t.timers = DOMAIN s.timers \ {s.handle["price"]}
      /\ \A i \in DOMAIN t.timers : t.timers[i] = s.timers[i]
  BY <1>4, Clears, KindsShape
<1> HIDE DEF t
<1>6. beacon \in Messages /\ beacon.sent = now /\ p.outbox \subseteq Messages
  BY <1>1 DEF Message, Messages, TabPages
<1>7. q = [t EXCEPT !.outbox = p.outbox \union {beacon}]
  BY <1>2, <1>3, <1>4, <1>5
<1> HIDE DEF q, beacon
<1>8. /\ q \in TabPages /\ ~ q.running /\ q.hidden = p.hidden /\ q.generation = generation
      /\ q.worker = p.worker /\ q.outbox = p.outbox \union {beacon}
      /\ q.handle = t.handle /\ q.timers = t.timers
  BY <1>3, <1>4, <1>5, <1>6, <1>7 DEF TabPages
<1>9. \A k \in Kinds : q.handle[k] = None
  BY <1>4, <1>5, <1>8, KindsShape
<1>10. /\ DOMAIN q.timers = (DOMAIN p.timers \ {p.handle["presence"]}) \ {p.handle["price"]}
       /\ \A i \in DOMAIN q.timers : q.timers[i] = p.timers[i]
  BY <1>3, <1>4, <1>5, <1>8
<1>11. \A k \in Kinds : ~ Armed(q, k)
  BY <1>8, <1>9, TimerMapFacts, DashboardDurations DEF Armed, TabPages
<1>12. /\ \A k \in Kinds :
            \/ q.worker[k] = Idle
            \/ /\ Busy(q, k) /\ q.worker[k].owner \in 1 .. p.generation
               /\ q.worker[k].since <= now /\ now <= q.worker[k].since + Timeout[k]
       /\ 1 .. p.generation \subseteq 1 .. q.generation
  BY <1>1, <1>8 DEF Sound, Busy, generation
<1>13. ~ Starting(q)
  <2>1. CASE q.worker["presence"] = Idle
    BY <2>1 DEF Starting, Idle
  <2>2. CASE q.worker["presence"].owner \in 1 .. p.generation
    BY <1>1, <1>8, <2>2 DEF Starting, generation
  <2> QED
    BY <1>12, <2>1, <2>2, KindsShape
<1>14. \A m \in q.outbox : m.sent <= now /\ now <= m.sent + MaxDelay
  <2>1. now <= now + MaxDelay
    BY DashboardDurations
  <2>2. ASSUME NEW m \in p.outbox PROVE m.sent <= now /\ now <= m.sent + MaxDelay
    BY DEF Sound
  <2>3. ASSUME NEW m, m = beacon PROVE m.sent <= now /\ now <= m.sent + MaxDelay
    <3>1. m.sent = now
      BY <1>6, <2>3
    <3> QED
      BY <2>1, <3>1
  <2> QED
    BY <1>8, <2>2, <2>3
<1>15. Sound(q)
  <2>1. \A i \in DOMAIN q.timers : now <= q.timers[i].due /\ q.timers[i].due <= now + Cadence
    BY <1>10 DEF Sound
  <2> QED
    BY <1>8, <1>9, <1>11, <1>12, <1>13, <1>14, <2>1 DEF Sound
<1>16. ASSUME Neat(p) PROVE Tidy(q)
  <2>1. ASSUME NEW i \in DOMAIN q.timers PROVE FALSE
    <3>1. /\ i \in DOMAIN p.timers /\ p.handle[p.timers[i].kind] = i
          /\ i # p.handle["presence"] /\ i # p.handle["price"]
      BY <1>10, <1>16 DEF Neat
    <3>2. p.timers[i].kind \in Kinds
      BY <1>1, <3>1, TimerMapFacts DEF TabPages, Timers
    <3> QED
      BY <3>1, <3>2, KindsShape
  <2> QED
    BY <1>9, <1>13, <2>1 DEF Tidy, Neat
<1> QED
  BY <1>8, <1>15, <1>16 DEF q, beacon, generation

(* A request settles.                                                      *)
Concludes(p, q) ==
    /\ Sound(q) /\ q.running = p.running /\ q.hidden = p.hidden
    /\ q.generation = p.generation /\ q.outbox = p.outbox
    /\ Runs(q)
    /\ Tidy(p) => Tidy(q)
    /\ p.running => \A h \in Nat : Due(p, h) => Due(q, h)

LEMMA Settles ==
    ASSUME now \in Nat, NEW p, Sound(p), Runs(p), NEW k \in Kinds, Busy(p, k), NEW delay,
           delay = None \/ (delay \in Nat /\ delay <= Cadence)
    PROVE  Concludes(p, Settled(p, k, delay))
<1> DEFINE q == Settled(p, k, delay)
           w == p.worker[k]
           current == w.owner = p.generation
           idle == [p EXCEPT !.worker[k] = Idle]
           pause == IF current THEN Cadence ELSE 0
           next == IF p.running THEN SetTimer(idle, k, pause) ELSE idle
<1>1. p \in TabPages /\ Idle \in Workers /\ pause \in Nat /\ pause <= Cadence
  BY DashboardDurations DEF Sound, TabPages, Idle, Workers
<1>2. q = IF w.include /\ current THEN AfterStartup(next, delay) ELSE next
  BY DEF Settled
<1>3. /\ idle \in TabPages /\ idle.running = p.running /\ idle.hidden = p.hidden
      /\ idle.generation = p.generation /\ idle.outbox = p.outbox
      /\ idle.worker[k] = Idle /\ \A j \in Kinds \ {k} : idle.worker[j] = p.worker[j]
      /\ idle.handle = p.handle /\ idle.timers = p.timers
  BY <1>1 DEF TabPages
<1> HIDE DEF idle, q
<1>4. ~ Busy(idle, k) /\ \A j \in Kinds \ {k} : Busy(idle, j) <=> Busy(p, j)
  BY <1>3 DEF Busy, Idle
<1>5. \A j \in Kinds : Armed(idle, j) <=> Armed(p, j)
  BY <1>3 DEF Armed
<1>6. /\ k = "presence" => ~ Starting(idle) /\ (Starting(p) <=> w.include /\ current)
      /\ k = "price" => (Starting(idle) <=> Starting(p))
  BY <1>3, KindsShape DEF Starting, Idle
<1>7. Sound(idle)
  <2>1. \A j \in Kinds :
           \/ idle.worker[j] = Idle
           \/ /\ Busy(idle, j) /\ idle.worker[j].owner \in 1 .. idle.generation
              /\ idle.worker[j].since <= now /\ now <= idle.worker[j].since + Timeout[j]
    BY <1>3, <1>4 DEF Sound
  <2>2. \A j \in Kinds : Armed(idle, j) => idle.timers[idle.handle[j]].kind = j
    BY <1>3, <1>5 DEF Sound
  <2>3. ~ idle.running => ~ Starting(idle) /\ \A j \in Kinds : idle.handle[j] = None
    BY <1>3, <1>6, KindsShape DEF Sound
  <2> QED
    BY <1>3, <2>1, <2>2, <2>3 DEF Sound
<1>8. Neat(p) => Neat(idle) /\ ~ Armed(idle, k)
  <2> SUFFICES ASSUME Neat(p) PROVE Neat(idle) /\ ~ Armed(idle, k)
    OBVIOUS
  <2>1. Neat(idle)
    BY <1>3, <1>4 DEF Neat
  <2>2. idle.handle[k] = None
    BY <1>3 DEF Neat
  <2> QED
    BY <1>3, <2>1, <2>2, TimerMapFacts, DashboardDurations DEF Armed, TabPages
<1>9. CASE ~ p.running
  <2>1. q = idle
    <3>1. next = idle
      BY <1>9
    <3>2. AfterStartup(idle, delay) = idle
      BY <1>3, <1>9 DEF AfterStartup
    <3> QED
      BY <1>2, <3>1, <3>2
  <2>2. Runs(idle)
    BY <1>3, <1>9 DEF Runs
  <2>3. ~ Starting(idle)
    BY <1>3, <1>7, <1>9 DEF Sound
  <2>4. Tidy(p) => Tidy(idle)
    BY <1>8, <2>3 DEF Tidy
  <2>5. Concludes(p, q)
    BY <1>3, <1>7, <1>9, <2>1, <2>2, <2>4 DEF Concludes
  <2> QED
    BY <2>5 DEF q
<1>10. CASE p.running
  <2>1. next = SetTimer(idle, k, pause)
    BY <1>10
  <2>2. idle.running
    BY <1>3, <1>10
  <2> HIDE DEF next, pause
  <2>3. TimerSet(idle, next, k, pause) /\ TimerHelps(idle, next, k, pause)
    BY <1>1, <1>7, <2>1, <2>2, Sets, SetsRun
  <2>4. /\ Sound(next) /\ next.running /\ next.hidden = p.hidden
        /\ next.generation = p.generation /\ next.outbox = p.outbox
        /\ next.worker = idle.worker
    BY <1>3, <2>3 DEF TimerSet
  <2>5. /\ Ready(next, k) /\ Goes(next, k)
        /\ \A j \in Kinds \ {k} : /\ Ready(idle, j) => Ready(next, j)
                                  /\ Goes(idle, j) => Goes(next, j)
    BY <2>3 DEF TimerHelps
  <2>6. \A j \in Kinds \ {k} : Ready(idle, j)
    BY <1>3, <1>4, <1>5, <1>10 DEF Runs, Ready
  <2>7. \A j \in Kinds : Ready(next, j)
    BY <2>5, <2>6
  <2>8. (Starting(p) => Starting(idle)) =>
          \A j \in Kinds \ {k} : Goes(idle, j)
    BY <1>3, <1>4, <1>5, <1>10 DEF Runs, Goes
  <2>9. Goes(next, "presence")
    <3>1. CASE k = "presence"
      BY <2>5, <3>1
    <3>2. CASE k = "price"
      <4>1. Goes(idle, "presence")
        BY <1>6, <2>8, <3>2, KindsShape
      <4> QED
        BY <2>5, <3>2, <4>1, KindsShape
    <3> QED
      BY <3>1, <3>2, KindsShape
  <2>10. Neat(p) => Neat(next)
    BY <1>4, <1>8, <2>3 DEF TimerHelps
  <2>11. ASSUME NEW h \in Nat, Due(p, h) PROVE Due(next, h)
    <3>1. CASE k = "price"
      <4>1. idle.worker["presence"] = p.worker["presence"]
        BY <1>3, <3>1, KindsShape
      <4>2. Due(idle, h)
        BY <1>3, <1>4, <1>5, <2>11, <3>1, <4>1, KindsShape DEF Due
      <4> QED
        BY <2>3, <3>1, <4>2 DEF TimerHelps
    <3>2. CASE k = "presence"
      <4>1. /\ p.worker["presence"] \in Workers
            /\ p.worker["presence"] # Idle
        BY <1>1, <3>2, KindsShape DEF TabPages, Busy, Idle
      <4>2. /\ p.worker["presence"].since \in Nat
            /\ now <= p.worker["presence"].since + PresenceTimeout
        BY <4>1, KindsShape DEF Sound, Workers
      <4>3. CASE p.worker["presence"].since <= h
        <5>1. now + pause <= h + PresenceTimeout + Cadence
          BY <1>1, <4>2, <4>3, DashboardDurations
        <5> QED
          BY <1>4, <2>3, <3>2, <5>1 DEF TimerHelps
      <4> QED
        BY <2>11, <3>2, <4>3 DEF Due
    <3> QED
      BY <3>1, <3>2, KindsShape
  <2>12. CASE w.include /\ current /\ k = "presence"
    <3>1. q = AfterStartup(next, delay)
      BY <1>2, <2>12
    <3>2. StartupOver(next, q)
      BY <2>4, <2>7, <2>9, <3>1, StartupEnds
    <3>3. /\ Sound(q) /\ q.running = p.running /\ q.hidden = p.hidden
          /\ q.generation = p.generation /\ q.outbox = p.outbox /\ Runs(q)
          /\ q.worker["presence"] = next.worker["presence"]
      BY <1>10, <2>4, <3>2 DEF StartupOver
    <3>4. ASSUME Tidy(p) PROVE Tidy(q)
      <4>1. Starting(p) /\ Neat(next) /\ ~ Busy(p, "price")
        BY <1>6, <2>10, <2>12, <3>4 DEF Tidy
      <4>2. ~ Busy(next, "price")
        BY <1>4, <2>4, <2>12, <4>1, KindsShape DEF Busy
      <4>3. Neat(q)
        BY <3>2, <4>1, <4>2 DEF StartupOver
      <4>4. ~ Starting(q)
        BY <1>3, <2>4, <2>12, <3>3 DEF Starting, Idle
      <4> QED
        BY <4>3, <4>4 DEF Tidy
    <3>5. \A h \in Nat : Due(p, h) => Due(q, h)
      BY <2>11, <3>2 DEF StartupOver
    <3>6. Concludes(p, q)
      BY <3>3, <3>4, <3>5 DEF Concludes
    <3> QED
      BY <3>6 DEF q
  <2>13. CASE ~ (w.include /\ current /\ k = "presence")
    <3>1. q = next
      <4>1. k = "price" => next.handle["price"] # None
        BY <2>3 DEF TimerSet
      <4>2. k = "price" => AfterStartup(next, delay) = next
        BY <4>1 DEF AfterStartup
      <4> QED
        BY <1>2, <2>13, <4>2, KindsShape
    <3>2. k = "presence" => ~ Starting(p)
      BY <1>6, <2>13
    <3>3. Starting(next) => Starting(p) /\ k = "price"
      <4>1. Starting(next) <=> Starting(idle)
        BY <1>3, <2>4 DEF Starting
      <4> QED
        BY <1>6, <4>1, KindsShape
    <3>4. \A j \in Kinds : Goes(next, j)
      BY <1>6, <2>5, <2>8, <3>2, KindsShape
    <3>5. Runs(next)
      BY <2>7, <3>4 DEF Runs
    <3>6. ASSUME Tidy(p) PROVE Tidy(next)
      <4>1. Neat(next)
        BY <2>10, <3>6 DEF Tidy
      <4>2. ~ Starting(next)
        BY <3>3, <3>6 DEF Tidy
      <4> QED
        BY <4>1, <4>2 DEF Tidy
    <3>7. Concludes(p, q)
      BY <1>10, <2>4, <2>11, <3>1, <3>5, <3>6 DEF Concludes
    <3> QED
      BY <3>7 DEF q
  <2> QED
    BY <2>12, <2>13
<1> QED
  BY <1>9, <1>10
-----------------------------------------------------------------------------
(* The handlers of the page.                                               *)

(* q is p but for its visibility, lost messages and answered requests.     *)
Alike(p, q) ==
    /\ q \in TabPages /\ q.running = p.running /\ q.generation = p.generation
    /\ q.handle = p.handle /\ q.timers = p.timers /\ q.outbox \subseteq p.outbox
    /\ \A k \in Kinds : /\ p.worker[k] = Idle => q.worker[k] = Idle
                        /\ q.worker[k].busy = p.worker[k].busy
                        /\ q.worker[k].owner = p.worker[k].owner
                        /\ q.worker[k].include = p.worker[k].include
                        /\ q.worker[k].since = p.worker[k].since

LEMMA AlikePages ==
    ASSUME NEW p, NEW q, Sound(p), Alike(p, q)
    PROVE  /\ Sound(q) /\ (Runs(p) => Runs(q)) /\ (Tidy(p) => Tidy(q))
           /\ \A h : Due(p, h) => Due(q, h)
<1>1. /\ \A k \in Kinds : Busy(q, k) <=> Busy(p, k)
      /\ \A k \in Kinds : Armed(q, k) <=> Armed(p, k)
  BY DEF Alike, Busy, Armed
<1>2. Starting(q) <=> Starting(p)
  BY KindsShape DEF Alike, Starting
<1>3. Sound(q)
  <2>1. \A k \in Kinds :
           \/ q.worker[k] = Idle
           \/ /\ Busy(q, k) /\ q.worker[k].owner \in 1 .. q.generation
              /\ q.worker[k].since <= now /\ now <= q.worker[k].since + Timeout[k]
    BY <1>1 DEF Sound, Alike
  <2>2. \A k \in Kinds : Armed(q, k) => q.timers[q.handle[k]].kind = k
    BY <1>1 DEF Sound, Alike
  <2>3. \A i \in DOMAIN q.timers : now <= q.timers[i].due /\ q.timers[i].due <= now + Cadence
    BY DEF Sound, Alike
  <2>4. \A m \in q.outbox : m.sent <= now /\ now <= m.sent + MaxDelay
    BY DEF Sound, Alike
  <2>5. /\ q.running => q.generation # 0
        /\ ~ q.running => ~ Starting(q) /\ \A k \in Kinds : q.handle[k] = None
    BY <1>2 DEF Sound, Alike
  <2> QED
    BY <2>1, <2>2, <2>3, <2>4, <2>5 DEF Sound, Alike
<1>4. Runs(p) => Runs(q)
  BY <1>1, <1>2 DEF Alike, Runs, Ready, Goes
<1>5. Tidy(p) => Tidy(q)
  BY <1>1, <1>2, KindsShape DEF Alike, Tidy, Neat
<1>6. \A h : Due(p, h) => Due(q, h)
  BY <1>1, KindsShape DEF Alike, Due
<1> QED
  BY <1>3, <1>4, <1>5, <1>6

LEMMA Shows ==
    ASSUME NEW p, Sound(p), NEW hidden \in BOOLEAN
    PROVE  LET q == [p EXCEPT !.hidden = hidden] IN
           Alike(p, q) /\ q.hidden = hidden /\ q.outbox = p.outbox
  BY DEF Sound, TabPages, Alike

(* A timer of kind k goes off.                                             *)
Disarmed(p, i) == [p EXCEPT !.timers = Without(p.timers, i)]

LEMMA Disarms ==
    ASSUME NEW p, Sound(p), NEW i \in DOMAIN p.timers, NEW k \in Kinds,
           p.timers[i].kind = k
    PROVE  LET r == Disarmed(p, i) IN
           /\ Sound(r) /\ r.running = p.running /\ r.hidden = p.hidden
           /\ r.generation = p.generation /\ r.worker = p.worker
           /\ r.handle = p.handle /\ r.outbox = p.outbox
           /\ \A j \in Kinds \ {k} : Armed(p, j) =>
                Armed(r, j) /\ r.timers[r.handle[j]] = p.timers[p.handle[j]]
           /\ Neat(p) => Neat(r) /\ p.handle[k] = i
<1> DEFINE timers == Without(p.timers, i)
           r == Disarmed(p, i)
<1>1. /\ timers \in TimerMaps /\ DOMAIN timers = DOMAIN p.timers \ {i}
      /\ \A j \in DOMAIN timers : timers[j] = p.timers[j]
  BY WithoutShape DEF Sound, TabPages
<1>2. r = [p EXCEPT !.timers = timers] /\ p \in TabPages
  BY DEF Disarmed, Sound
<1> HIDE DEF timers, r
<1>3. /\ r \in TabPages /\ r.running = p.running /\ r.hidden = p.hidden
      /\ r.generation = p.generation /\ r.worker = p.worker
      /\ r.handle = p.handle /\ r.outbox = p.outbox /\ r.timers = timers
  BY <1>1, <1>2 DEF TabPages
<1>4. /\ \A j \in Kinds : Busy(r, j) <=> Busy(p, j)
      /\ Starting(r) <=> Starting(p)
  BY <1>3 DEF Busy, Starting
<1>5. \A j \in Kinds : Armed(r, j) => Armed(p, j) /\ r.timers[r.handle[j]] = p.timers[p.handle[j]]
  BY <1>1, <1>3 DEF Armed
<1>6. \A j \in Kinds \ {k} : Armed(p, j) =>
        Armed(r, j) /\ r.timers[r.handle[j]] = p.timers[p.handle[j]]
  <2> SUFFICES ASSUME NEW j \in Kinds \ {k}, Armed(p, j) PROVE Armed(r, j)
    BY <1>5
  <2>1. p.handle[j] # i
    BY DEF Sound
  <2> QED
    BY <1>1, <1>3, <2>1 DEF Armed
<1>7. Sound(r)
  <2>1. \A j \in Kinds :
           \/ r.worker[j] = Idle
           \/ /\ Busy(r, j) /\ r.worker[j].owner \in 1 .. r.generation
              /\ r.worker[j].since <= now /\ now <= r.worker[j].since + Timeout[j]
    BY <1>3, <1>4 DEF Sound
  <2>2. \A j \in Kinds : Armed(r, j) => r.timers[r.handle[j]].kind = j
    BY <1>5 DEF Sound
  <2>3. \A j \in DOMAIN r.timers : now <= r.timers[j].due /\ r.timers[j].due <= now + Cadence
    BY <1>1, <1>3 DEF Sound
  <2> QED
    BY <1>3, <1>4, <2>1, <2>2, <2>3 DEF Sound
<1>8. Neat(p) => Neat(r) /\ p.handle[k] = i
  BY <1>1, <1>3, <1>4 DEF Neat
<1> QED
  BY <1>3, <1>6, <1>7, <1>8 DEF r

(* What the page is after that: a loop that was late may have asked.       *)
Fired(p, q) ==
    /\ Sound(q) /\ q.running = p.running /\ q.hidden = p.hidden
    /\ q.generation = p.generation /\ Runs(q)
    /\ Tidy(p) => Tidy(q)
    /\ \/ /\ q.outbox = p.outbox
          /\ p.running => \A h \in Nat : Due(p, h) => Due(q, h)
       \/ /\ p.running /\ Due(q, now)
          /\ q.outbox = p.outbox \union {Message(TRUE, p.generation)}

LEMMA Fires ==
    ASSUME now \in Nat, NEW p, Sound(p), Runs(p), NEW i \in DOMAIN p.timers,
           NEW k \in Kinds, p.timers[i].kind = k
    PROVE  Fired(p, Poll(Disarmed(p, i), k, FALSE))
<1> DEFINE r == Disarmed(p, i)
           q == Poll(r, k, FALSE)
<1>1. /\ Sound(r) /\ r.running = p.running /\ r.hidden = p.hidden
      /\ r.generation = p.generation /\ r.worker = p.worker
      /\ r.handle = p.handle /\ r.outbox = p.outbox
      /\ \A j \in Kinds \ {k} : Armed(p, j) =>
           Armed(r, j) /\ r.timers[r.handle[j]] = p.timers[p.handle[j]]
      /\ Neat(p) => Neat(r) /\ p.handle[k] = i
  BY Disarms
<1> HIDE DEF r
<1>2. /\ \A j \in Kinds : Busy(r, j) <=> Busy(p, j)
      /\ Starting(r) <=> Starting(p)
  BY <1>1 DEF Busy, Starting
<1>3. Tidy(p) => Tidy(r)
  BY <1>1, <1>2, KindsShape DEF Tidy
<1>4. p.running => \A j \in Kinds \ {k} : Ready(r, j) /\ Goes(r, j)
  BY <1>1, <1>2 DEF Runs, Ready, Goes
<1>5. ASSUME k = "price" \/ Busy(p, k), NEW h \in Nat, Due(p, h) PROVE Due(r, h)
  <2>1. CASE k = "price"
    BY <1>1, <1>2, <1>5, <2>1, KindsShape DEF Due
  <2>2. CASE k = "presence"
    BY <1>1, <1>2, <1>5, <2>2, KindsShape DEF Due
  <2> QED
    BY <2>1, <2>2, KindsShape
<1>6. CASE ~ p.running
  <2>1. q = r
    BY <1>1, <1>6 DEF Poll
  <2> HIDE DEF q
  <2>2. Runs(r)
    BY <1>1, <1>6 DEF Runs
  <2>3. Fired(p, q)
    BY <1>1, <1>3, <1>6, <2>1, <2>2 DEF Fired
  <2> QED
    BY <2>3 DEF q, r
<1>7. CASE p.running /\ Busy(p, k)
  <2>1. q = r
    BY <1>2, <1>7 DEF Poll, Busy
  <2> HIDE DEF q
  <2>2. Ready(r, k) /\ Goes(r, k)
    BY <1>2, <1>7 DEF Ready, Goes
  <2>3. Runs(r)
    BY <1>4, <1>7, <2>2 DEF Runs
  <2>4. Fired(p, q)
    BY <1>1, <1>3, <1>5, <1>7, <2>1, <2>3 DEF Fired
  <2> QED
    BY <2>4 DEF q, r
<1>8. CASE p.running /\ ~ Busy(p, k)
  <2> HIDE DEF q
  <2>1. RequestMade(r, q, k, FALSE) /\ RequestHelps(r, q, k, FALSE)
    BY <1>1, <1>2, <1>8, Asks, AsksRun DEF q
  <2>2. /\ Sound(q) /\ q.running /\ q.hidden = p.hidden /\ q.generation = p.generation
        /\ q.outbox = IF k = "presence" THEN p.outbox \union {Message(TRUE, p.generation)}
                                        ELSE p.outbox
    BY <1>1, <2>1 DEF RequestMade
  <2>3. Runs(q)
    <3>1. Ready(q, k) /\ Goes(q, k)
      BY <2>1 DEF RequestHelps
    <3>2. \A j \in Kinds \ {k} : Ready(q, j) /\ Goes(q, j)
      BY <1>4, <1>8, <2>1 DEF RequestHelps
    <3> QED
      BY <3>1, <3>2 DEF Runs
  <2>4. ASSUME Tidy(p) PROVE Tidy(q)
    <3>1. Neat(q)
      BY <1>3, <2>1, <2>4 DEF Tidy, RequestHelps
    <3>2. p.handle[k] = i /\ i # None
      BY <1>1, <2>4, TimerMapFacts, DashboardDurations DEF Tidy, Sound, TabPages
    <3>3. ~ Starting(q)
      <4>1. CASE k = "presence"
        BY <2>1, <4>1 DEF RequestHelps
      <4>2. CASE k = "price"
        BY <1>2, <2>1, <2>4, <3>2, <4>2 DEF RequestHelps, Tidy
      <4> QED
        BY <4>1, <4>2, KindsShape
    <3> QED
      BY <3>1, <3>3 DEF Tidy
  <2>5. CASE k = "presence"
    <3>1. Due(q, now)
      BY <2>1, <2>5 DEF RequestHelps
    <3>2. Fired(p, q)
      BY <1>8, <2>2, <2>3, <2>4, <2>5, <3>1 DEF Fired
    <3> QED
      BY <3>2 DEF q, r
  <2>6. CASE k = "price"
    <3>1. \A h \in Nat : Due(p, h) => Due(q, h)
      BY <1>5, <2>1, <2>6 DEF RequestHelps
    <3>2. Fired(p, q)
      BY <1>8, <2>2, <2>3, <2>4, <2>6, <3>1 DEF Fired
    <3> QED
      BY <3>2 DEF q, r
  <2> QED
    BY <2>5, <2>6, KindsShape
<1> QED
  BY <1>6, <1>7, <1>8

-----------------------------------------------------------------------------
(* The tab, the network and the server.                                    *)

Known(h) == Tab \in DOMAIN viewers /\ h <= viewers[Tab]
Sent(h) == \E m \in page.outbox : m.active /\ m.sent = h

(* A heartbeat at h is under way or the server knows of one that late, but *)
(* for the time after a disturbance.                                       *)
Reached(h) == h <= disturbed + MaxDelay \/ Sent(h) \/ Known(h)

TabTypes ==
    /\ now \in Nat /\ disturbed \in 0 .. now /\ left \in {None} \union 0 .. now
    /\ IsViewerMap(viewers, now) /\ DOMAIN viewers \subseteq {Tab}

PageInv == Sound(page) /\ Runs(page) /\ (~ overlapped => Tidy(page))

(* While the user is away, no heartbeat is sent.                           *)
AwayInv == left # None =>
    /\ ~ page.running
    /\ \A m \in page.outbox : m.active => m.sent <= left
    /\ \A s \in DOMAIN viewers : viewers[s] <= left + MaxDelay

(* While the user is here, the loop runs; beacons are of earlier periods.  *)
HereInv == left = None =>
    /\ page.running /\ ~ page.hidden
    /\ \A m \in page.outbox : ~ m.active => m.sent <= disturbed

(* The next heartbeat is due soon after one that reached the server.       *)
NextInTime == left = None => \E h \in 0 .. now : Reached(h) /\ Due(page, h)

(* A heartbeat followed each instant soon, undisturbed.                    *)
Follows(t) ==
    \/ \E m \in page.outbox :
         m.active /\ t < m.sent /\ m.sent <= t + PresenceTimeout + Cadence
    \/ Known(t + 1)

InTime == left = None =>
    \A t \in Nat :
        disturbed + MaxDelay <= t /\ t + PresenceTimeout + Cadence < now => Follows(t)

TabInv == TabTypes /\ PageInv /\ AwayInv /\ HereInv /\ NextInTime /\ InTime

LEMMA SamePage ==
    ASSUME now' = now
    PROVE  /\ Sound(page)' <=> Sound(page')
           /\ Runs(page)' <=> Runs(page')
           /\ Tidy(page)' <=> Tidy(page')
           /\ \A h : Due(page, h)' <=> Due(page', h)
<1>1. /\ \A k : Busy(page, k)' <=> Busy(page', k)
      /\ \A k : Armed(page, k)' <=> Armed(page', k)
      /\ Starting(page)' <=> Starting(page')
  BY DEF Busy, Armed, Starting
<1>2. Sound(page)' <=> Sound(page')
  BY <1>1 DEF Sound
<1>3. Runs(page)' <=> Runs(page')
  BY <1>1 DEF Runs, Ready, Goes
<1>4. Tidy(page)' <=> Tidy(page')
  BY <1>1 DEF Tidy, Neat
<1>5. \A h : Due(page, h)' <=> Due(page', h)
  BY <1>1 DEF Due
<1> QED
  BY <1>2, <1>3, <1>4, <1>5

(* A step of the page that forgets neither a heartbeat nor its successor.  *)
LEMMA OnTime ==
    ASSUME TabTypes, NextInTime, InTime, now' = now, disturbed' = disturbed,
           left = None, left' = None, viewers' = viewers,
           \/ /\ page'.outbox = page.outbox
              /\ \A h \in Nat : Due(page, h) => Due(page', h)
           \/ /\ Due(page', now)
              /\ page'.outbox = page.outbox \union {Message(TRUE, page.generation)}
    PROVE  NextInTime' /\ InTime'
<1>1. page.outbox \subseteq page'.outbox
  OBVIOUS
<1>2. /\ \A h : Known(h) => Known(h)'
      /\ \A h : Sent(h) => Sent(h)'
  BY <1>1 DEF Known, Sent
<1>3. \A h : Reached(h) => Reached(h)'
  BY <1>2 DEF Reached
<1>4. NextInTime'
  <2>1. CASE \A h \in Nat : Due(page, h) => Due(page', h)
    <3>1. PICK h \in 0 .. now : Reached(h) /\ Due(page, h)
      BY DEF NextInTime
    <3>2. h \in Nat /\ h \in 0 .. now'
      BY DEF TabTypes
    <3>3. Reached(h)' /\ Due(page, h)'
      BY <1>3, <2>1, <3>1, <3>2, SamePage
    <3> QED
      BY <3>2, <3>3 DEF NextInTime
  <2>2. CASE /\ Due(page', now)
             /\ page'.outbox = page.outbox \union {Message(TRUE, page.generation)}
    <3>1. Message(TRUE, page.generation).active /\ Message(TRUE, page.generation).sent = now
      BY DEF Message
    <3>2. \E m \in page'.outbox : m.active /\ m.sent = now
      BY <2>2, <3>1
    <3>3. \E h \in 0 .. now' : h = now
      BY DEF TabTypes
    <3>4. PICK h \in 0 .. now' : h = now
      BY <3>3
    <3>5. Sent(h)' /\ Due(page', h)
      BY <2>2, <3>2, <3>4 DEF Sent
    <3>6. Reached(h)' /\ Due(page, h)'
      BY <3>5, SamePage DEF Reached
    <3> QED
      BY <3>6 DEF NextInTime
  <2> QED
    BY <2>1, <2>2
<1>5. \A t : Follows(t) => Follows(t)'
  BY <1>1, <1>2 DEF Follows
<1>6. InTime'
  BY <1>5 DEF InTime
<1> QED
  BY <1>4, <1>6

(* After a disturbance nothing is asked yet but of the loop.               *)
LEMMA Afresh ==
    ASSUME now \in Nat, now' = now, disturbed' = now, NEW h \in 0 .. now,
           left' = None => Due(page', h)
    PROVE  NextInTime' /\ InTime'
<1>1. h \in 0 .. now' /\ Reached(h)'
  BY DashboardDurations DEF Reached
<1>2. left' = None => Due(page, h)'
  BY SamePage
<1>3. NextInTime'
  BY <1>1, <1>2 DEF NextInTime
<1>4. InTime'
  BY DashboardDurations DEF InTime
<1> QED
  BY <1>3, <1>4

(* The script starts in a page that is visible or not.                     *)
LEMMA TabInitially == Init => TabInv
<1> SUFFICES ASSUME Init PROVE TabInv
  OBVIOUS
<1>1. PICK hidden \in BOOLEAN : /\ page = Started(EmptyPage(hidden))
                                /\ left = IF hidden THEN 0 ELSE None
  BY DEF Init
<1> DEFINE p == EmptyPage(hidden)
           timers == [i \in {} |-> Idle]
<1>2. timers \in TimerMaps /\ DOMAIN timers = {}
  <2>1. IsFiniteSet({}) /\ {} \in SUBSET (Nat \ {0})
    BY FS_EmptySet
  <2>2. timers \in [{} -> Timers]
    OBVIOUS
  <2> QED
    BY <2>1, <2>2 DEF TimerMaps
<1>3. Idle \in Workers
  BY DEF Idle, Workers
<1>4. /\ p \in TabPages /\ ~ p.running /\ p.hidden = hidden /\ p.generation = 0
      /\ \A k \in Kinds : p.worker[k] = Idle /\ p.handle[k] = None
      /\ p.timers = timers /\ p.outbox = {}
  BY <1>2, <1>3 DEF EmptyPage, TabPages
<1> HIDE DEF p, timers
<1>5. /\ \A k \in Kinds : ~ Busy(p, k) /\ ~ Armed(p, k)
      /\ ~ Starting(p)
  BY <1>2, <1>4, KindsShape DEF Busy, Armed, Starting, Idle
<1>6. Sound(p) /\ Tidy(p) /\ Runs(p)
  BY <1>2, <1>4, <1>5 DEF Sound, Tidy, Neat, Runs
<1>7. now = 0 /\ viewers = NoViewers /\ disturbed = 0
  BY DEF Init, PresenceInit
<1>8. TabTypes
  BY <1>1, <1>7 DEF TabTypes, NoViewers, IsViewerMap
<1>9. CASE hidden
  <2>1. page = p /\ left = 0 /\ left # None
    BY <1>1, <1>4, <1>9, DashboardDurations DEF Started, p
  <2> QED
    BY <1>4, <1>6, <1>7, <1>8, <2>1, DashboardDurations
       DEF TabInv, PageInv, AwayInv, HereInv, NextInTime, InTime, NoViewers
<1>10. CASE ~ hidden
  <2>1. page = Started(p) /\ left = None
    BY <1>1, <1>10 DEF p
  <2>2. /\ Sound(page) /\ page.running /\ ~ page.hidden /\ Runs(page) /\ Due(page, now)
        /\ \A m \in page.outbox : m \in p.outbox \/ (m.active /\ m.sent = now)
        /\ Tidy(page)
    BY <1>4, <1>5, <1>6, <1>7, <1>10, <2>1, Starts DEF Tidy
  <2>3. AwayInv /\ HereInv
    BY <1>4, <2>1, <2>2 DEF AwayInv, HereInv
  <2>4. NextInTime
    BY <1>7, <2>2, DashboardDurations DEF NextInTime, Reached
  <2>5. InTime
    BY <1>7, DashboardDurations DEF InTime
  <2> QED
    BY <1>8, <2>2, <2>3, <2>4, <2>5 DEF TabInv, PageInv
<1> QED
  BY <1>9, <1>10

(* The user leaves: the page stops if it ran.                              *)
LEMMA TabLeaves ==
    ASSUME TabInv, Leaves, NEW p, Alike(page, p), p.outbox = page.outbox,
           page' = Stopped(p)
    PROVE  TabInv'
<1>1. /\ now' = now /\ viewers' = viewers /\ disturbed' = disturbed
      /\ overlapped' = overlapped /\ left' = IF left = None THEN now ELSE left
  BY DEF Leaves, presenceVars
<1>2. /\ now \in Nat /\ now # None /\ disturbed \in 0 .. now
      /\ left \in {None} \union 0 .. now
      /\ IsViewerMap(viewers, now) /\ DOMAIN viewers \subseteq {Tab}
  BY DashboardDurations DEF TabInv, TabTypes
<1>3. left' # None /\ left' \in 0 .. now
  BY <1>1, <1>2, DashboardDurations
<1>4. /\ Sound(p) /\ Runs(p) /\ (~ overlapped => Tidy(p)) /\ p.running = page.running
  BY AlikePages DEF TabInv, PageInv, Alike
<1>5. TabTypes'
  BY <1>1, <1>2, <1>3 DEF TabTypes
<1>6. HereInv' /\ NextInTime' /\ InTime'
  BY <1>3 DEF HereInv, NextInTime, InTime
<1>7. CASE page.running
  <2>1. /\ Sound(page') /\ ~ page'.running
        /\ page'.outbox = page.outbox \union {Message(FALSE, p.generation + 1)}
        /\ Neat(p) => Tidy(page')
    BY <1>2, <1>4, <1>7, Stops
  <2>2. Runs(page')
    BY <2>1 DEF Runs
  <2>3. PageInv'
    BY <1>1, <1>4, <2>1, <2>2, SamePage DEF PageInv, Tidy
  <2>4. left = None /\ left' = now
    BY <1>1, <1>7 DEF TabInv, AwayInv
  <2>5. AwayInv'
    <3>1. \A m \in page'.outbox : m.active => m \in page.outbox
      BY <2>1 DEF Message
    <3>2. \A m \in page'.outbox : m.active => m.sent <= left'
      BY <2>4, <3>1 DEF TabInv, PageInv, Sound
    <3>3. \A s \in DOMAIN viewers : viewers[s] <= now + MaxDelay
      BY <1>2, DashboardDurations DEF IsViewerMap
    <3> QED
      BY <1>1, <2>1, <2>4, <3>2, <3>3 DEF AwayInv
  <2> QED
    BY <1>5, <1>6, <2>3, <2>5 DEF TabInv
<1>8. CASE ~ page.running
  <2>1. page' = p
    BY <1>4, <1>8 DEF Stopped
  <2>2. PageInv'
    BY <1>1, <1>4, <2>1, SamePage DEF PageInv
  <2>3. left # None /\ left' = left
    BY <1>1, <1>8 DEF TabInv, HereInv
  <2>4. AwayInv'
    BY <1>1, <1>4, <1>8, <2>1, <2>3 DEF TabInv, AwayInv
  <2> QED
    BY <1>5, <1>6, <2>2, <2>4 DEF TabInv
<1> QED
  BY <1>7, <1>8

(* The user returns to a page that was not running.                        *)
LEMMA TabReturns ==
    ASSUME TabInv, Returns, left # None, NEW p, Alike(page, p), p.outbox = page.outbox,
           ~ p.hidden, page' = Started(p)
    PROVE  TabInv'
<1>1. /\ now' = now /\ viewers' = viewers
      /\ left' = IF page'.hidden THEN left ELSE None
      /\ disturbed' = IF page' = page THEN disturbed ELSE now
      /\ overlapped' = (overlapped \/ (page'.running /\ ~ page.running
                                       /\ \E k \in Kinds : page.worker[k].busy))
  BY DEF Returns, presenceVars
<1>2. /\ now \in Nat /\ now \in 0 .. now
      /\ IsViewerMap(viewers, now) /\ DOMAIN viewers \subseteq {Tab}
  BY DEF TabInv, TabTypes
<1>3. /\ Sound(p) /\ (~ overlapped => Tidy(p)) /\ ~ page.running /\ ~ p.running
      /\ \A k \in Kinds : Busy(p, k) <=> page.worker[k].busy
  BY AlikePages DEF TabInv, PageInv, AwayInv, Alike, Busy
<1>4. /\ Sound(page') /\ page'.running /\ ~ page'.hidden /\ Runs(page') /\ Due(page', now)
      /\ \A m \in page'.outbox : m \in p.outbox \/ (m.active /\ m.sent = now)
      /\ Neat(p) /\ (\A k \in Kinds : ~ Busy(p, k)) => Tidy(page')
  BY <1>2, <1>3, Starts
<1>5. left' = None /\ disturbed' = now
  BY <1>1, <1>3, <1>4
<1>6. TabTypes'
  BY <1>1, <1>2, <1>5 DEF TabTypes
<1>7. PageInv'
  <2>1. ~ overlapped' => Tidy(page')
    BY <1>1, <1>3, <1>4 DEF Tidy
  <2> QED
    BY <1>1, <1>4, <2>1, SamePage DEF PageInv
<1>8. AwayInv'
  BY <1>5 DEF AwayInv
<1>9. HereInv'
  <2>1. \A m \in page'.outbox : ~ m.active => m.sent <= now
    BY <1>4 DEF TabInv, PageInv, Sound
  <2> QED
    BY <1>4, <1>5, <2>1 DEF HereInv
<1>10. NextInTime' /\ InTime'
  BY <1>1, <1>2, <1>4, <1>5, Afresh
<1> QED
  BY <1>6, <1>7, <1>8, <1>9, <1>10 DEF TabInv

(* The page acts on its own: a timer fires or a request settles.           *)
LEMMA TabActs ==
    ASSUME TabInv,
           UNCHANGED <<now, presenceVars, left, disturbed, overlapped, faults>>,
           Sound(page'), page'.running = page.running, page'.hidden = page.hidden,
           Runs(page'), Tidy(page) => Tidy(page'),
           \/ /\ page'.outbox = page.outbox
              /\ page.running => \A h \in Nat : Due(page, h) => Due(page', h)
           \/ /\ page.running /\ Due(page', now)
              /\ page'.outbox = page.outbox \union {Message(TRUE, page.generation)}
    PROVE  TabInv'
<1>1. /\ now' = now /\ viewers' = viewers /\ left' = left /\ disturbed' = disturbed
      /\ overlapped' = overlapped
  BY DEF presenceVars
<1>2. TabTypes'
  BY <1>1 DEF TabInv, TabTypes
<1>3. PageInv'
  BY <1>1, SamePage DEF TabInv, PageInv
<1>4. AwayInv'
  BY <1>1 DEF TabInv, AwayInv
<1>5. HereInv'
  <2>1. \A m \in page'.outbox : ~ m.active => m \in page.outbox
    BY DEF Message
  <2> QED
    BY <1>1, <2>1 DEF TabInv, HereInv
<1>6. NextInTime' /\ InTime'
  <2>1. CASE left # None
    BY <1>1, <2>1 DEF NextInTime, InTime
  <2>2. CASE left = None
    <3>1. page.running
      BY <2>2 DEF TabInv, HereInv
    <3> QED
      BY <1>1, <2>2, <3>1, OnTime DEF TabInv
  <2> QED
    BY <2>1, <2>2
<1> QED
  BY <1>2, <1>3, <1>4, <1>5, <1>6 DEF TabInv

(* The server handles a message.                                           *)
LEMMA TabDelivers ==
    ASSUME TabInv, NEW m \in page.outbox, Deliver(m)
    PROVE  TabInv'
<1> DEFINE w == page.worker["presence"]
           answered == w.answered \/ (m.active /\ w.busy /\ w.owner = m.owner
                                               /\ w.since = m.sent)
           outbox == page.outbox \ {m}
<1>1. /\ now' = now /\ left' = left /\ disturbed' = disturbed /\ overlapped' = overlapped
      /\ page' = [page EXCEPT !.outbox = outbox, !.worker["presence"].answered = answered]
      /\ IF m.active THEN Heartbeat(Tab) ELSE Leave(Tab)
  BY DEF Deliver
<1>2. /\ now \in Nat /\ disturbed \in Nat /\ left \in {None} \union 0 .. now
      /\ IsViewerMap(viewers, now) /\ DOMAIN viewers \subseteq {Tab} /\ Tab \in Sessions
  BY DashboardDurations DEF TabInv, TabTypes
<1>3. /\ page \in TabPages /\ page.outbox \subseteq Messages
      /\ \A n \in page.outbox : n.sent \in Nat /\ n.active \in BOOLEAN
      /\ m.sent <= now /\ now <= m.sent + MaxDelay
  BY DEF TabInv, PageInv, Sound, TabPages, Messages
<1>4. Alike(page, page') /\ page'.hidden = page.hidden /\ page'.outbox = outbox
  <2>1. w \in Workers
    BY <1>3, KindsShape DEF TabPages
  <2>2. answered \in BOOLEAN /\ (w = Idle => answered = w.answered)
    BY <2>1 DEF Workers, Idle
  <2> HIDE DEF answered, outbox
  <2> DEFINE v == [w EXCEPT !.answered = answered]
             worker == [page.worker EXCEPT !["presence"] = v]
  <2>3. /\ v \in Workers /\ v.busy = w.busy /\ v.owner = w.owner /\ v.include = w.include
        /\ v.since = w.since
    BY <2>1, <2>2 DEF Workers
  <2>4. w = Idle => v = w
    <3>1. w = [w EXCEPT !.answered = w.answered]
      BY <2>1 DEF Workers
    <3> QED
      BY <2>2, <3>1
  <2>5. page' = [page EXCEPT !.outbox = outbox, !.worker = worker]
    BY <1>1, <1>3
  <2> HIDE DEF v
  <2>6. /\ worker \in [Kinds -> Workers] /\ worker["presence"] = v
        /\ worker["price"] = page.worker["price"]
    BY <1>3, <2>3, KindsShape DEF TabPages
  <2> HIDE DEF worker
  <2>7. outbox \subseteq page.outbox /\ outbox \subseteq Messages
    BY <1>3 DEF outbox
  <2>8. /\ page' \in TabPages /\ page'.running = page.running
        /\ page'.generation = page.generation /\ page'.handle = page.handle
        /\ page'.timers = page.timers /\ page'.outbox = outbox /\ page'.worker = worker
        /\ page'.hidden = page.hidden
    BY <1>3, <2>5, <2>6, <2>7 DEF TabPages
  <2>9. \A k \in Kinds : /\ page.worker[k] = Idle => page'.worker[k] = Idle
                         /\ page'.worker[k].busy = page.worker[k].busy
                         /\ page'.worker[k].owner = page.worker[k].owner
                         /\ page'.worker[k].include = page.worker[k].include
                         /\ page'.worker[k].since = page.worker[k].since
    BY <2>3, <2>4, <2>6, <2>8, KindsShape
  <2> QED
    BY <2>7, <2>8, <2>9 DEF Alike
<1>5. /\ Sound(page') /\ Runs(page') /\ (~ overlapped => Tidy(page'))
      /\ page'.running = page.running
      /\ \A h : Due(page, h) => Due(page', h)
  BY <1>4, AlikePages DEF TabInv, PageInv, Alike
<1> HIDE DEF outbox, answered
<1>6. outbox = page.outbox \ {m}
  BY DEF outbox
<1>7. PageInv'
  BY <1>1, <1>5, SamePage DEF PageInv
<1>8. /\ IsViewerMap(Prune(viewers, now), now)
      /\ \A r \in DOMAIN Prune(viewers, now) : now - Prune(viewers, now)[r] <= TTL
      /\ DOMAIN Prune(viewers, now) \subseteq DOMAIN viewers
  BY <1>2, PruneShape
<1>9. IsViewerMap(viewers', now) /\ DOMAIN viewers' \subseteq {Tab}
  <2>1. CASE m.active
    <3>1. viewers' = Insert(Prune(viewers, now), Tab, now)
      BY <1>1, <2>1 DEF Heartbeat
    <3>2. /\ IsViewerMap(Insert(Prune(viewers, now), Tab, now), now)
          /\ DOMAIN Insert(Prune(viewers, now), Tab, now) = DOMAIN Prune(viewers, now) \union {Tab}
      BY <1>2, <1>8, InsertShape
    <3> QED
      BY <1>2, <1>8, <3>1, <3>2
  <2>2. CASE ~ m.active
    <3>1. viewers' = Remove(Prune(viewers, now), Tab)
      BY <1>1, <2>2 DEF Leave
    <3>2. /\ IsViewerMap(Remove(Prune(viewers, now), Tab), now)
          /\ DOMAIN Remove(Prune(viewers, now), Tab) = DOMAIN Prune(viewers, now) \ {Tab}
      BY <1>2, <1>8, RemoveShape
    <3> QED
      BY <1>2, <1>8, <3>1, <3>2
  <2> QED
    BY <2>1, <2>2
<1>10. TabTypes'
  BY <1>1, <1>9 DEF TabInv, TabTypes
<1>11. HereInv'
  BY <1>1, <1>4, <1>5, <1>6 DEF TabInv, HereInv
<1>12. m.active => Tab \in DOMAIN viewers' /\ viewers'[Tab] = now
  <2> SUFFICES ASSUME m.active PROVE Tab \in DOMAIN viewers' /\ viewers'[Tab] = now
    OBVIOUS
  <2>1. viewers' = Insert(Prune(viewers, now), Tab, now)
    BY <1>1 DEF Heartbeat
  <2> QED
    BY <2>1 DEF Insert
<1>13. ~ m.active => DOMAIN viewers' = {}
  <2> SUFFICES ASSUME ~ m.active PROVE DOMAIN viewers' = {}
    OBVIOUS
  <2>1. viewers' = Remove(Prune(viewers, now), Tab)
    BY <1>1 DEF Leave
  <2>2. DOMAIN viewers' = DOMAIN Prune(viewers, now) \ {Tab}
    BY <1>2, <1>8, <2>1, RemoveShape
  <2> QED
    BY <1>2, <1>8, <2>2
<1>14. AwayInv'
  <2> SUFFICES ASSUME left # None PROVE AwayInv'
    BY <1>1 DEF AwayInv
  <2>1. m.active => now <= left + MaxDelay
    <3>1. left \in Nat /\ (m.active => m.sent <= left)
      BY <1>2 DEF TabInv, AwayInv
    <3> QED
      BY <1>2, <1>3, <3>1, DashboardDurations
  <2>2. \A s \in DOMAIN viewers' : viewers'[s] <= left + MaxDelay
    BY <1>3, <1>9, <1>12, <1>13, <2>1
  <2> QED
    BY <1>1, <1>4, <1>5, <1>6, <2>2 DEF TabInv, AwayInv
<1>15. CASE left # None
  BY <1>1, <1>7, <1>10, <1>11, <1>14, <1>15 DEF TabInv, NextInTime, InTime
<1>16. CASE left = None /\ m.active
  <2>1. \A h \in Nat : h <= now => Known(h)'
    BY <1>12, <1>16 DEF Known
  <2>2. NextInTime'
    <3>1. PICK h \in 0 .. now : Reached(h) /\ Due(page, h)
      BY <1>16 DEF TabInv, NextInTime
    <3>2. h \in Nat /\ h \in 0 .. now' /\ h <= now
      BY <1>1, <1>2
    <3>3. Due(page, h)'
      BY <1>1, <1>5, <3>1, SamePage
    <3>4. Reached(h)'
      BY <2>1, <3>2 DEF Reached
    <3> QED
      BY <3>2, <3>3, <3>4 DEF NextInTime
  <2>3. InTime'
    <3>1. ASSUME NEW t \in Nat, t + PresenceTimeout + Cadence < now PROVE Follows(t)'
      <4>1. t + 1 \in Nat /\ t + 1 <= now
        BY <1>2, <3>1, DashboardDurations
      <4> QED
        BY <2>1, <4>1 DEF Follows
    <3> QED
      BY <1>1, <3>1 DEF InTime
  <2> QED
    BY <1>7, <1>10, <1>11, <1>14, <2>2, <2>3 DEF TabInv
<1>17. CASE left = None /\ ~ m.active
  <2>1. m.sent <= disturbed
    BY <1>17 DEF TabInv, HereInv
  <2>2. now <= disturbed + MaxDelay
    BY <1>2, <1>3, <2>1, DashboardDurations
  <2>3. NextInTime'
    <3>1. PICK h \in 0 .. now : Reached(h) /\ Due(page, h)
      BY <1>17 DEF TabInv, NextInTime
    <3>2. h \in Nat /\ h \in 0 .. now' /\ h <= disturbed' + MaxDelay
      BY <1>1, <1>2, <2>2, DashboardDurations
    <3>3. Due(page, h)'
      BY <1>1, <1>5, <3>1, SamePage
    <3>4. Reached(h)'
      BY <3>2 DEF Reached
    <3> QED
      BY <3>2, <3>3, <3>4 DEF NextInTime
  <2>4. InTime'
    <3>1. ASSUME NEW t \in Nat, disturbed + MaxDelay <= t, t + PresenceTimeout + Cadence < now
          PROVE  FALSE
      BY <1>2, <2>2, <3>1, DashboardDurations
    <3> QED
      BY <1>1, <3>1 DEF InTime
  <2> QED
    BY <1>7, <1>10, <1>11, <1>14, <2>3, <2>4 DEF TabInv
<1> QED
  BY <1>3, <1>15, <1>16, <1>17

(* A message is lost.                                                      *)
LEMMA TabLoses ==
    ASSUME TabInv, NEW m \in page.outbox, Lose(m)
    PROVE  TabInv'
<1> DEFINE outbox == page.outbox \ {m}
<1>1. /\ now' = now /\ viewers' = viewers /\ left' = left /\ disturbed' = now
      /\ overlapped' = overlapped /\ page' = [page EXCEPT !.outbox = outbox]
  BY DEF Lose, presenceVars
<1>2. /\ now \in Nat /\ now \in 0 .. now /\ page \in TabPages
      /\ outbox \subseteq page.outbox
  BY DEF TabInv, TabTypes, PageInv, Sound
<1> HIDE DEF outbox
<1>3. Alike(page, page') /\ page'.hidden = page.hidden /\ page'.outbox = outbox
  BY <1>1, <1>2 DEF TabPages, Alike
<1>4. /\ Sound(page') /\ Runs(page') /\ (~ overlapped => Tidy(page'))
      /\ page'.running = page.running
      /\ \A h : Due(page, h) => Due(page', h)
  BY <1>3, AlikePages DEF TabInv, PageInv, Alike
<1>5. TabTypes'
  BY <1>1, <1>2 DEF TabInv, TabTypes
<1>6. PageInv'
  BY <1>1, <1>4, SamePage DEF PageInv
<1>7. AwayInv'
  BY <1>1, <1>2, <1>3, <1>4 DEF TabInv, AwayInv
<1>8. HereInv'
  <2>1. \A n \in page'.outbox : n.sent <= now
    BY <1>2, <1>3 DEF TabInv, PageInv, Sound
  <2> QED
    BY <1>1, <1>3, <1>4, <2>1 DEF TabInv, HereInv
<1>9. NextInTime' /\ InTime'
  <2>1. CASE left # None
    BY <1>1, <2>1 DEF NextInTime, InTime
  <2>2. CASE left = None
    <3>1. PICK h \in 0 .. now : Due(page, h)
      BY <2>2 DEF TabInv, NextInTime
    <3> QED
      BY <1>1, <1>2, <1>4, <3>1, Afresh
  <2> QED
    BY <2>1, <2>2
<1> QED
  BY <1>5, <1>6, <1>7, <1>8, <1>9 DEF TabInv

(* The server starts again and knows no viewer.                            *)
LEMMA TabRestarts ==
    ASSUME TabInv, ServerRestarts
    PROVE  TabInv'
<1>1. /\ now' = now /\ viewers' = NoViewers /\ left' = left /\ disturbed' = now
      /\ overlapped' = overlapped /\ page' = page
  BY DEF ServerRestarts, PresenceRestarts
<1>2. now \in Nat /\ now \in 0 .. now /\ page \in TabPages
  BY DEF TabInv, TabTypes, PageInv, Sound
<1>3. DOMAIN NoViewers = {} /\ IsViewerMap(NoViewers, now)
  BY DEF NoViewers, IsViewerMap
<1>4. TabTypes'
  BY <1>1, <1>2, <1>3 DEF TabInv, TabTypes
<1>5. PageInv'
  BY <1>1, SamePage DEF TabInv, PageInv
<1>6. AwayInv'
  BY <1>1, <1>3 DEF TabInv, AwayInv
<1>7. HereInv'
  <2>1. \A n \in page'.outbox : n.sent <= now
    BY <1>1 DEF TabInv, PageInv, Sound
  <2> QED
    BY <1>1, <2>1 DEF TabInv, HereInv
<1>8. NextInTime' /\ InTime'
  <2>1. CASE left # None
    BY <1>1, <2>1 DEF NextInTime, InTime
  <2>2. CASE left = None
    <3>1. PICK h \in 0 .. now : Due(page, h)
      BY <2>2 DEF TabInv, NextInTime
    <3> QED
      BY <1>1, <1>2, <3>1, Afresh
  <2> QED
    BY <2>1, <2>2
<1> QED
  BY <1>4, <1>5, <1>6, <1>7, <1>8 DEF TabInv

(* Time passes only when nothing is due.                                   *)
LEMMA TabTicks ==
    ASSUME TabInv, Tick
    PROVE  TabInv'
<1>1. /\ now' = now + 1 /\ viewers' = viewers /\ left' = left /\ disturbed' = disturbed
      /\ overlapped' = overlapped /\ page' = page
      /\ \A i \in DOMAIN page.timers : page.timers[i].due > now
      /\ \A k \in Kinds : page.worker[k].busy => now < page.worker[k].since + Timeout[k]
      /\ \A m \in page.outbox : now < m.sent + MaxDelay
  BY DEF Tick, presenceVars
<1>2. /\ now \in Nat /\ disturbed \in 0 .. now /\ left \in {None} \union 0 .. now
      /\ IsViewerMap(viewers, now) /\ DOMAIN viewers \subseteq {Tab}
  BY DEF TabInv, TabTypes
<1>3. /\ page \in TabPages /\ Sound(page) /\ page.outbox \subseteq Messages
      /\ page.worker \in [Kinds -> Workers]
      /\ \A i \in DOMAIN page.timers : page.timers[i].due \in Nat
  BY TimerMapFacts DEF TabInv, PageInv, Sound, TabPages, Timers
<1>4. TabTypes'
  <2>1. IsViewerMap(viewers', now')
    BY <1>1, <1>2 DEF IsViewerMap
  <2>2. now' \in Nat /\ disturbed' \in 0 .. now' /\ left' \in {None} \union 0 .. now'
    BY <1>1, <1>2
  <2> QED
    BY <1>1, <1>2, <2>1, <2>2 DEF TabTypes
<1>5. /\ \A k : Busy(page, k)' <=> Busy(page, k)
      /\ \A k : Armed(page, k)' <=> Armed(page, k)
      /\ Starting(page)' <=> Starting(page)
      /\ \A h : Due(page, h)' <=> Due(page, h)
  BY <1>1 DEF Busy, Armed, Starting, Due
<1>6. Sound(page)'
  <2>1. ASSUME NEW k \in Kinds
        PROVE  \/ page.worker[k] = Idle
               \/ /\ Busy(page, k) /\ page.worker[k].owner \in 1 .. page.generation
                  /\ page.worker[k].since <= now' /\ now' <= page.worker[k].since + Timeout[k]
    <3>1. CASE page.worker[k] = Idle
      BY <3>1
    <3>2. CASE /\ Busy(page, k) /\ page.worker[k].owner \in 1 .. page.generation
               /\ page.worker[k].since <= now
      <4>1. page.worker[k].since \in Nat /\ Timeout[k] \in Nat
        BY <1>3, KindsShape, DashboardDurations DEF Workers
      <4>2. now < page.worker[k].since + Timeout[k]
        BY <1>1, <3>2 DEF Busy
      <4>3. page.worker[k].since <= now' /\ now' <= page.worker[k].since + Timeout[k]
        BY <1>1, <1>2, <3>2, <4>1, <4>2
      <4> QED
        BY <3>2, <4>3
    <3> QED
      BY <1>3, <3>1, <3>2 DEF Sound
  <2>2. ASSUME NEW i \in DOMAIN page.timers
        PROVE  now' <= page.timers[i].due /\ page.timers[i].due <= now' + Cadence
    <3>1. page.timers[i].due \in Nat /\ page.timers[i].due > now
          /\ page.timers[i].due <= now + Cadence
      BY <1>1, <1>3 DEF Sound
    <3> QED
      BY <1>1, <1>2, <3>1, DashboardDurations
  <2>3. ASSUME NEW m \in page.outbox PROVE m.sent <= now' /\ now' <= m.sent + MaxDelay
    <3>1. m.sent \in Nat /\ m.sent <= now /\ now < m.sent + MaxDelay
      BY <1>1, <1>3 DEF Sound, Messages
    <3> QED
      BY <1>1, <1>2, <3>1, DashboardDurations
  <2> QED
    BY <1>1, <1>3, <1>5, <2>1, <2>2, <2>3 DEF Sound
<1>7. PageInv'
  <2>1. Runs(page)'
    BY <1>1, <1>5 DEF TabInv, PageInv, Runs, Ready, Goes
  <2>2. ~ overlapped' => Tidy(page)'
    BY <1>1, <1>5 DEF TabInv, PageInv, Tidy, Neat
  <2> QED
    BY <1>6, <2>1, <2>2 DEF PageInv
<1>8. AwayInv' /\ HereInv'
  BY <1>1 DEF TabInv, AwayInv, HereInv
<1>9. /\ \A h : Known(h)' <=> Known(h)
      /\ \A h : Sent(h)' <=> Sent(h)
      /\ \A h : Reached(h)' <=> Reached(h)
      /\ \A t : Follows(t)' <=> Follows(t)
  BY <1>1 DEF Known, Sent, Reached, Follows
<1>10. NextInTime'
  <2> SUFFICES ASSUME left = None PROVE NextInTime'
    BY <1>1 DEF NextInTime
  <2>1. PICK h \in 0 .. now : Reached(h) /\ Due(page, h)
    BY DEF TabInv, NextInTime
  <2>2. h \in 0 .. now' /\ Reached(h)' /\ Due(page, h)'
    BY <1>1, <1>2, <1>5, <1>9, <2>1
  <2> QED
    BY <2>2 DEF NextInTime
<1>11. InTime'
  <2> SUFFICES ASSUME left = None, NEW t \in Nat, disturbed + MaxDelay <= t,
                      t + PresenceTimeout + Cadence < now + 1
               PROVE  Follows(t)
    BY <1>1, <1>9 DEF InTime
  <2>1. CASE t + PresenceTimeout + Cadence < now
    BY <2>1 DEF TabInv, InTime
  <2>2. CASE ~ (t + PresenceTimeout + Cadence < now)
    <3>1. t + PresenceTimeout + Cadence = now
      BY <1>2, <2>2, DashboardDurations
    <3>2. PICK h \in 0 .. now : Reached(h) /\ Due(page, h)
      BY DEF TabInv, NextInTime
    <3>3. h \in Nat /\ h <= now
      BY <1>2, <3>2
    <3>4. CASE h <= t
      <4>1. CASE Busy(page, "presence") /\ page.worker["presence"].since <= h
        <5>1. /\ page.worker["presence"].since \in Nat
              /\ now < page.worker["presence"].since + PresenceTimeout
          BY <1>1, <1>3, <4>1, KindsShape DEF Busy, Workers
        <5> QED
          BY <1>2, <3>1, <3>3, <3>4, <4>1, <5>1, DashboardDurations
      <4>2. CASE /\ Armed(page, "presence")
                 /\ page.timers[page.handle["presence"]].due <= h + PresenceTimeout + Cadence
        <5>1. /\ page.timers[page.handle["presence"]].due \in Nat
              /\ page.timers[page.handle["presence"]].due > now
          BY <1>1, <1>3, <4>2 DEF Armed
        <5> QED
          BY <1>2, <3>1, <3>3, <3>4, <4>2, <5>1, DashboardDurations
      <4> QED
        BY <3>2, <4>1, <4>2 DEF Due
    <3>5. CASE t < h
      <4>1. ~ (h <= disturbed + MaxDelay)
        BY <1>2, <3>3, <3>5, DashboardDurations
      <4>2. CASE Sent(h)
        <5>1. PICK m \in page.outbox : m.active /\ m.sent = h
          BY <4>2 DEF Sent
        <5>2. t < m.sent /\ m.sent <= t + PresenceTimeout + Cadence
          BY <3>1, <3>3, <3>5, <5>1
        <5> QED
          BY <5>1, <5>2 DEF Follows
      <4>3. CASE Known(h)
        <5>1. Tab \in DOMAIN viewers /\ viewers[Tab] \in Nat /\ h <= viewers[Tab]
          BY <1>2, <4>3 DEF Known, IsViewerMap
        <5>2. t + 1 <= viewers[Tab]
          BY <3>3, <3>5, <5>1
        <5> QED
          BY <5>1, <5>2 DEF Follows, Known
      <4> QED
        BY <3>2, <4>1, <4>2, <4>3 DEF Reached
    <3> QED
      BY <3>3, <3>4, <3>5
  <2> QED
    BY <2>1, <2>2
<1> QED
  BY <1>4, <1>7, <1>8, <1>10, <1>11 DEF TabInv

LEMMA TabSteps == TabInv /\ [Next]_dashboardVars => TabInv'
<1> SUFFICES ASSUME TabInv, [Next]_dashboardVars PROVE TabInv'
  OBVIOUS
<1>1. now \in Nat /\ page \in TabPages /\ Sound(page) /\ Runs(page)
  BY DEF TabInv, TabTypes, PageInv, Sound
<1>2. CASE Hide
  <2> DEFINE p == [page EXCEPT !.hidden = TRUE]
  <2>1. Alike(page, p) /\ p.outbox = page.outbox /\ page' = Stopped(p) /\ Leaves
    BY <1>1, <1>2, Shows DEF Hide
  <2> HIDE DEF p
  <2> QED
    BY <2>1, TabLeaves
<1>3. CASE Show
  <2> DEFINE p == [page EXCEPT !.hidden = FALSE]
  <2>1. /\ Alike(page, p) /\ p.outbox = page.outbox /\ ~ p.hidden /\ page' = Started(p)
        /\ Returns /\ page.hidden
    BY <1>1, <1>3, Shows DEF Show
  <2> HIDE DEF p
  <2>2. left # None
    BY <2>1 DEF TabInv, HereInv
  <2> QED
    BY <2>1, <2>2, TabReturns
<1>4. Alike(page, page)
  BY <1>1 DEF Alike
<1>5. CASE PageHide
  BY <1>4, <1>5, TabLeaves DEF PageHide
<1>6. CASE PageShow
  <2>1. CASE page.hidden
    <3>1. page' = page /\ left # None /\ Returns
      BY <1>6, <2>1 DEF PageShow, Started
    <3>2. /\ now' = now /\ viewers' = viewers /\ left' = left /\ disturbed' = disturbed
          /\ ~ overlapped' => ~ overlapped
      BY <2>1, <3>1 DEF Returns, presenceVars
    <3>3. TabTypes' /\ PageInv'
      BY <3>1, <3>2, SamePage DEF TabInv, TabTypes, PageInv
    <3>4. AwayInv' /\ HereInv' /\ NextInTime' /\ InTime'
      BY <3>1, <3>2 DEF TabInv, AwayInv, HereInv, NextInTime, InTime
    <3> QED
      BY <3>3, <3>4 DEF TabInv
  <2>2. CASE ~ page.hidden
    BY <1>4, <1>6, <2>2, TabReturns DEF PageShow
  <2> QED
    BY <2>1, <2>2
<1>7. ASSUME NEW i \in DOMAIN page.timers, Fire(i) PROVE TabInv'
  <2> DEFINE k == page.timers[i].kind
  <2>1. k \in Kinds
    BY <1>1, TimerMapFacts DEF TabPages, Timers
  <2>2. page' = Poll(Disarmed(page, i), k, FALSE)
    BY <1>1, <1>7 DEF Fire, Disarmed, TabPages
  <2> HIDE DEF k
  <2>3. Fired(page, page')
    BY <1>1, <2>1, <2>2, Fires DEF k
  <2> QED
    BY <1>7, <2>3, TabActs DEF Fire, Fired
<1>8. ASSUME NEW k \in Kinds, Settle(k) PROVE TabInv'
  <2>1. PICK delay \in {None, StartupDelay, Cadence} : page' = Settled(page, k, delay)
    BY <1>8 DEF Settle
  <2>2. delay = None \/ (delay \in Nat /\ delay <= Cadence)
    BY DashboardDurations
  <2>3. Concludes(page, page')
    BY <1>1, <1>8, <2>1, <2>2, Settles DEF Settle, Busy
  <2> QED
    BY <1>8, <2>3, TabActs DEF Settle, Concludes
<1>9. ASSUME NEW m \in page.outbox, Deliver(m) \/ Lose(m) PROVE TabInv'
  BY <1>9, TabDelivers, TabLoses
<1>10. CASE ServerRestarts
  BY <1>10, TabRestarts
<1>11. CASE Tick
  BY <1>11, TabTicks
<1>12. CASE UNCHANGED dashboardVars
  <2>1. /\ UNCHANGED <<now, presenceVars, left, disturbed, overlapped, faults>>
        /\ page' = page
    BY <1>12 DEF dashboardVars
  <2> QED
    BY <1>1, <2>1, TabActs
<1> QED
  BY <1>2, <1>3, <1>5, <1>6, <1>7, <1>8, <1>9, <1>10, <1>11, <1>12 DEF Next

(* At every step the page is sound, its loops run, no heartbeat is sent    *)
(* while the user is away, and while the user is here each heartbeat is    *)
(* followed soon by the next (dashboard.js:183-246, presence.rs:46-49).    *)
THEOREM TabInvariant == Spec => []TabInv
BY TabInitially, TabSteps, PTL DEF Spec

-----------------------------------------------------------------------------
(* While the tab is active neither of its loops dies, however requests,    *)
(* timers and visits follow each other (dashboard.js:188-227).             *)
THEOREM LoopsLive == Spec => []LoopsAlive
<1>1. TabInv => LoopsAlive
  BY DEF TabInv, PageInv, Runs, Goes, Busy, Armed, Starting, LoopsAlive
<1> QED
  BY <1>1, TabInvariant, PTL

(* No loop has two armed timers, unless a request outlived the period that *)
(* sent it (dashboard.js:194, :224).                                       *)
THEOREM OneTimerEach == Spec => []OneSetOfTimers
<1>1. TabInv => OneSetOfTimers
  BY DEF TabInv, PageInv, Tidy, Neat, OneSetOfTimers
<1> QED
  BY <1>1, TabInvariant, PTL

(* A tab that was left is forgotten, whatever the network does: the last   *)
(* heartbeat under way counts for one time to live (presence.rs:46-49).    *)
THEOREM Forgotten == Spec => []HiddenForgotten
<1>1. TabInv => HiddenForgotten
  <2> SUFFICES ASSUME TabInv, left # None, now > left + MaxDelay + TTL, Tab \in Live
               PROVE  FALSE
    BY DEF HiddenForgotten
  <2>1. Tab \in DOMAIN viewers /\ now - viewers[Tab] <= TTL
    BY DEF Live, Unexpired
  <2>2. /\ now \in Nat /\ left \in Nat /\ viewers[Tab] \in Nat
        /\ viewers[Tab] <= left + MaxDelay
    BY <2>1 DEF TabInv, TabTypes, AwayInv, IsViewerMap
  <2> QED
    BY <2>1, <2>2, DashboardDurations
<1> QED
  BY <1>1, TabInvariant, PTL

(* A visible tab is a live viewer soon after a disturbance, and stays one  *)
(* (dashboard.js:188-227, presence.rs:46-49).                              *)
THEOREM Seen == Spec => []VisibleIsLive
<1>1. TabInv => VisibleIsLive
  <2> SUFFICES ASSUME TabInv, left = None,
                      now > disturbed + PresenceTimeout + Cadence + 2 * MaxDelay
               PROVE  Tab \in Live
    BY DEF VisibleIsLive
  <2> DEFINE t == now - MaxDelay - PresenceTimeout - Cadence - 1
  <2>1. /\ now \in Nat /\ disturbed \in Nat /\ IsViewerMap(viewers, now)
        /\ page.outbox \subseteq Messages
    BY DEF TabInv, TabTypes, PageInv, Sound, TabPages
  <2>2. /\ t \in Nat /\ disturbed + MaxDelay <= t /\ t + PresenceTimeout + Cadence < now
        /\ t + PresenceTimeout + Cadence + MaxDelay < now
        /\ now - (t + 1) <= TTL
    BY <2>1, DashboardDurations
  <2> HIDE DEF t
  <2>3. Follows(t)
    BY <2>2 DEF TabInv, InTime
  <2>4. ASSUME NEW m \in page.outbox, m.sent <= t + PresenceTimeout + Cadence
        PROVE  FALSE
    <3>1. m.sent \in Nat /\ now <= m.sent + MaxDelay
      BY <2>1 DEF TabInv, PageInv, Sound, Messages
    <3> QED
      BY <2>1, <2>2, <2>4, <3>1, DashboardDurations
  <2>5. Tab \in DOMAIN viewers /\ t + 1 <= viewers[Tab] /\ viewers[Tab] \in Nat
    BY <2>1, <2>3, <2>4 DEF Follows, Known, IsViewerMap
  <2>6. now - viewers[Tab] <= TTL
    BY <2>1, <2>2, <2>5, DashboardDurations
  <2> QED
    BY <2>5, <2>6 DEF Live, Unexpired
<1> QED
  BY <1>1, TabInvariant, PTL

=============================================================================
