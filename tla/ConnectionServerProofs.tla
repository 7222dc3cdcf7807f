----------------------- MODULE ConnectionServerProofs -----------------------
(***************************************************************************)
(* The accept loop and the request gate behind it, for any number of       *)
(* peers, any pools, rates and deadlines: no permit is lost, the bucket    *)
(* never admits too much, a stopped server is idle, and a handler that its *)
(* connection cuts short lacks only the time that was spent in the gate.   *)
(***************************************************************************)
EXTENDS ConnectionServer, FiniteSetTheorems, TLAPS

USE RequestsAssumption, RateAssumption, ConcurrencyAssumption, ServerAssumption

Phases == {"accepting", "paused", "draining", "ended", "failed"}

Connections == [stage : {"headers", "handler", "response"},
                since : Nat, routed : Nat, begun : Nat]

(* Types, as functions and records. *)
Shapes ==
    /\ now \in Nat
    /\ server \in [phase : Phases, until : Nat]
    /\ free \in [Pools -> Nat]
    /\ slots \in Nat
    /\ request \in [Requests -> [pc : {"idle", "gate", "running"}, sampled : Nat \union {None}]]
    /\ connection \in [Requests -> Connections \union {None}]

(* What the bucket has spent and still holds is what time has given it, up to
   the instant it knows. *)
BucketInv ==
    /\ tokens \in 0 .. Rate
    /\ updated \in 0 .. now
    /\ admitted \in Nat
    /\ ordered \in BOOLEAN
    /\ \A q \in Requests : request[q].pc # "idle" => request[q].sampled \in 0 .. now
    /\ ordered => admitted + tokens <= Rate + updated

(* A request is handled inside a connection that has reached its handler. *)
HandledInv ==
    /\ \A q \in Requests :
        request[q].pc # "idle" => q \in Connected /\ connection[q].stage = "handler"
    /\ server.phase \in {"ended", "failed"} => Connected = {}

(* No connection waits longer for its headers, or lives longer, than it may. *)
TimesInv ==
    /\ server.phase \in {"paused", "draining"} => server.until \in now .. now + Grace + 1
    /\ \A q \in Connected :
        /\ connection[q].since <= connection[q].routed
        /\ connection[q].routed <= connection[q].begun
        /\ connection[q].begun <= now
        /\ connection[q].routed <= connection[q].since + HeaderTimeout
        /\ connection[q].stage = "headers" => now <= connection[q].since + HeaderTimeout
        /\ now <= connection[q].since + Lifetime

ServerInv == Shapes /\ BucketInv /\ HandledInv /\ TimesInv /\ PermitsAccountedFor

(* The peers that hold a permit. *)
Handled == {q \in Requests : request[q].pc = "running"}
HeldIn(p) == {q \in Connected : Pool(q) = p}

-----------------------------------------------------------------------------
(* What an action does to one peer's connection and to its request. *)
LEMMA ConnectionSet ==
    ASSUME Shapes, NEW q \in Requests, NEW c \in Connections \union {None},
           connection' = [connection EXCEPT ![q] = c]
    PROVE  /\ connection' \in [Requests -> Connections \union {None}]
           /\ connection'[q] = c
           /\ \A o \in Requests \ {q} : connection'[o] = connection[o]
  BY DEF Shapes

LEMMA RequestSet ==
    ASSUME Shapes, NEW q \in Requests,
           NEW r \in [pc : {"idle", "gate", "running"}, sampled : Nat \union {None}],
           request' = [request EXCEPT ![q] = r]
    PROVE  /\ request' \in [Requests -> [pc : {"idle", "gate", "running"},
                                         sampled : Nat \union {None}]]
           /\ request'[q] = r
           /\ \A o \in Requests \ {q} : request'[o] = request[o]
  BY DEF Shapes

(* Idle is a request, and every connection is told from none. *)
LEMMA RecordShapes ==
    /\ Idle \in [pc : {"idle", "gate", "running"}, sampled : Nat \union {None}]
    /\ Idle.pc = "idle"
    /\ None \notin Connections
  BY DEF Idle, Connections

(* Sets of peers are finite; one of them can join or leave. *)
LEMMA PeerSets ==
    ASSUME NEW S, S \subseteq Requests
    PROVE  /\ Cardinality(S) \in Nat
           /\ \A q \in S : Cardinality(S \ {q}) = Cardinality(S) - 1
           /\ \A q \in Requests \ S : Cardinality(S \union {q}) = Cardinality(S) + 1
<1>1. IsFiniteSet(S)
  BY FS_Subset
<1> QED
  BY <1>1, FS_CardinalityType, FS_AddElement, FS_RemoveElement

-----------------------------------------------------------------------------
(* The bucket.  A refill adds no more than the time since the last one. *)
LEMMA RefillBound ==
    ASSUME NEW t \in Nat, tokens \in 0 .. Rate, updated \in Nat
    PROVE  /\ Refilled(t) \in 0 .. Rate
           /\ t >= updated => Refilled(t) <= tokens + t - updated
  BY DEF Refilled

LEMMA SampleStep ==
    ASSUME Shapes, BucketInv, NEW q \in Requests, Sample(q)
    PROVE  BucketInv'
<1>1. [pc |-> "gate", sampled |-> now] \in [pc : {"idle", "gate", "running"}, sampled : Nat \union {None}]
  BY DEF Shapes
<1>2. /\ request'[q].sampled = now
      /\ \A o \in Requests \ {q} : request'[o] = request[o]
  BY <1>1, RequestSet DEF Sample
<1> QED
  BY <1>2 DEF Sample, BucketInv, Shapes

(* An admission spends the token it counts; a refusal spends nothing. *)
LEMMA BucketStep ==
    ASSUME Shapes, BucketInv, NEW q \in Requests, Limited(q) \/ Allowed(q)
    PROVE  BucketInv'
<1> DEFINE t == request[q].sampled
<1>1. request[q].pc = "gate" /\ t \in 0 .. now /\ now' = now /\ now \in Nat
  BY DEF Limited, Allowed, BucketInv, Shapes
<1>2. /\ Refilled(t) \in 0 .. Rate
      /\ t >= updated => Refilled(t) <= tokens + t - updated
  BY <1>1, RefillBound DEF BucketInv
<1>3. \A o \in Requests : request'[o].pc # "idle" => request'[o].sampled = request[o].sampled
                                                  /\ request[o].pc # "idle"
  BY <1>1 DEF Limited, Allowed, Shapes, Idle
<1>4. \A o \in Requests : request'[o].pc # "idle" => request'[o].sampled \in 0 .. now'
  BY <1>1, <1>3 DEF BucketInv
<1>5. /\ updated' = t /\ ordered' = (ordered /\ t >= updated)
      /\ \/ tokens' = Refilled(t) /\ admitted' = admitted
         \/ Refilled(t) >= 1 /\ tokens' = Refilled(t) - 1 /\ admitted' = admitted + 1
  BY DEF Limited, Allowed
<1> HIDE DEF t
<1>6. ordered' \in BOOLEAN
  BY <1>5
<1>7. tokens' \in 0 .. Rate /\ updated' \in 0 .. now' /\ admitted' \in Nat
  BY <1>1, <1>2, <1>5 DEF BucketInv
<1>8. ASSUME ordered' PROVE admitted' + tokens' <= Rate + updated'
  <2>1. ordered /\ t >= updated
    BY <1>5, <1>8
  <2>2. /\ admitted + tokens <= Rate + updated
        /\ admitted \in Nat /\ tokens \in Nat /\ updated \in Nat /\ Rate \in Nat /\ t \in Nat
        /\ Refilled(t) \in Nat /\ Refilled(t) <= tokens + t - updated
    BY <1>1, <1>2, <2>1 DEF BucketInv
  <2> QED
    BY <1>5, <2>2
<1> QED
  BY <1>4, <1>6, <1>7, <1>8 DEF BucketInv

(* Nothing but the clock and the bucket's own calls changes the bucket. *)
LEMMA BucketKept ==
    ASSUME BucketInv, UNCHANGED <<tokens, updated, admitted, ordered>>,
           now \in Nat, now' \in Nat, now <= now',
           \A q \in Requests : request'[q].pc # "idle" => request'[q] = request[q]
    PROVE  BucketInv'
<1>1. \A q \in Requests : request'[q].pc # "idle" => request'[q].sampled \in 0 .. now'
  BY DEF BucketInv
<1> QED
  BY <1>1 DEF BucketInv

-----------------------------------------------------------------------------
(* A connection moves on, or none does; the pools keep their permits. *)
LEMMA Moved ==
    ASSUME Shapes, NEW q \in Connected, NEW stage \in {"headers", "handler", "response"},
           MovesTo(q, stage)
    PROVE  /\ connection' \in [Requests -> Connections \union {None}]
           /\ connection'[q] = [connection[q] EXCEPT !.stage = stage]
           /\ \A o \in Requests \ {q} : connection'[o] = connection[o]
           /\ Connected' = Connected
           /\ server' = server /\ free' = free
<1> DEFINE c == [connection[q] EXCEPT !.stage = stage]
<1>1. q \in Requests /\ connection[q] \in Connections
  BY DEF Shapes, Connected
<1>2. c \in Connections
  BY <1>1 DEF Connections
<1>3. connection' = [connection EXCEPT ![q] = c]
  BY DEF MovesTo
<1>4. c # None /\ connection[q] # None
  BY <1>1, <1>2, RecordShapes
<1> HIDE DEF c
<1>5. /\ connection' \in [Requests -> Connections \union {None}]
      /\ connection'[q] = c
      /\ \A o \in Requests \ {q} : connection'[o] = connection[o]
  BY <1>1, <1>2, <1>3, ConnectionSet
<1>6. Connected' = Connected
  BY <1>1, <1>4, <1>5 DEF Connected
<1> QED
  BY <1>5, <1>6 DEF MovesTo, c

(* A handler begins: its connection has a new deadline, and is otherwise as it was. *)
LEMMA Begun ==
    ASSUME Shapes, TimesInv, NEW q \in Connected, now' = now, server' = server,
           connection' = [connection EXCEPT ![q].begun = now]
    PROVE  /\ connection' \in [Requests -> Connections \union {None}]
           /\ connection'[q].stage = connection[q].stage
           /\ \A o \in Requests \ {q} : connection'[o] = connection[o]
           /\ Connected' = Connected
           /\ TimesInv'
<1> DEFINE c == [connection[q] EXCEPT !.begun = now]
<1>1. q \in Requests /\ connection[q] \in Connections /\ now \in Nat
  BY DEF Shapes, Connected
<1>2. /\ c \in Connections /\ c.begun = now /\ c.stage = connection[q].stage
      /\ c.since = connection[q].since /\ c.routed = connection[q].routed
  BY <1>1 DEF Connections
<1>3. connection' = [connection EXCEPT ![q] = c]
  OBVIOUS
<1>4. c # None /\ connection[q] # None
  BY <1>1, <1>2, RecordShapes
<1> HIDE DEF c
<1>5. /\ connection' \in [Requests -> Connections \union {None}]
      /\ connection'[q] = c
      /\ \A o \in Requests \ {q} : connection'[o] = connection[o]
  BY <1>1, <1>2, <1>3, ConnectionSet
<1>6. Connected' = Connected
  BY <1>1, <1>4, <1>5 DEF Connected
<1>7. connection[q].routed <= now
  <2>1. connection[q].routed \in Nat /\ connection[q].begun \in Nat
    BY <1>1 DEF Connections
  <2> QED
    BY <1>1, <2>1 DEF TimesInv
<1>8. TimesInv'
  <2>1. ASSUME NEW o \in Connected
        PROVE  /\ connection'[o].since <= connection'[o].routed
               /\ connection'[o].routed <= connection'[o].begun
               /\ connection'[o].begun <= now
               /\ connection'[o].routed <= connection'[o].since + HeaderTimeout
               /\ connection'[o].stage = "headers" => now <= connection'[o].since + HeaderTimeout
               /\ now <= connection'[o].since + Lifetime
    <3>1. CASE o = q
      BY <1>1, <1>2, <1>5, <1>7, <3>1 DEF TimesInv
    <3>2. CASE o # q
      BY <1>5, <3>2 DEF TimesInv, Connected
    <3> QED
      BY <3>1, <3>2
  <2> QED
    BY <1>6, <2>1 DEF TimesInv
<1> QED
  BY <1>2, <1>5, <1>6, <1>8

PoolsAccountedFor == \A p \in Pools : free[p] + Cardinality(HeldIn(p)) = Permits[p]
SlotsHeld == slots + Cardinality(Handled) = Concurrency

LEMMA PermitParts ==
    /\ PermitsAccountedFor <=> SlotsHeld /\ PoolsAccountedFor
    /\ PermitsAccountedFor' <=> SlotsHeld' /\ PoolsAccountedFor'
  BY DEF PermitsAccountedFor, SlotsAccountedFor, SlotsHeld, PoolsAccountedFor, Handled, HeldIn

LEMMA PoolsKept ==
    ASSUME PoolsAccountedFor, Connected' = Connected, free' = free
    PROVE  PoolsAccountedFor'
  BY DEF PoolsAccountedFor, HeldIn

(* A handler begins or ends with one of the gate's slots. *)
LEMMA SlotTaken ==
    ASSUME Shapes, SlotsHeld, NEW q \in Requests, request[q].pc # "running",
           request'[q].pc = "running", \A o \in Requests \ {q} : request'[o] = request[o],
           slots' = slots - 1
    PROVE  SlotsHeld'
<1>1. Handled' = Handled \union {q} /\ q \notin Handled /\ Handled \subseteq Requests
  BY DEF Handled
<1>2. Cardinality(Handled') = Cardinality(Handled) + 1 /\ Cardinality(Handled) \in Nat
  BY <1>1, PeerSets
<1> QED
  BY <1>1, <1>2 DEF SlotsHeld, Shapes

LEMMA SlotReturned ==
    ASSUME Shapes, SlotsHeld, NEW q \in Requests, request[q].pc = "running",
           request'[q].pc # "running", \A o \in Requests \ {q} : request'[o] = request[o],
           slots' = slots + 1
    PROVE  SlotsHeld'
<1>1. Handled' = Handled \ {q} /\ q \in Handled /\ Handled \subseteq Requests
  BY DEF Handled
<1>2. Cardinality(Handled') = Cardinality(Handled) - 1 /\ Cardinality(Handled) \in Nat
  BY <1>1, PeerSets
<1> QED
  BY <1>1, <1>2 DEF SlotsHeld, Shapes

LEMMA SlotsKept ==
    ASSUME SlotsHeld, slots' = slots,
           \A o \in Requests : request'[o].pc = "running" <=> request[o].pc = "running"
    PROVE  SlotsHeld'
<1>1. Handled' = Handled
  BY DEF Handled
<1> QED
  BY <1>1 DEF SlotsHeld

-----------------------------------------------------------------------------
(* One lemma per action: it keeps every part of the invariant. *)
LEMMA AcceptStep ==
    ASSUME ServerInv, NEW q \in Requests, Accept(q)
    PROVE  ServerInv'
<1> USE DEF ServerInv
<1> DEFINE c == [stage |-> "headers", since |-> now, routed |-> now, begun |-> now]
<1>1. /\ server' = server /\ now' = now /\ slots' = slots /\ request' = request
      /\ UNCHANGED <<tokens, updated, admitted, ordered>>
      /\ q \notin Connected /\ server.phase = "accepting"
  BY DEF Accept, vars
<1>2. c \in Connections
  BY DEF Shapes, Connections
<1>3. /\ connection' \in [Requests -> Connections \union {None}]
      /\ connection'[q] = c
      /\ \A o \in Requests \ {q} : connection'[o] = connection[o]
  BY <1>2, ConnectionSet DEF Accept
<1>4. Connected' = Connected \union {q}
  BY <1>2, <1>3, RecordShapes DEF Connected
<1>5. Pool(q) \in Pools /\ free[Pool(q)] \in Nat /\ free[Pool(q)] > 0
      /\ free' = [free EXCEPT ![Pool(q)] = @ - 1]
  BY DEF Accept, Shapes, Pool, Pools
<1>6. Shapes'
  BY <1>1, <1>3, <1>5 DEF Shapes
<1>7. BucketInv'
  BY <1>1, BucketKept DEF Shapes
<1>8. HandledInv'
  BY <1>1, <1>3, <1>4 DEF HandledInv
<1>9. TimesInv'
  BY <1>1, <1>3, <1>4 DEF TimesInv, Shapes, Connected
<1>10. SlotsHeld'
  BY <1>1, SlotsKept, PermitParts
<1>11. PoolsAccountedFor'
  <2> SUFFICES ASSUME NEW p \in Pools PROVE (free[p] + Cardinality(HeldIn(p)) = Permits[p])'
    BY DEF PoolsAccountedFor
  <2>1. free[p] + Cardinality(HeldIn(p)) = Permits[p] /\ free[p] \in Nat
    BY PermitParts DEF PoolsAccountedFor, Shapes
  <2>2. HeldIn(p) \subseteq Requests /\ q \notin HeldIn(p)
    BY <1>1 DEF HeldIn, Connected
  <2>3. CASE p = Pool(q)
    <3>1. HeldIn(p)' = HeldIn(p) \union {q} /\ free'[p] = free[p] - 1
      BY <1>4, <1>5, <2>3 DEF HeldIn, Shapes
    <3>2. Cardinality(HeldIn(p)') = Cardinality(HeldIn(p)) + 1 /\ Cardinality(HeldIn(p)) \in Nat
      BY <2>2, <3>1, PeerSets
    <3> QED
      BY <2>1, <3>1, <3>2
  <2>4. CASE p # Pool(q)
    <3>1. HeldIn(p)' = HeldIn(p) /\ free'[p] = free[p]
      BY <1>4, <1>5, <2>4 DEF HeldIn, Shapes
    <3> QED
      BY <2>1, <3>1
  <2> QED
    BY <2>3, <2>4
<1> QED
  BY <1>6, <1>7, <1>8, <1>9, <1>10, <1>11, PermitParts

(* Once the headers are read, the request is at the gate inside its connection. *)
LEMMA RouteStep ==
    ASSUME ServerInv, NEW q \in Requests, Route(q)
    PROVE  ServerInv'
<1> USE DEF ServerInv
<1> DEFINE c == [connection[q] EXCEPT !.stage = "handler", !.routed = now, !.begun = now]
           r == [pc |-> "gate", sampled |-> now]
<1>1. /\ q \in Connected /\ connection[q] \in Connections /\ connection[q].stage = "headers"
      /\ Sample(q) /\ server' = server /\ free' = free
      /\ connection' = [connection EXCEPT ![q] = c]
  BY DEF Route, Shapes, Connected
<1>2. /\ request[q].pc = "idle" /\ now' = now /\ slots' = slots /\ now \in Nat
      /\ request' = [request EXCEPT ![q] = r]
  BY <1>1 DEF Sample, Shapes
<1>3. /\ c \in Connections /\ c.stage = "handler" /\ c.routed = now /\ c.begun = now
      /\ c.since = connection[q].since
  BY <1>1, <1>2 DEF Connections
<1>4. r \in [pc : {"idle", "gate", "running"}, sampled : Nat \union {None}] /\ r.pc = "gate"
  BY <1>2
<1> HIDE DEF c, r
<1>5. /\ connection' \in [Requests -> Connections \union {None}]
      /\ connection'[q] = c
      /\ \A o \in Requests \ {q} : connection'[o] = connection[o]
  BY <1>1, <1>3, ConnectionSet
<1>6. /\ request' \in [Requests -> [pc : {"idle", "gate", "running"},
                                    sampled : Nat \union {None}]]
      /\ request'[q] = r
      /\ \A o \in Requests \ {q} : request'[o] = request[o]
  BY <1>2, <1>4, RequestSet
<1>7. Connected' = Connected
  BY <1>1, <1>3, <1>5, RecordShapes DEF Connected
<1>8. Shapes'
  BY <1>1, <1>2, <1>5, <1>6 DEF Shapes
<1>9. BucketInv'
  BY <1>1, SampleStep
<1>10. HandledInv'
  BY <1>1, <1>3, <1>5, <1>6, <1>7 DEF HandledInv
<1>11. TimesInv'
  <2>1. ASSUME NEW o \in Connected
        PROVE  /\ connection'[o].since <= connection'[o].routed
               /\ connection'[o].routed <= connection'[o].begun
               /\ connection'[o].begun <= now
               /\ connection'[o].routed <= connection'[o].since + HeaderTimeout
               /\ connection'[o].stage = "headers" => now <= connection'[o].since + HeaderTimeout
               /\ now <= connection'[o].since + Lifetime
    <3>1. CASE o = q
      BY <1>1, <1>2, <1>3, <1>5, <3>1 DEF TimesInv, Connections
    <3>2. CASE o # q
      BY <1>5, <3>2 DEF TimesInv, Connected
    <3> QED
      BY <3>1, <3>2
  <2> QED
    BY <1>1, <1>2, <1>7, <2>1 DEF TimesInv
<1>12. SlotsHeld'
  BY <1>2, <1>4, <1>6, SlotsKept, PermitParts
<1>13. PoolsAccountedFor'
  BY <1>1, <1>7, PoolsKept, PermitParts
<1> QED
  BY <1>8, <1>9, <1>10, <1>11, <1>12, <1>13, PermitParts

(* A connection that moves on within its times keeps them. *)
LEMMA MovedTimes ==
    ASSUME Shapes, TimesInv, NEW q \in Connected, NEW stage \in {"handler", "response"},
           MovesTo(q, stage), now' = now
    PROVE  TimesInv'
<1>1. /\ connection'[q] = [connection[q] EXCEPT !.stage = stage]
      /\ \A o \in Requests \ {q} : connection'[o] = connection[o]
      /\ Connected' = Connected /\ server' = server
  BY Moved
<1>2. q \in Requests /\ connection[q] \in Connections
  BY DEF Shapes, Connected
<1>3. /\ connection'[q].stage # "headers"
      /\ connection'[q].since = connection[q].since
      /\ connection'[q].routed = connection[q].routed
      /\ connection'[q].begun = connection[q].begun
  BY <1>1, <1>2 DEF Connections
<1> QED
  BY <1>1, <1>3 DEF TimesInv, Connected

(* The gate refuses, admits, or has no slot: the connection goes on to its
   response, or to its handler. *)
LEMMA GateStep ==
    ASSUME ServerInv, NEW q \in Requests, PassGate(q)
    PROVE  ServerInv'
<1> USE DEF ServerInv
<1>1. /\ request[q].pc = "gate" /\ now' = now /\ now \in Nat
      /\ Limited(q) \/ Allowed(q)
      /\ request[q].pc # "idle"
  BY DEF PassGate, Limited, Allowed, Shapes
<1>2. /\ \A o \in Requests \ {q} : request'[o] = request[o]
      /\ \/ request'[q] = Idle /\ slots' = slots
         \/ request'[q].pc = "running" /\ slots' = slots - 1 /\ slots > 0
      /\ request' \in [Requests -> [pc : {"idle", "gate", "running"},
                                    sampled : Nat \union {None}]]
  <2>1. CASE request' = [request EXCEPT ![q] = Idle] /\ slots' = slots
    BY <2>1, RecordShapes, RequestSet
  <2>2. CASE request' = [request EXCEPT ![q].pc = "running"] /\ slots > 0 /\ slots' = slots - 1
    <3> DEFINE r == [request[q] EXCEPT !.pc = "running"]
    <3>1. r \in [pc : {"idle", "gate", "running"}, sampled : Nat \union {None}] /\ r.pc = "running"
      BY DEF Shapes
    <3>2. request' = [request EXCEPT ![q] = r]
      BY <2>2
    <3> HIDE DEF r
    <3> QED
      BY <2>2, <3>1, <3>2, RequestSet
  <2> QED
    BY <1>1, <2>1, <2>2 DEF Limited, Allowed
<1>3. q \in Connected /\ connection[q].stage = "handler"
  BY <1>1 DEF HandledInv
<1>4. ASSUME MovesTo(q, "response"), request'[q].pc = "idle"
      PROVE  /\ connection' \in [Requests -> Connections \union {None}]
             /\ Connected' = Connected /\ server' = server /\ free' = free
             /\ HandledInv' /\ TimesInv'
  <2>1. /\ connection' \in [Requests -> Connections \union {None}]
        /\ \A o \in Requests \ {q} : connection'[o] = connection[o]
        /\ Connected' = Connected /\ server' = server /\ free' = free
    BY <1>3, <1>4, Moved
  <2>2. TimesInv'
    BY <1>1, <1>3, <1>4, MovedTimes
  <2>3. HandledInv'
    BY <1>2, <1>4, <2>1 DEF HandledInv
  <2> QED
    BY <2>1, <2>2, <2>3
<1>5. ASSUME request'[q].pc = "running",
             connection' = [connection EXCEPT ![q].begun = now],
             UNCHANGED <<server, free>>
      PROVE  /\ connection' \in [Requests -> Connections \union {None}]
             /\ Connected' = Connected /\ server' = server /\ free' = free
             /\ HandledInv' /\ TimesInv'
  <2>1. /\ connection' \in [Requests -> Connections \union {None}]
        /\ connection'[q].stage = "handler"
        /\ \A o \in Requests \ {q} : connection'[o] = connection[o]
        /\ Connected' = Connected /\ server' = server /\ free' = free /\ TimesInv'
    BY <1>1, <1>3, <1>5, Begun
  <2>2. HandledInv'
    BY <1>2, <1>3, <2>1 DEF HandledInv
  <2> QED
    BY <2>1, <2>2
<1>6. \/ MovesTo(q, "response") /\ request'[q].pc = "idle"
      \/ /\ request'[q].pc = "running"
         /\ connection' = [connection EXCEPT ![q].begun = now]
         /\ UNCHANGED <<server, free>>
  <2>1. CASE Limited(q) /\ MovesTo(q, "response")
    <3>1. request'[q] = Idle
      BY <2>1 DEF Limited, Shapes
    <3> QED
      BY <2>1, <3>1, RecordShapes
  <2>2. CASE request'[q].pc # "running" /\ MovesTo(q, "response")
    BY <1>2, <2>2, RecordShapes
  <2> QED
    BY <2>1, <2>2 DEF PassGate
<1>7. /\ connection' \in [Requests -> Connections \union {None}]
      /\ Connected' = Connected /\ server' = server /\ free' = free
      /\ HandledInv' /\ TimesInv'
  BY <1>4, <1>5, <1>6
<1>8. Shapes'
  BY <1>1, <1>2, <1>7 DEF Shapes
<1>9. BucketInv'
  BY <1>1, BucketStep
<1>10. SlotsHeld'
  <2>1. CASE request'[q] = Idle /\ slots' = slots
    BY <1>1, <1>2, <2>1, RecordShapes, SlotsKept, PermitParts
  <2>2. CASE request'[q].pc = "running" /\ slots' = slots - 1
    BY <1>1, <1>2, <2>2, SlotTaken, PermitParts
  <2> QED
    BY <1>2, <2>1, <2>2
<1>11. PoolsAccountedFor'
  BY <1>7, PoolsKept, PermitParts
<1> QED
  BY <1>7, <1>8, <1>9, <1>10, <1>11, PermitParts

(* The end of a handler returns its slot, whether its connection goes on or not. *)
LEMMA EndedShape ==
    ASSUME ServerInv, NEW q \in Requests, Ended(q)
    PROVE  /\ request[q].pc = "running" /\ now' = now /\ slots' \in Nat
           /\ request' \in [Requests -> [pc : {"idle", "gate", "running"},
                                         sampled : Nat \union {None}]]
           /\ request'[q] = Idle
           /\ \A o \in Requests \ {q} : request'[o] = request[o]
           /\ BucketInv' /\ SlotsHeld'
<1> USE DEF ServerInv
<1>1. /\ request[q].pc = "running" /\ now' = now /\ slots' = slots + 1
      /\ UNCHANGED <<tokens, updated, admitted, ordered>>
      /\ request' = [request EXCEPT ![q] = Idle]
  BY DEF Ended
<1>2. /\ request' \in [Requests -> [pc : {"idle", "gate", "running"},
                                    sampled : Nat \union {None}]]
      /\ request'[q] = Idle
      /\ \A o \in Requests \ {q} : request'[o] = request[o]
  BY <1>1, RecordShapes, RequestSet
<1>3. BucketInv'
  BY <1>1, <1>2, RecordShapes, BucketKept DEF Shapes
<1>4. SlotsHeld'
  BY <1>1, <1>2, RecordShapes, SlotReturned, PermitParts
<1> QED
  BY <1>1, <1>2, <1>3, <1>4 DEF Shapes

LEMMA AnswerStep ==
    ASSUME ServerInv, NEW q \in Requests, Answer(q)
    PROVE  ServerInv'
<1> USE DEF ServerInv
<1>1. Ended(q) /\ MovesTo(q, "response")
  BY DEF Answer
<1>2. /\ request[q].pc = "running" /\ now' = now /\ slots' \in Nat
      /\ request' \in [Requests -> [pc : {"idle", "gate", "running"},
                                    sampled : Nat \union {None}]]
      /\ request'[q] = Idle
      /\ \A o \in Requests \ {q} : request'[o] = request[o]
      /\ BucketInv' /\ SlotsHeld'
  BY <1>1, EndedShape
<1>3. q \in Connected
  BY <1>2 DEF HandledInv
<1>4. /\ connection' \in [Requests -> Connections \union {None}]
      /\ \A o \in Requests \ {q} : connection'[o] = connection[o]
      /\ Connected' = Connected /\ server' = server /\ free' = free
  BY <1>1, <1>3, Moved
<1>5. Shapes'
  BY <1>2, <1>4 DEF Shapes
<1>6. HandledInv'
  BY <1>2, <1>3, <1>4, RecordShapes DEF HandledInv
<1>7. TimesInv'
  BY <1>1, <1>2, <1>3, MovedTimes
<1>8. PoolsAccountedFor'
  BY <1>4, PoolsKept, PermitParts
<1> QED
  BY <1>2, <1>5, <1>6, <1>7, <1>8, PermitParts

(* A connection that ends takes its handler with it and returns both permits. *)
LEMMA CloseStep ==
    ASSUME ServerInv, NEW q \in Requests, Close(q)
    PROVE  ServerInv'
<1> USE DEF ServerInv
<1>1. /\ q \in Connected /\ server' = server
      /\ request[q].pc # "gate"
      /\ connection' = [connection EXCEPT ![q] = None]
      /\ Pool(q) \in Pools /\ free' = [free EXCEPT ![Pool(q)] = @ + 1]
  BY DEF Close, Pool, Pools
<1>2. /\ now' = now /\ slots' \in Nat
      /\ request' \in [Requests -> [pc : {"idle", "gate", "running"},
                                    sampled : Nat \union {None}]]
      /\ request'[q].pc = "idle"
      /\ \A o \in Requests \ {q} : request'[o] = request[o]
      /\ BucketInv' /\ SlotsHeld'
  <2>1. CASE request[q].pc = "running" /\ Ended(q)
    BY <2>1, EndedShape, RecordShapes
  <2>2. CASE request[q].pc # "running" /\ UNCHANGED vars
    <3>1. /\ request' = request /\ slots' = slots /\ now' = now
          /\ UNCHANGED <<tokens, updated, admitted, ordered>>
      BY <2>2 DEF vars
    <3>2. BucketInv' /\ SlotsHeld'
      BY <3>1, BucketKept, SlotsKept, PermitParts DEF Shapes
    <3>3. request[q].pc = "idle"
      BY <1>1, <2>2 DEF Shapes
    <3> QED
      BY <3>1, <3>2, <3>3 DEF Shapes
  <2> QED
    BY <2>1, <2>2 DEF Close
<1>3. /\ connection' \in [Requests -> Connections \union {None}]
      /\ connection'[q] = None
      /\ \A o \in Requests \ {q} : connection'[o] = connection[o]
  BY <1>1, ConnectionSet
<1>4. Connected' = Connected \ {q}
  BY <1>3 DEF Connected
<1>5. Shapes'
  BY <1>1, <1>2, <1>3 DEF Shapes
<1>6. HandledInv'
  BY <1>1, <1>2, <1>3, <1>4 DEF HandledInv
<1>7. TimesInv'
  BY <1>1, <1>2, <1>3, <1>4 DEF TimesInv, Connected
<1>8. PoolsAccountedFor'
  <2> SUFFICES ASSUME NEW p \in Pools PROVE (free[p] + Cardinality(HeldIn(p)) = Permits[p])'
    BY DEF PoolsAccountedFor
  <2>1. free[p] + Cardinality(HeldIn(p)) = Permits[p] /\ free[p] \in Nat
    BY PermitParts DEF PoolsAccountedFor, Shapes
  <2>2. HeldIn(p) \subseteq Requests
    BY DEF HeldIn, Connected
  <2>3. CASE p = Pool(q)
    <3>1. HeldIn(p)' = HeldIn(p) \ {q} /\ q \in HeldIn(p) /\ free'[p] = free[p] + 1
      BY <1>1, <1>4, <2>3 DEF HeldIn, Shapes
    <3>2. Cardinality(HeldIn(p)') = Cardinality(HeldIn(p)) - 1 /\ Cardinality(HeldIn(p)) \in Nat
      BY <2>2, <3>1, PeerSets
    <3> QED
      BY <2>1, <3>1, <3>2
  <2>4. CASE p # Pool(q)
    <3>1. HeldIn(p)' = HeldIn(p) /\ free'[p] = free[p]
      BY <1>1, <1>4, <2>4 DEF HeldIn, Shapes
    <3> QED
      BY <2>1, <3>1
  <2> QED
    BY <2>3, <2>4
<1> QED
  BY <1>2, <1>5, <1>6, <1>7, <1>8, PermitParts

(* The accept loop's own steps leave connections and the gate alone. *)
LEMMA LoopStep ==
    ASSUME ServerInv, AcceptFails \/ AcceptAgain \/ StopAccepting \/ Drained
    PROVE  ServerInv'
<1> USE DEF ServerInv
<1>1. /\ UNCHANGED vars /\ free' = free /\ connection' = connection /\ now \in Nat
      /\ server' \in [phase : Phases, until : Nat]
      /\ server'.phase \in {"paused", "draining"} => server'.until \in now .. now + Grace + 1
      /\ server'.phase \in {"ended", "failed"} => Connected = {}
  BY DEF AcceptFails, AcceptAgain, StopAccepting, Drained, Shapes, Phases
<1>2. /\ request' = request /\ slots' = slots /\ now' = now
      /\ UNCHANGED <<tokens, updated, admitted, ordered>>
      /\ Connected' = Connected
  BY <1>1 DEF vars, Connected
<1>3. Shapes'
  BY <1>1, <1>2 DEF Shapes
<1>4. BucketInv'
  BY <1>1, <1>2, BucketKept
<1>5. HandledInv'
  BY <1>1, <1>2 DEF HandledInv
<1>6. TimesInv'
  BY <1>1, <1>2 DEF TimesInv
<1>7. SlotsHeld' /\ PoolsAccountedFor'
  BY <1>1, <1>2, SlotsKept, PoolsKept, PermitParts
<1> QED
  BY <1>3, <1>4, <1>5, <1>6, <1>7, PermitParts

(* The abort returns the permit of every connection and of every handler. *)
LEMMA AbortStep ==
    ASSUME ServerInv, AbortAll
    PROVE  ServerInv'
<1> USE DEF ServerInv
<1>1. /\ server' = [phase |-> "failed", until |-> 0] /\ now' = now /\ now \in Nat
      /\ UNCHANGED <<tokens, updated, admitted, ordered>>
      /\ request' = [q \in Requests |-> Idle]
      /\ connection' = [q \in Requests |-> None]
      /\ slots' = slots + Cardinality(Handled)
      /\ free' = [p \in Pools |-> free[p] + Cardinality(HeldIn(p))]
  BY DEF AbortAll, Handled, HeldIn, Shapes
<1>2. Connected' = {}
  BY <1>1 DEF Connected
<1>3. Handled' = {} /\ \A p \in Pools : HeldIn(p)' = {}
  BY <1>1, <1>2, RecordShapes DEF Handled, HeldIn
<1>4. Cardinality({}) = 0
  BY FS_EmptySet
<1>5. Cardinality(Handled) \in Nat
  BY PeerSets DEF Handled
<1>6. \A p \in Pools : Cardinality(HeldIn(p)) \in Nat
  BY PeerSets DEF HeldIn, Connected
<1>7. Shapes'
  <2>1. server' \in [phase : Phases, until : Nat]
    BY <1>1 DEF Phases
  <2>2. free' \in [Pools -> Nat]
    BY <1>1, <1>6 DEF Shapes
  <2> QED
    BY <1>1, <1>5, <2>1, <2>2, RecordShapes DEF Shapes
<1>8. BucketInv'
  BY <1>1, RecordShapes, BucketKept
<1>9. HandledInv'
  BY <1>1, <1>2, RecordShapes DEF HandledInv
<1>10. TimesInv'
  BY <1>1, <1>2 DEF TimesInv
<1>11. SlotsHeld'
  <2>1. slots + Cardinality(Handled) = Concurrency
    BY PermitParts DEF SlotsHeld
  <2> QED
    BY <1>1, <1>3, <1>4, <2>1 DEF SlotsHeld
<1>12. PoolsAccountedFor'
  <2> SUFFICES ASSUME NEW p \in Pools
               PROVE  (free[p] + Cardinality(HeldIn(p)) = Permits[p])'
    BY DEF PoolsAccountedFor
  <2>1. free[p] + Cardinality(HeldIn(p)) = Permits[p]
    BY PermitParts DEF PoolsAccountedFor
  <2>2. free'[p] = Permits[p]
    BY <1>1, <2>1
  <2>3. Cardinality(HeldIn(p)') = 0
    BY <1>3, <1>4
  <2>4. Permits[p] \in Nat
    BY DEF Permits, Pools
  <2> QED
    BY <2>2, <2>3, <2>4 DEF Permits
<1> QED
  BY <1>7, <1>8, <1>9, <1>10, <1>11, <1>12, PermitParts

(* The clock stops at every deadline that is due. *)
LEMMA TimeStep ==
    ASSUME ServerInv, TimePasses
    PROVE  ServerInv'
<1> USE DEF ServerInv
<1>1. /\ now' = now + 1 /\ now \in Nat
      /\ UNCHANGED <<tokens, updated, slots, request, admitted, ordered>>
      /\ server' = server /\ free' = free /\ connection' = connection
      /\ \A q \in Requests : ~ HeadersLate(q) /\ ~ LifetimeOver(q)
      /\ server.phase \in {"paused", "draining"} => now < server.until
  BY DEF TimePasses, Tick, serverVars, Shapes
<1>2. Connected' = Connected
  BY <1>1 DEF Connected
<1>3. Shapes'
  BY <1>1 DEF Shapes
<1>4. BucketInv'
  BY <1>1, BucketKept
<1>5. HandledInv'
  BY <1>1, <1>2 DEF HandledInv
<1>6. TimesInv'
  <2>1. server.phase \in {"paused", "draining"} => server.until \in now' .. now' + Grace + 1
    BY <1>1 DEF TimesInv
  <2>2. ASSUME NEW q \in Connected
        PROVE  /\ connection[q].since <= connection[q].routed
               /\ connection[q].routed <= connection[q].begun
               /\ connection[q].begun <= now'
               /\ connection[q].routed <= connection[q].since + HeaderTimeout
               /\ connection[q].stage = "headers" => now' <= connection[q].since + HeaderTimeout
               /\ now' <= connection[q].since + Lifetime
    <3>1. /\ q \in Requests /\ connection[q].since \in Nat /\ connection[q].routed \in Nat
          /\ connection[q].begun \in Nat
          /\ now < connection[q].since + Lifetime
          /\ connection[q].stage = "headers" => now < connection[q].since + HeaderTimeout
      BY <1>1 DEF Shapes, Connected, Connections, HeadersLate, LifetimeOver
    <3> QED
      BY <1>1, <3>1 DEF TimesInv
  <2> QED
    BY <1>1, <1>2, <2>1, <2>2 DEF TimesInv
<1>7. SlotsHeld' /\ PoolsAccountedFor'
  BY <1>1, <1>2, SlotsKept, PoolsKept, PermitParts
<1> QED
  BY <1>3, <1>4, <1>5, <1>6, <1>7, PermitParts

LEMMA StutterStep ==
    ASSUME ServerInv, UNCHANGED allVars
    PROVE  ServerInv'
<1>1. /\ UNCHANGED <<now, tokens, updated, slots, request, admitted, ordered>>
      /\ UNCHANGED <<server, free, connection>>
  BY DEF allVars, vars, serverVars
<1> QED
  BY <1>1 DEF ServerInv, Shapes, BucketInv, HandledInv, TimesInv, PermitsAccountedFor,
              SlotsAccountedFor, Connected

-----------------------------------------------------------------------------
LEMMA ServerInitially == ServerInit => ServerInv
<1> SUFFICES ASSUME ServerInit PROVE ServerInv
  OBVIOUS
<1>1. /\ now = 0 /\ tokens = Rate /\ updated = 0 /\ slots = Concurrency /\ admitted = 0
      /\ ordered = TRUE /\ request = [q \in Requests |-> Idle]
      /\ server = [phase |-> "accepting", until |-> 0]
      /\ free = Permits /\ connection = [q \in Requests |-> None]
  BY DEF ServerInit, Init
<1>2. Connected = {} /\ Handled = {} /\ \A p \in Pools : HeldIn(p) = {}
  BY <1>1, RecordShapes DEF Connected, Handled, HeldIn
<1>3. Cardinality({}) = 0
  BY FS_EmptySet
<1>4. Permits \in [Pools -> Nat]
  BY DEF Permits, Pools
<1>5. Shapes
  BY <1>1, <1>4, RecordShapes DEF Shapes, Phases
<1>6. BucketInv
  BY <1>1, RecordShapes DEF BucketInv
<1>7. HandledInv /\ TimesInv
  BY <1>1, <1>2, RecordShapes DEF HandledInv, TimesInv
<1>8. SlotsHeld /\ PoolsAccountedFor
  BY <1>1, <1>2, <1>3, <1>4 DEF SlotsHeld, PoolsAccountedFor
<1> QED
  BY <1>5, <1>6, <1>7, <1>8, PermitParts DEF ServerInv

LEMMA ServerStep == ServerInv /\ [ServerNext]_allVars => ServerInv'
  BY AcceptStep, RouteStep, GateStep, AnswerStep, CloseStep, LoopStep, AbortStep, TimeStep,
     StutterStep DEF ServerNext

LEMMA ServerInvariance == ServerSpec => []ServerInv
  BY ServerInitially, ServerStep, PTL DEF ServerSpec

(* Types: the pools and the gate never hand out more permits than they have, and
   every instant the server keeps lies within its deadline. *)
THEOREM ServerTypes == ServerSpec => []ServerTypeOK
<1>1. ServerInv => ServerTypeOK
  <2> SUFFICES ASSUME ServerInv PROVE ServerTypeOK
    OBVIOUS
  <2> USE DEF ServerInv
  <2>1. TypeOK
    <3>1. Cardinality(Handled) \in Nat /\ slots + Cardinality(Handled) = Concurrency
      BY PeerSets, PermitParts DEF Handled, SlotsHeld
    <3>2. slots \in 0 .. Concurrency
      BY <3>1 DEF Shapes
    <3> QED
      BY <3>2 DEF TypeOK, Shapes, BucketInv
  <2>2. \A p \in Pools : free[p] \in 0 .. Permits[p]
    <3> SUFFICES ASSUME NEW p \in Pools PROVE free[p] \in 0 .. Permits[p]
      OBVIOUS
    <3>1. HeldIn(p) \subseteq Requests
      BY DEF HeldIn, Connected
    <3>2. Cardinality(HeldIn(p)) \in Nat /\ free[p] + Cardinality(HeldIn(p)) = Permits[p]
          /\ free[p] \in Nat
      BY <3>1, PeerSets, PermitParts DEF PoolsAccountedFor, Shapes
    <3> QED
      BY <3>2
  <2>3. /\ server.phase \in Phases
        /\ server.phase \in {"paused", "draining"} => server.until \in now .. now + Grace + 1
    BY DEF Shapes, TimesInv
  <2>4. ASSUME NEW q \in Connected
        PROVE  /\ connection[q].stage \in {"headers", "handler", "response"}
               /\ now - Lifetime <= connection[q].since
               /\ connection[q].since <= connection[q].routed
               /\ connection[q].routed <= connection[q].begun
               /\ connection[q].begun <= now
    <3>1. connection[q] \in Connections /\ now \in Nat
      BY DEF Shapes, Connected
    <3>2. /\ connection[q].since \in Nat
          /\ connection[q].stage \in {"headers", "handler", "response"}
      BY <3>1 DEF Connections
    <3> QED
      BY <3>1, <3>2 DEF TimesInv
  <2> QED
    BY <2>1, <2>2, <2>3, <2>4 DEF ServerTypeOK, Phases
<1> QED
  BY <1>1, ServerInvariance, PTL

(* No permit of either pool or of the gate is lost, or handed out twice. *)
THEOREM Permitted == ServerSpec => []PermitsAccountedFor
<1>1. ServerInv => PermitsAccountedFor
  BY DEF ServerInv
<1> QED
  BY <1>1, ServerInvariance, PTL

(* While requests reach the bucket in the order in which they read the clock, it
   admits at most one burst and what the elapsed time refills. *)
THEOREM Admission == ServerSpec => []AdmissionBoundInOrder
<1>1. ServerInv => AdmissionBoundInOrder
  <2> SUFFICES ASSUME ServerInv, ordered PROVE admitted <= Rate + now
    BY DEF AdmissionBoundInOrder, AdmissionBound
  <2>1. /\ admitted + tokens <= Rate + updated /\ updated <= now /\ now \in Nat
        /\ admitted \in Nat /\ tokens \in Nat /\ updated \in Nat
    BY DEF ServerInv, BucketInv, Shapes
  <2> QED
    BY <2>1
<1> QED
  BY <1>1, ServerInvariance, PTL

(* A server that has stopped handles nothing, and has all its slots back. *)
THEOREM StoppedIdle == ServerSpec => []StoppedServerIsIdle
<1>1. ServerInv => StoppedServerIsIdle
  <2> SUFFICES ASSUME ServerInv PROVE StoppedServerIsIdle
    OBVIOUS
  <2> USE DEF ServerInv
  <2>1. \A q \in Requests : request[q].pc # "idle" => q \in Connected
    BY DEF HandledInv
  <2>2. ASSUME server.phase \in {"ended", "failed"} PROVE Connected = {} /\ slots = Concurrency
    <3>1. Connected = {}
      BY <2>2 DEF HandledInv
    <3>2. Handled = {}
      BY <2>1, <3>1 DEF Handled
    <3> QED
      BY <3>1, <3>2, FS_EmptySet, PermitParts DEF SlotsHeld, Shapes
  <2> QED
    BY <2>1, <2>2 DEF StoppedServerIsIdle
<1> QED
  BY <1>1, ServerInvariance, PTL

(* A handler that the lifetime of its connection cuts short had been routed its
   own deadline before: it lacks no more than its request spent in the gate. *)
THEOREM WholeHandlerTime == ServerSpec => []HandlersEndFirst
<1>1. ServerInv => HandlersEndFirst
  <2> SUFFICES ASSUME ServerInv, NEW q \in Requests, LifetimeOver(q), request[q].pc = "running"
               PROVE  now - connection[q].routed >= HandlerTimeout
    BY DEF HandlersEndFirst
  <2>1. /\ q \in Connected /\ connection[q] \in Connections /\ now \in Nat
        /\ now >= connection[q].since + Lifetime
        /\ connection[q].routed <= connection[q].since + HeaderTimeout
    BY DEF LifetimeOver, Connected, ServerInv, Shapes, TimesInv
  <2>2. connection[q].since \in Nat /\ connection[q].routed \in Nat
    BY <2>1 DEF Connections
  <2> QED
    BY <2>1, <2>2
<1> QED
  BY <1>1, ServerInvariance, PTL
=============================================================================
