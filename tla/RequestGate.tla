---------------------------- MODULE RequestGate ----------------------------
(***************************************************************************)
(* limits.rs: the token bucket and the concurrency slots in front of one   *)
(* group of routes.  A unit of time is the time one token takes to refill  *)
(* (1 / rate seconds), so tokens are whole.  A request samples the clock   *)
(* before it takes the bucket's mutex (limits.rs:86), so requests may      *)
(* reach the bucket in another order than they read the clock.             *)
(***************************************************************************)
EXTENDS Integers, FiniteSets

CONSTANTS
    Requests,       \* requests that can be in progress at once
    Rate,           \* requests per second: also the burst, one second's allowance
    Concurrency,    \* handlers that may run at once
    MaxNow,         \* bound: the clock stops there
    None

ASSUME RequestsAssumption == IsFiniteSet(Requests)
ASSUME RateAssumption == Rate \in Nat \ {0}
ASSUME ConcurrencyAssumption == Concurrency \in Nat \ {0}

VARIABLES
    now,
    tokens,      \* Bucket.tokens
    updated,     \* Bucket.updated
    slots,       \* permits left in Gate.slots
    request,     \* per request: [pc, sampled]
    admitted,    \* history: requests the bucket let through so far
    ordered      \* history: the bucket has never seen the time go back

vars == <<now, tokens, updated, slots, request, admitted, ordered>>

Idle == [pc |-> "idle", sampled |-> None]

Init ==
    /\ now = 0
    /\ tokens = Rate
    /\ updated = 0
    /\ slots = Concurrency
    /\ request = [q \in Requests |-> Idle]
    /\ admitted = 0
    /\ ordered = TRUE

\* The argument of gate.allow(clock.now_monotonic()).
Sample(q) ==
    /\ request[q].pc = "idle"
    /\ request' = [request EXCEPT ![q] = [pc |-> "gate", sampled |-> now]]
    /\ UNCHANGED <<now, tokens, updated, slots, admitted, ordered>>

\* Tokens after a refill at instant t; the elapsed time saturates at zero.
Refilled(t) ==
    LET elapsed == IF t > updated THEN t - updated ELSE 0
        sum == tokens + elapsed
    IN  IF sum < Rate THEN sum ELSE Rate

\* Gate::allow refuses: 429.  The refill, and the instant, are kept.
Limited(q) ==
    /\ request[q].pc = "gate"
    /\ Refilled(request[q].sampled) < 1
    /\ tokens' = Refilled(request[q].sampled)
    /\ updated' = request[q].sampled
    /\ request' = [request EXCEPT ![q] = Idle]
    /\ ordered' = (ordered /\ request[q].sampled >= updated)
    /\ UNCHANGED <<now, slots, admitted>>

\* Mutant: the refill instant is kept only by refusals.
AllowedUndated(q) ==
    /\ request[q].pc = "gate"
    /\ Refilled(request[q].sampled) >= 1
    /\ tokens' = Refilled(request[q].sampled) - 1
    /\ admitted' = admitted + 1
    /\ ordered' = (ordered /\ request[q].sampled >= updated)
    /\ IF slots > 0
       THEN /\ slots' = slots - 1
            /\ request' = [request EXCEPT ![q].pc = "running"]
       ELSE /\ UNCHANGED slots
            /\ request' = [request EXCEPT ![q] = Idle]
    /\ UNCHANGED <<now, updated>>

\* Gate::allow admits; without a free slot the answer is 503, and the token is
\* spent all the same.
Allowed(q) ==
    /\ request[q].pc = "gate"
    /\ Refilled(request[q].sampled) >= 1
    /\ tokens' = Refilled(request[q].sampled) - 1
    /\ updated' = request[q].sampled
    /\ admitted' = admitted + 1
    /\ ordered' = (ordered /\ request[q].sampled >= updated)
    /\ IF slots > 0
       THEN /\ slots' = slots - 1
            /\ request' = [request EXCEPT ![q].pc = "running"]
       ELSE /\ UNCHANGED slots
            /\ request' = [request EXCEPT ![q] = Idle]
    /\ UNCHANGED now

\* The handler answers, reaches the 20 second deadline (408), or is dropped with
\* its connection: the permit goes back in every case.
Ended(q) ==
    /\ request[q].pc = "running"
    /\ slots' = slots + 1
    /\ request' = [request EXCEPT ![q] = Idle]
    /\ UNCHANGED <<now, tokens, updated, admitted, ordered>>

Tick ==
    /\ now < MaxNow
    /\ now' = now + 1
    /\ UNCHANGED <<tokens, updated, slots, request, admitted, ordered>>

Next ==
    \/ \E q \in Requests : Sample(q) \/ Limited(q) \/ Allowed(q) \/ Ended(q)
    \/ Tick

Spec == Init /\ [][Next]_vars

-----------------------------------------------------------------------------
\* Types; the bucket never holds more than its burst, and its instant is past.
TypeOK ==
    /\ now \in Nat
    /\ tokens \in 0 .. Rate
    /\ updated \in 0 .. now
    /\ slots \in 0 .. Concurrency
    /\ \A q \in Requests : /\ request[q].pc \in {"idle", "gate", "running"}
                           /\ request[q].pc # "idle" => request[q].sampled \in 0 .. now

\* Never more handlers at once than configured, and no permit is ever lost.
SlotsAccountedFor ==
    slots + Cardinality({q \in Requests : request[q].pc = "running"}) = Concurrency

\* "Buckets can burst up to one second's allowance": from the start, at most the
\* burst plus what the elapsed time refills is let through.
AdmissionBound == admitted <= Rate + now

\* And so it is whatever the interleaving, as long as the requests reach the
\* bucket in the order in which they read the clock.
AdmissionBoundInOrder == ordered => AdmissionBound
=============================================================================
