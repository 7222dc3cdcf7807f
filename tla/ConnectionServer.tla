--------------------------- MODULE ConnectionServer ---------------------------
(***************************************************************************)
(* serve_until of lifecycle.rs, and behind it one gate of limits.rs.  The  *)
(* accept loop gives each connection a slot of its pool, each connection   *)
(* carries one request, and what ends the connection drops its handler.    *)
(* Parsing HTTP is left to hyper; a connection whose client is gone may    *)
(* end at any time.                                                        *)
(***************************************************************************)
EXTENDS RequestGate

CONSTANTS
    Loopback,          \* the peers that connect over loopback
    MaxConnections,    \* ConnectionLimits.max_connections: slots of the other peers
    MaxLocal,          \* slots of the loopback peers: at most four
    HeaderTimeout,     \* ConnectionLimits.header_timeout: 5 seconds
    HandlerTimeout,    \* the deadline in limit_requests: 20 seconds
    Lifetime,          \* ConnectionLimits.lifetime: 25 seconds
    Grace              \* RuntimeConfig.shutdown_seconds

ASSUME ServerAssumption ==
    /\ Loopback \subseteq Requests
    /\ {MaxConnections, MaxLocal} \subseteq Nat \ {0}
    /\ {HeaderTimeout, HandlerTimeout, Lifetime, Grace} \subseteq Nat \ {0}
    /\ HeaderTimeout + HandlerTimeout <= Lifetime
    /\ None \notin [stage : {"headers", "handler", "response"},
                    since : Nat, routed : Nat, begun : Nat]

VARIABLES
    server,        \* where serve_until is, and the instant it waits for
    free,          \* permits left in slots and local_slots
    connection     \* per peer: its task in the JoinSet, or None: since when it is there,
                   \* its request was routed and its handler begun (or may yet)

serverVars == <<server, free, connection>>
allVars == <<vars, serverVars>>

Pool(q) == IF q \in Loopback THEN "local" ELSE "remote"
Pools == {"local", "remote"}
Permits == [local |-> MaxLocal, remote |-> MaxConnections]
Connected == {q \in Requests : connection[q] # None}

ServerTypeOK ==
    /\ TypeOK
    /\ server.phase \in {"accepting", "paused", "draining", "ended", "failed"}
    /\ server.phase \in {"paused", "draining"} => server.until \in now .. now + Grace + 1
    /\ \A p \in Pools : free[p] \in 0 .. Permits[p]
    /\ \A q \in Connected :
        /\ connection[q].stage \in {"headers", "handler", "response"}
        /\ now - Lifetime <= connection[q].since
        /\ connection[q].since <= connection[q].routed
        /\ connection[q].routed <= connection[q].begun
        /\ connection[q].begun <= now

ServerInit ==
    /\ Init
    /\ server = [phase |-> "accepting", until |-> 0]
    /\ free = Permits
    /\ connection = [q \in Requests |-> None]

\* A peer whose pool is exhausted is dropped, which changes nothing.
Accept(q) ==
    /\ server.phase = "accepting"
    /\ q \notin Connected
    /\ free[Pool(q)] > 0
    /\ free' = [free EXCEPT ![Pool(q)] = @ - 1]
    /\ connection' = [connection EXCEPT ![q] =
                         [stage |-> "headers", since |-> now, routed |-> now, begun |-> now]]
    /\ UNCHANGED <<vars, server>>

\* accept fails: the loop sleeps for a second, and listens only for the shutdown.
AcceptFails ==
    /\ server.phase = "accepting"
    /\ server' = [phase |-> "paused", until |-> now + 1]
    /\ UNCHANGED <<vars, free, connection>>

AcceptAgain ==
    /\ server.phase = "paused"
    /\ now >= server.until
    /\ server' = [phase |-> "accepting", until |-> 0]
    /\ UNCHANGED <<vars, free, connection>>

-----------------------------------------------------------------------------
MovesTo(q, stage) ==
    /\ connection' = [connection EXCEPT ![q].stage = stage]
    /\ UNCHANGED <<server, free>>

\* The headers are read in time, and the request reaches limit_requests, where it
\* may have to wait for the gate.
Route(q) ==
    /\ q \in Connected
    /\ connection[q].stage = "headers"
    /\ Sample(q)
    /\ connection' = [connection EXCEPT ![q].stage = "handler",
                                         ![q].routed = now, ![q].begun = now]
    /\ UNCHANGED <<server, free>>

\* 429, 503, or on to the handler, whose deadline counts from here.
PassGate(q) ==
    \/ Limited(q) /\ MovesTo(q, "response")
    \/ Allowed(q) /\ request'[q].pc # "running" /\ MovesTo(q, "response")
    \/ /\ Allowed(q)
       /\ request'[q].pc = "running"
       /\ connection' = [connection EXCEPT ![q].begun = now]
       /\ UNCHANGED <<server, free>>

\* The handler answers, or is dropped at its deadline, which answers 408.
Answer(q) == Ended(q) /\ MovesTo(q, "response")

\* Mutant: the connection slot is kept when the connection ends early.
CloseLeaking(q) ==
    /\ q \in Connected
    /\ request[q].pc # "gate"
    /\ IF request[q].pc = "running" THEN Ended(q) ELSE UNCHANGED vars
    /\ connection' = [connection EXCEPT ![q] = None]
    /\ free' = [free EXCEPT ![Pool(q)] = IF connection[q].stage = "response" THEN @ + 1 ELSE @]
    /\ UNCHANGED server

\* The connection ends: its response is written, its client is gone, its headers
\* are late, its lifetime is over, or it was idle when the shutdown came.  Its
\* task is dropped, and with it the handler and both permits.
Close(q) ==
    /\ q \in Connected
    /\ request[q].pc # "gate"
    /\ IF request[q].pc = "running" THEN Ended(q) ELSE UNCHANGED vars
    /\ connection' = [connection EXCEPT ![q] = None]
    /\ free' = [free EXCEPT ![Pool(q)] = @ + 1]
    /\ UNCHANGED server

-----------------------------------------------------------------------------
\* The shutdown is seen by every select of the accept loop.  (The clock leaves
\* room for the grace period.)
StopAccepting ==
    /\ server.phase \in {"accepting", "paused"}
    /\ now + Grace <= MaxNow
    /\ server' = [phase |-> "draining", until |-> now + Grace]
    /\ UNCHANGED <<vars, free, connection>>

Drained ==
    /\ server.phase = "draining"
    /\ Connected = {}
    /\ server' = [phase |-> "ended", until |-> 0]
    /\ UNCHANGED <<vars, free, connection>>

\* Mutants: the tasks are left as they are, or the abort waits for the handlers.
AbortNothing ==
    /\ server.phase = "draining"
    /\ now >= server.until
    /\ server' = [phase |-> "failed", until |-> 0]
    /\ UNCHANGED <<vars, free, connection>>

AbortWhenIdle ==
    /\ server.phase = "draining"
    /\ now >= server.until
    /\ \A q \in Requests : request[q].pc = "idle"
    /\ server' = [phase |-> "failed", until |-> 0]
    /\ connection' = [q \in Requests |-> None]
    /\ free' = Permits
    /\ UNCHANGED vars

\* The grace period is over: abort_all, and wait until every task is dropped.  A
\* task is dropped where it awaits, so not inside the gate.
AbortAll ==
    /\ server.phase = "draining"
    /\ now >= server.until
    /\ Connected # {}
    /\ \A q \in Requests : request[q].pc # "gate"
    /\ server' = [phase |-> "failed", until |-> 0]
    /\ slots' = slots + Cardinality({q \in Requests : request[q].pc = "running"})
    /\ request' = [q \in Requests |-> Idle]
    /\ connection' = [q \in Requests |-> None]
    /\ free' = [p \in Pools |-> free[p] + Cardinality({q \in Connected : Pool(q) = p})]
    /\ UNCHANGED <<now, tokens, updated, admitted, ordered>>

\* A timer of the connection is due.
HeadersLate(q) ==
    q \in Connected /\ connection[q].stage = "headers" /\ now >= connection[q].since + HeaderTimeout
LifetimeOver(q) == q \in Connected /\ now >= connection[q].since + Lifetime
HandlerLate(q) == request[q].pc = "running" /\ now >= connection[q].begun + HandlerTimeout

\* Mutant: no header deadline.
TimePassesHeaders ==
    /\ \A q \in Requests : ~ LifetimeOver(q) /\ ~ HandlerLate(q)
    /\ server.phase \in {"paused", "draining"} => now < server.until
    /\ Tick
    /\ UNCHANGED serverVars

\* Timers fire before the clock moves past them.
TimePasses ==
    /\ \A q \in Requests : ~ HeadersLate(q) /\ ~ LifetimeOver(q) /\ ~ HandlerLate(q)
    /\ server.phase \in {"paused", "draining"} => now < server.until
    /\ Tick
    /\ UNCHANGED serverVars

ServerNext ==
    \/ \E q \in Requests : Accept(q) \/ Route(q) \/ PassGate(q) \/ Answer(q) \/ Close(q)
    \/ AcceptFails \/ AcceptAgain
    \/ StopAccepting \/ Drained \/ AbortAll
    \/ TimePasses

ServerSpec == ServerInit /\ [][ServerNext]_allVars

\* Time passes, timers fire, the accept loop is polled, and nothing awaits inside
\* the gate.  Clients and handlers owe nothing.
ServerFairSpec ==
    /\ ServerSpec
    /\ WF_allVars(TimePasses) /\ WF_allVars(Drained) /\ WF_allVars(AbortAll)
    /\ \A q \in Requests :
        /\ WF_allVars(PassGate(q))
        /\ WF_allVars(HandlerLate(q) /\ Answer(q))
        /\ WF_allVars((HeadersLate(q) \/ LifetimeOver(q)) /\ Close(q))

-----------------------------------------------------------------------------
\* No permit is lost and none handed out twice, of either pool and of the gate,
\* however requests and connections end (lifecycle.rs:103-111, limits.rs:95-103).
PermitsAccountedFor ==
    /\ SlotsAccountedFor
    /\ \A p \in Pools :
        free[p] + Cardinality({q \in Connected : Pool(q) = p}) = Permits[p]

\* No handler outlives its connection: when the server has stopped, in order or
\* not, nothing is handled and every permit of the gate is back (lifecycle.rs:137-154).
StoppedServerIsIdle ==
    /\ \A q \in Requests : request[q].pc # "idle" => q \in Connected
    /\ server.phase \in {"ended", "failed"} => Connected = {} /\ slots = Concurrency

\* A handler that the lifetime of its connection cuts short belongs to a request that
\* was routed the handler's twenty seconds ago, so all it lacks of them is what the
\* request spent in the gate: five and twenty are the whole of twenty-five, and the
\* twenty count from the admission (limits.rs:86-104, README.md:167-171).
HandlersEndFirst ==
    \A q \in Requests :
        LifetimeOver(q) /\ request[q].pc = "running" =>
            now - connection[q].routed >= HandlerTimeout

\* A shutdown ends, although clients stay and handlers hang (lifecycle.rs:143-152).
ServerEnds == server.phase = "draining" ~> server.phase \in {"ended", "failed"}
=============================================================================
