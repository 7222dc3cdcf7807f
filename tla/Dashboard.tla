------------------------------ MODULE Dashboard ------------------------------
(***************************************************************************)
(* One tab of the dashboard (dashboard.js) and the presence tracker of the *)
(* server, with the network between them.  The tab runs two loops, for     *)
(* presence and for prices, while it is visible; hiding it aborts them and *)
(* sends an inactive beacon.  JavaScript handlers run to completion, so    *)
(* each is one step; a promise's continuation runs in the step that        *)
(* settles it.                                                             *)
(***************************************************************************)
EXTENDS Presence

CONSTANTS
    Tab,               \* the session of this tab
    Cadence,           \* from the end of a request to the next: 5000 ms
    StartupDelay,      \* the same after a startup price still refreshing: 1000 ms
    PresenceTimeout,   \* workers.presence.timeout: 3000 ms
    PriceTimeout,      \* workers.price.timeout: 8000 ms
    MaxDelay,          \* the network delivers a message within this time or never
    MaxGeneration,     \* bound on page.generation
    MaxFaults,         \* bound on lost messages and server restarts
    MaxNow,            \* bound on the clock
    None

ASSUME DashboardAssumption ==
    /\ Tab \in Sessions
    /\ {Cadence, StartupDelay, PresenceTimeout, PriceTimeout, MaxDelay} \subseteq Nat
    /\ StartupDelay <= Cadence
    /\ PresenceTimeout + Cadence + MaxDelay <= TTL   \* 3 s + 5 s + MaxDelay <= 15 s
    /\ None \notin Nat

VARIABLES
    page,        \* the variables of dashboard.js, and its messages under way (outbox)
    left,        \* history: since when the user has not seen the tab, or None
    disturbed,   \* history: the last return, loss or restart
    overlapped,  \* history: some period began before a request of the last had settled
    faults       \* number of messages lost and restarts

dashboardVars == <<now, presenceVars, page, left, disturbed, overlapped, faults>>

Kinds == {"presence", "price"}
Timeout == [presence |-> PresenceTimeout, price |-> PriceTimeout]
Idle == [busy |-> FALSE, owner |-> 0, include |-> FALSE, since |-> 0, answered |-> FALSE]

TypeOK ==
    /\ now \in 0 .. MaxNow
    /\ IsViewerMap(viewers, now)
    /\ page.running \in BOOLEAN /\ page.hidden \in BOOLEAN
    /\ page.generation \in 0 .. MaxGeneration
    /\ \A k \in Kinds :
        /\ page.worker[k] = Idle
           \/ /\ page.worker[k].busy
              /\ page.worker[k].owner \in 1 .. page.generation
              /\ page.worker[k].since \in now - Timeout[k] .. now
        /\ page.handle[k] \in {None} \union (Nat \ {0})
    /\ \A i \in DOMAIN page.timers :
        /\ i \in Nat \ {0}
        /\ page.timers[i].kind \in Kinds
        /\ page.timers[i].due \in now .. now + Cadence
    /\ \A m \in page.outbox : m.sent \in now - MaxDelay .. now

-----------------------------------------------------------------------------
(* Timers.  setTimeout answers a handle; a handle that is overwritten can  *)
(* no longer be cleared, but its timer stays armed.                        *)

Without(timers, i) == [j \in DOMAIN timers \ {i} |-> timers[j]]

ClearTimer(p, k) == [p EXCEPT !.timers = Without(@, p.handle[k]), !.handle[k] = None]

\* A number that no timer and no handle uses.
NewTimer(p) ==
    LET used == DOMAIN p.timers \union {p.handle[k] : k \in Kinds}
    IN  CHOOSE i \in 1 .. Cardinality(used) + 1 : i \notin used

SetTimer(p, k, delay) ==
    LET i == NewTimer(p) IN
    [p EXCEPT !.handle[k] = i,
              !.timers = [j \in DOMAIN @ \union {i} |->
                             IF j = i THEN [kind |-> k, due |-> now + delay] ELSE @[j]]]

-----------------------------------------------------------------------------
(* The functions of dashboard.js, as what they make of a page.             *)

Message(active, owner) == [active |-> active, owner |-> owner, sent |-> now]

Poll(p, k, include) ==
    IF ~ p.running \/ p.worker[k].busy THEN p ELSE
    [ClearTimer(p, k) EXCEPT
        !.worker[k] = [busy |-> TRUE, owner |-> p.generation, include |-> include,
                       since |-> now, answered |-> FALSE],
        !.outbox = IF k = "presence" THEN @ \union {Message(TRUE, p.generation)} ELSE @]

\* What start does once its first heartbeat is over.
AfterStartup(p, delay) ==
    IF ~ p.running \/ p.handle["price"] # None THEN p
    ELSE IF delay = None THEN Poll(p, "price", FALSE)
    ELSE SetTimer(p, "price", delay)

\* If the heartbeat of an earlier period still runs, poll returns at once.
Started(p) ==
    IF p.running \/ p.hidden THEN p ELSE
    LET q == [p EXCEPT !.running = TRUE, !.generation = @ + 1] IN
    IF q.worker["presence"].busy THEN AfterStartup(q, None)
                                 ELSE Poll(q, "presence", TRUE)

\* Mutant: running stays set.
StoppedRunning(p) ==
    IF ~ p.running THEN p ELSE
    LET q == [p EXCEPT !.generation = @ + 1] IN
    [ClearTimer(ClearTimer(q, "presence"), "price") EXCEPT
        !.outbox = @ \union {Message(FALSE, q.generation)}]

\* Mutant: the handles are forgotten, but not cleared.
StoppedLeaking(p) ==
    IF ~ p.running THEN p ELSE
    LET q == [p EXCEPT !.running = FALSE, !.generation = @ + 1] IN
    [q EXCEPT !.handle = [k \in Kinds |-> None],
              !.outbox = @ \union {Message(FALSE, q.generation)}]

Stopped(p) ==
    IF ~ p.running THEN p ELSE
    LET q == [p EXCEPT !.running = FALSE, !.generation = @ + 1] IN
    [ClearTimer(ClearTimer(q, "presence"), "price") EXCEPT
        !.outbox = @ \union {Message(FALSE, q.generation)}]

\* Mutant: a request of an earlier period does not start the loop again.
SettledCurrent(p, k, delay) ==
    LET w == p.worker[k]
        current == w.owner = p.generation
        idle == [p EXCEPT !.worker[k] = Idle]
        next == IF p.running /\ current THEN SetTimer(idle, k, Cadence) ELSE idle
    IN IF w.include /\ current THEN AfterStartup(next, delay) ELSE next

\* Mutant: a heartbeat that failed is not repeated.
SettledAnswered(p, k, delay) ==
    LET w == p.worker[k]
        current == w.owner = p.generation
        idle == [p EXCEPT !.worker[k] = Idle]
        next == IF p.running /\ (k = "price" \/ w.answered)
                THEN SetTimer(idle, k, IF current THEN Cadence ELSE 0) ELSE idle
    IN IF w.include /\ current THEN AfterStartup(next, delay) ELSE next

\* The end of poll, whatever the request came to; delay is its startupPriceDelay.
Settled(p, k, delay) ==
    LET w == p.worker[k]
        current == w.owner = p.generation
        idle == [p EXCEPT !.worker[k] = Idle]
        next == IF p.running THEN SetTimer(idle, k, IF current THEN Cadence ELSE 0)
                             ELSE idle
    IN IF w.include /\ current THEN AfterStartup(next, delay) ELSE next

-----------------------------------------------------------------------------
EmptyPage(hidden) ==
    [running |-> FALSE, hidden |-> hidden, generation |-> 0,
     worker |-> [k \in Kinds |-> Idle], handle |-> [k \in Kinds |-> None],
     timers |-> [i \in {} |-> Idle], outbox |-> {}]

\* The script starts in a page that is visible or not.
Init ==
    /\ now = 0
    /\ PresenceInit
    /\ \E hidden \in BOOLEAN :
        /\ page = Started(EmptyPage(hidden))
        /\ left = IF hidden THEN 0 ELSE None
    /\ disturbed = 0
    /\ overlapped = FALSE
    /\ faults = 0

Leaves ==
    /\ page.generation < MaxGeneration
    /\ left' = IF left = None THEN now ELSE left
    /\ UNCHANGED <<now, presenceVars, disturbed, overlapped, faults>>

Returns ==
    /\ left' = IF page'.hidden THEN left ELSE None
    /\ disturbed' = IF page' = page THEN disturbed ELSE now
    /\ overlapped' = (overlapped \/ (page'.running /\ ~ page.running
                                     /\ \E k \in Kinds : page.worker[k].busy))
    /\ UNCHANGED <<now, presenceVars, faults>>

\* visibilitychange
Hide ==
    /\ ~ page.hidden
    /\ page' = Stopped([page EXCEPT !.hidden = TRUE])
    /\ Leaves

Show ==
    /\ page.hidden
    /\ page.generation < MaxGeneration
    /\ page' = Started([page EXCEPT !.hidden = FALSE])
    /\ Returns

\* pagehide
PageHide ==
    /\ left = None
    /\ page' = Stopped(page)
    /\ Leaves

\* pageshow: also when a page that stays hidden is restored.
PageShow ==
    /\ left # None
    /\ page.generation < MaxGeneration
    /\ page' = Started(page)
    /\ Returns

Fire(i) ==
    /\ page.timers[i].due <= now
    /\ page' = Poll([page EXCEPT !.timers = Without(@, i)], page.timers[i].kind, FALSE)
    /\ UNCHANGED <<now, presenceVars, left, disturbed, overlapped, faults>>

\* A request settles: answered, refused, failed or aborted.  Only an answer to
\* the first heartbeat of the current period can carry a price.
Settle(k) ==
    LET w == page.worker[k] IN
    /\ w.busy
    /\ \E delay \in {None, StartupDelay, Cadence} :
        /\ delay # None => w.answered /\ w.include /\ w.owner = page.generation
        /\ page' = Settled(page, k, delay)
    /\ UNCHANGED <<now, presenceVars, left, disturbed, overlapped, faults>>

\* The server handles a message: in any order, also one whose request was aborted.
Deliver(m) ==
    LET w == page.worker["presence"] IN
    /\ IF m.active THEN Heartbeat(Tab) ELSE Leave(Tab)
    /\ page' = [page EXCEPT
           !.outbox = @ \ {m},
           !.worker["presence"].answered =
               @ \/ (m.active /\ w.busy /\ w.owner = m.owner /\ w.since = m.sent)]
    /\ UNCHANGED <<now, left, disturbed, overlapped, faults>>

Lose(m) ==
    /\ faults < MaxFaults
    /\ faults' = faults + 1
    /\ page' = [page EXCEPT !.outbox = @ \ {m}]
    /\ disturbed' = now
    /\ UNCHANGED <<now, presenceVars, left, overlapped>>

ServerRestarts ==
    /\ faults < MaxFaults
    /\ faults' = faults + 1
    /\ PresenceRestarts
    /\ disturbed' = now
    /\ UNCHANGED <<now, page, left, overlapped>>

\* Timers fire on time, a request is aborted at its deadline, and the network
\* keeps no message for longer than MaxDelay.
Tick ==
    /\ now < MaxNow
    /\ \A i \in DOMAIN page.timers : page.timers[i].due > now
    /\ \A k \in Kinds : page.worker[k].busy => now < page.worker[k].since + Timeout[k]
    /\ \A m \in page.outbox : now < m.sent + MaxDelay
    /\ now' = now + 1
    /\ UNCHANGED <<presenceVars, page, left, disturbed, overlapped, faults>>

Next ==
    \/ Hide \/ Show \/ PageHide \/ PageShow
    \/ \E i \in DOMAIN page.timers : Fire(i)
    \/ \E k \in Kinds : Settle(k)
    \/ \E m \in page.outbox : Deliver(m) \/ Lose(m)
    \/ ServerRestarts
    \/ Tick

Spec == Init /\ [][Next]_dashboardVars

-----------------------------------------------------------------------------
\* No loop dies: while the tab is active, each kind has a request under way, or
\* an armed timer in its handle; prices may also wait for the first heartbeat
\* (dashboard.js:188-195, :221-225).
LoopsAlive ==
    page.running =>
        \A k \in Kinds :
            \/ page.worker[k].busy
            \/ /\ page.handle[k] \in DOMAIN page.timers
               /\ page.timers[page.handle[k]].kind = k
            \/ /\ k = "price"
               /\ page.worker["presence"].include
               /\ page.worker["presence"].owner = page.generation

\* Showing the tab "resumes exactly one set of timers" (AUDIT.md:399): no kind
\* has two armed timers, unless a request outlived the period that sent it.
OneSetOfTimers ==
    ~ overlapped =>
        \A i, j \in DOMAIN page.timers : page.timers[i].kind = page.timers[j].kind => i = j

\* A tab that was left is forgotten, though its beacon be lost or overtaken: the
\* last heartbeat under way counts for one time to live (presence.rs:46-49).
HiddenForgotten ==
    left # None /\ now > left + MaxDelay + TTL => Tab \notin Live

\* A visible tab is a live viewer again soon after it came back, lost a message or
\* met a restarted server: a beacon of an earlier period can arrive MaxDelay later
\* and overtake a heartbeat; that one, a pause and the next heartbeat follow
\* (dashboard.js:188-227).
VisibleIsLive ==
    left = None /\ now > disturbed + PresenceTimeout + Cadence + 2 * MaxDelay
        => Tab \in Live
=============================================================================
