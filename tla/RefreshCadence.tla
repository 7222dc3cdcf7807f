--------------------------- MODULE RefreshCadence ---------------------------
(***************************************************************************)
(* The refresh coordinator over time: viewers arrive, refreshes are begun, *)
(* complete with any mix of answers or are abandoned before dispatch       *)
(* (handlers.rs:127-131), and the clock moves.  The history variables say  *)
(* what the documentation promises about provider requests, computed from  *)
(* the outcomes alone.                                                     *)
(***************************************************************************)
EXTENDS RefreshCoordinator, Sequences

CONSTANTS
    DocBackoff,       \* the documented waits after 1, 2, ... failures in a row
    HintValues,       \* values a Retry-After hint may carry
    ClockSteps,       \* how far the clock may move in a step
    MaxNow,           \* bound: the clock stops there
    MaxActivations    \* bound: activations

\* The documented ladder is the one the coordinator climbs; MCRefreshCadence has
\* TLC compute it from the program's constants.
ASSUME DocBackoffAssumption ==
    /\ DocBackoff \in Seq(Nat) /\ Len(DocBackoff) = MaxFailures
    /\ \A count \in 1 .. MaxFailures : DocBackoff[count] = Backoff(count)
ASSUME EnvironmentAssumption == HintValues \subseteq Nat /\ ClockSteps \subseteq Nat

VARIABLES
    now,            \* both clocks: the wall clock agrees with the monotonic one here
    requested,      \* full_refresh_generation
    plan,           \* the plan in progress, or None
    \* history:
    streak,         \* per provider: failures since its last success
    not_before,     \* per provider: the documented earliest next request
    last_begin,     \* instant of the last accepted begin, or None
    passed,         \* per provider: plans that skipped it while it was eligible
    promised,       \* providers the plan in progress serves for the last activation
    covered         \* providers served since the last activation

environment == <<now, requested, plan>>
history == <<streak, not_before, last_begin, passed, promised, covered>>
vars == <<coordinatorVars, environment, history>>

Init ==
    /\ CoordinatorInit
    /\ now = 0
    /\ requested = 0
    /\ plan = None
    /\ streak = [i \in Index |-> 0]
    /\ not_before = [i \in Index |-> 0]
    /\ last_begin = None
    /\ passed = [i \in Index |-> 0]
    /\ promised = {}
    /\ covered = {}

\* presence.rs: a first viewer raises the generation, whoever holds the coordinator.
Activate ==
    /\ requested < MaxActivations
    /\ requested' = requested + 1
    /\ promised' = {}
    /\ covered' = {}
    /\ UNCHANGED <<coordinatorVars, now, plan, streak, not_before, last_begin, passed>>

\* cached_prices, owning the coordinator, is granted a plan.
BeginPlan ==
    /\ plan = None
    /\ Begin(now, requested)
    /\ plan' = Plan(now, requested)
    /\ last_begin' = now
    /\ passed' = [i \in Index |->
                     IF i \notin plan'.sources /\ Eligible(i, now) THEN passed[i] + 1 ELSE 0]
    /\ promised' = IF plan'.full_refresh
                   THEN plan'.sources \union {i \in Index : now < not_before[i]}
                   ELSE {}
    /\ not_before' = [i \in Index |-> IF i \in plan'.sources THEN now + Interval
                                                             ELSE not_before[i]]
    /\ UNCHANGED <<now, requested, streak, covered>>

\* The spawned task finds no viewer, or a shutdown, and drops the plan.
Abandon ==
    /\ plan # None
    /\ plan' = None
    /\ promised' = {}
    /\ UNCHANGED <<coordinatorVars, now, requested, streak, not_before, last_begin,
                   passed, covered>>

\* The documented wait after a failure: the backoff for the length of the streak,
\* or the provider's own hint when that is longer and representable.
DocumentedWait(length, hint) ==
    LET backoff == DocBackoff[Least(length, Len(DocBackoff))]
        asked == Greatest(backoff, HintDelay(hint, now))
    IN  IF now + asked <= MaxInstant THEN asked ELSE backoff

\* The task has every answer, has tried to store them, and completes the plan.
CompletePlan(failures) ==
    LET failed == DOMAIN failures IN
    /\ plan # None
    /\ Complete(plan, failures, now, now)
    /\ plan' = None
    /\ streak' = [i \in Index |-> IF i \in failed THEN streak[i] + 1
                                  ELSE IF i \in plan.sources THEN 0 ELSE streak[i]]
    /\ not_before' = [i \in Index |-> IF i \in failed
                                      THEN now + DocumentedWait(streak'[i], failures[i])
                                      ELSE not_before[i]]
    /\ covered' = covered \union promised
    /\ promised' = {}
    /\ UNCHANGED <<now, requested, last_begin, passed>>

Tick(d) ==
    /\ now + d <= MaxNow
    /\ now' = now + d
    /\ UNCHANGED <<coordinatorVars, requested, plan, history>>

Answered == plan # None /\ \E failed \in SUBSET plan.sources :
                \E failures \in [failed -> Hints(HintValues)] : CompletePlan(failures)

Next ==
    \/ Activate
    \/ BeginPlan
    \/ Abandon
    \/ Answered
    \/ \E d \in ClockSteps : Tick(d)

Spec == Init /\ [][Next]_vars

-----------------------------------------------------------------------------
\* Types; a plan in progress has sources, and only while its attempt is charged.
TypeOK ==
    /\ CoordinatorTypeOK
    /\ now \in Nat /\ requested \in Nat
    /\ plan # None => /\ plan.sources \in (SUBSET Index) \ {{}}
                      /\ plan.full_refresh \in BOOLEAN
                      /\ plan.generation \in 0 .. requested
                      /\ last_attempt # None
    /\ completed_generation <= requested

\* "the minimum interval since the last attempt": two accepted attempts are at
\* least Interval apart, also when the first was abandoned, failed, or could not
\* be saved (refresh.rs:25-26: attempts are recorded before I/O).
AttemptsSpaced ==
    [][plan = None /\ plan' # None /\ last_begin # None => now - last_begin >= Interval]_vars

\* No provider is asked before the documented wait after its last failures is
\* over: 10, 20, 40, 80, 160, then 300 seconds for a streak of failures, longer
\* if its Retry-After says so (README.md:44-46, refresh.rs:89-113).
BackoffRespected ==
    [][plan = None /\ plan' # None => \A i \in plan'.sources : now >= not_before[i]]_vars

\* And no longer: a provider whose documented wait is over is one the next full
\* refresh takes, so a success ends the streak, a hint that cannot be represented
\* is ignored, and an abandoned plan costs no more than the minimum interval.
NoNeedlessWait ==
    \A i \in Index : now >= not_before[i] => i \in Selected(now, TRUE)

\* Round robin is fair: an eligible provider is passed over at most N - 1 times
\* in a row, whatever full refreshes and cooling providers do to the cursor.
NoOvertaking == \A i \in Index : passed[i] <= N - 1

\* A full refresh is over only when it has served the LAST activation: every
\* provider has been asked since, or was waiting out its failures then.  An
\* activation during a full refresh is never lost (refresh.rs:120-123).
ActivationKept ==
    completed_generation = requested /\ requested > 0 => covered = Index
=============================================================================
