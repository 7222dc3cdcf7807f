------------------------- MODULE RefreshCoordinator -------------------------
(***************************************************************************)
(* refresh.rs: which providers may be asked, and when.  The coordinator is *)
(* the value inside AppState.refresh; whoever holds that mutex calls begin *)
(* before asking providers and complete after storing their answers.       *)
(* Providers are the positions 0 .. N-1 of UpstreamSource::ALL; instants   *)
(* are whole seconds.                                                      *)
(***************************************************************************)
EXTENDS Integers, FiniteSets

CONSTANTS
    N,               \* UpstreamSource::ALL.len()
    Interval,        \* REFRESH_INTERVAL_SECONDS
    BackoffBase,     \* 10 seconds: the wait after a first failure
    BackoffCap,      \* 300 seconds: the longest wait without a hint
    MaxInstant,      \* the largest instant checked_add can return
    None             \* Option::None

ASSUME NAssumption == N \in Nat \ {0}
ASSUME IntervalAssumption == Interval \in Nat \ {0}
ASSUME BackoffAssumption == BackoffBase \in Nat \ {0} /\ BackoffCap \in Nat \ {0}
ASSUME MaxInstantAssumption == MaxInstant \in Nat
ASSUME NoneAssumption == None \notin Int

VARIABLES
    next_source,            \* round-robin cursor
    last_attempt,           \* instant of the last accepted begin, or None
    next_eligible,          \* per provider: earliest next attempt, or None
    consecutive_failures,   \* per provider, saturating at MaxFailures
    completed_generation    \* activation served by the last full refresh

coordinatorVars == <<next_source, last_attempt, next_eligible,
                     consecutive_failures, completed_generation>>

Index == 0 .. N - 1

MaxFailures == 6

CoordinatorTypeOK ==
    /\ next_source \in Index
    /\ last_attempt \in Nat \union {None}
    /\ next_eligible \in [Index -> Nat \union {None}]
    /\ consecutive_failures \in [Index -> 0 .. MaxFailures]
    /\ completed_generation \in Nat

\* RefreshCoordinator::default()
CoordinatorInit ==
    /\ next_source = 0
    /\ last_attempt = None
    /\ next_eligible = [i \in Index |-> None]
    /\ consecutive_failures = [i \in Index |-> 0]
    /\ completed_generation = 0

\* The process starts again: gates and backoffs are not persisted.
CoordinatorRestarts ==
    /\ next_source' = 0
    /\ last_attempt' = None
    /\ next_eligible' = [i \in Index |-> None]
    /\ consecutive_failures' = [i \in Index |-> 0]
    /\ completed_generation' = 0

-----------------------------------------------------------------------------
\* begin

GateOpen(t) == last_attempt # None => t - last_attempt >= Interval

Eligible(i, t) == next_eligible[i] # None => t >= next_eligible[i]

\* Position of provider i in the scan that starts at the cursor.
Offset(i) == IF i >= next_source THEN i - next_source ELSE i - next_source + N

\* A full refresh takes every eligible provider, any other the first in scan order.
Selected(t, full) ==
    {i \in Index : /\ Eligible(i, t)
                   /\ full \/ \A j \in Index : Eligible(j, t) => Offset(i) <= Offset(j)}

After(i) == IF i + 1 = N THEN 0 ELSE i + 1

\* The provider of the plan the loop visits last.
LastOf(sources) == CHOOSE i \in sources : \A j \in sources : j <= i

\* The RefreshPlan an accepted begin returns.
Plan(t, generation) ==
    LET full == generation # completed_generation
    IN  [sources |-> Selected(t, full), full_refresh |-> full, generation |-> generation]

CanBegin(t, generation) == GateOpen(t) /\ Plan(t, generation).sources # {}

\* Mutants: the attempt is not recorded ...
BeginUncharged(t, generation) ==
    LET sources == Plan(t, generation).sources IN
    /\ CanBegin(t, generation)
    /\ next_eligible' = [i \in Index |-> IF i \in sources THEN t + Interval ELSE next_eligible[i]]
    /\ next_source' = After(LastOf(sources))
    /\ UNCHANGED <<last_attempt, consecutive_failures, completed_generation>>

\* ... the cursor advances only past a success (it does not advance here) ...
BeginKeepsCursor(t, generation) ==
    LET sources == Plan(t, generation).sources IN
    /\ CanBegin(t, generation)
    /\ last_attempt' = t
    /\ next_eligible' = [i \in Index |-> IF i \in sources THEN t + Interval ELSE next_eligible[i]]
    /\ UNCHANGED <<next_source, consecutive_failures, completed_generation>>

\* ... the activation counts as served once its refresh is dispatched.
BeginServesActivation(t, generation) ==
    LET sources == Plan(t, generation).sources IN
    /\ CanBegin(t, generation)
    /\ last_attempt' = t
    /\ next_eligible' = [i \in Index |-> IF i \in sources THEN t + Interval ELSE next_eligible[i]]
    /\ next_source' = After(LastOf(sources))
    /\ completed_generation' = generation
    /\ UNCHANGED consecutive_failures

\* Ok(plan).  The attempt is charged before any provider is asked.  A begin that
\* is refused changes nothing.
Begin(t, generation) ==
    LET sources == Plan(t, generation).sources IN
    /\ CanBegin(t, generation)
    /\ last_attempt' = t
    /\ next_eligible' = [i \in Index |-> IF i \in sources THEN t + Interval ELSE next_eligible[i]]
    /\ next_source' = After(LastOf(sources))
    /\ UNCHANGED <<consecutive_failures, completed_generation>>

-----------------------------------------------------------------------------
\* complete

Least(a, b) == IF a < b THEN a ELSE b
Greatest(a, b) == IF a > b THEN a ELSE b

\* 10 << (count - 1), capped
Backoff(count) == Least(BackoffBase * <<1, 2, 4, 8, 16, 32>>[count], BackoffCap)

\* A Retry-After hint: absent, a delay, or a wall-clock date.
Hints(values) == {None} \union [kind : {"Delay", "At"}, value : values]

\* The delay a hint asks for: 0 when absent (the backoff is then the longer).
HintDelay(hint, unix) ==
    IF hint = None THEN 0
    ELSE IF hint.kind = "Delay" THEN hint.value
    ELSE Greatest(hint.value - unix, 0)

\* Mutant: a hint replaces the backoff, also when it is shorter.
RetryAtHint(count, hint, t, unix) ==
    LET wait == IF hint = None THEN Backoff(count) ELSE HintDelay(hint, unix)
    IN  IF t + wait <= MaxInstant THEN t + wait ELSE t + Backoff(count)

\* The wait a failure earns; a hint no Instant can hold falls back to the backoff.
RetryAt(count, hint, t, unix) ==
    LET wait == Greatest(HintDelay(hint, unix), Backoff(count))
    IN  IF t + wait <= MaxInstant THEN t + wait ELSE t + Backoff(count)

FailureCount(i) == Least(consecutive_failures[i] + 1, MaxFailures)

\* Mutant: a success does not end the streak.
CompleteKeepsStreak(plan, failures, t, unix) ==
    LET failed == DOMAIN failures IN
    /\ consecutive_failures' =
         [i \in Index |-> IF i \in failed THEN FailureCount(i) ELSE consecutive_failures[i]]
    /\ next_eligible' =
         [i \in Index |-> IF i \in failed
                          THEN RetryAt(FailureCount(i), failures[i], t, unix)
                          ELSE next_eligible[i]]
    /\ completed_generation' =
         IF plan.full_refresh THEN plan.generation ELSE completed_generation
    /\ UNCHANGED <<next_source, last_attempt>>

\* failures: the hint of each provider of the plan that failed.
Complete(plan, failures, t, unix) ==
    LET failed == DOMAIN failures IN
    /\ consecutive_failures' =
         [i \in Index |-> IF i \in failed THEN FailureCount(i)
                          ELSE IF i \in plan.sources THEN 0
                          ELSE consecutive_failures[i]]
    /\ next_eligible' =
         [i \in Index |-> IF i \in failed
                          THEN RetryAt(FailureCount(i), failures[i], t, unix)
                          ELSE next_eligible[i]]
    /\ completed_generation' =
         IF plan.full_refresh THEN plan.generation ELSE completed_generation
    /\ UNCHANGED <<next_source, last_attempt>>
=============================================================================
