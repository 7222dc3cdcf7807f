------------------------ MODULE RefreshCadenceProofs ------------------------
(***************************************************************************)
(* The refresh coordinator over time, for any number of providers, any     *)
(* interval and ladder of waits, any hints and any clock: the documented   *)
(* waits are kept exactly, rotation passes nobody over for long and no     *)
(* activation is lost.                                                     *)
(***************************************************************************)
EXTENDS RefreshCadence, FiniteSetTheorems, WellFoundedInduction, TLAPS

USE NAssumption, IntervalAssumption, BackoffAssumption, MaxInstantAssumption,
    NoneAssumption, DocBackoffAssumption, EnvironmentAssumption

-----------------------------------------------------------------------------
(* A nonempty set of bounded naturals has a largest element: of the sets of *)
(* elements above an element, a minimal one is empty.                       *)
LEMMA LargestExists ==
    ASSUME NEW n \in Nat, NEW S, S \subseteq 0 .. n, S # {}
    PROVE  \E i \in S : \A j \in S : j <= i
<1> DEFINE Above(i) == {j \in S : j > i}
           Families == {Above(i) : i \in S}
<1>1. S \in SUBSET Nat /\ S \subseteq Int /\ \A i \in S : i <= n
  OBVIOUS
<1>2. FiniteSubsetsOf(S) = SUBSET S
  BY <1>1, FS_BoundedSetOfNaturals, FS_FiniteSubsetsOfFinite
<1>3. IsWellFoundedOn(StrictSubsetOrdering(S), SUBSET S)
  BY <1>2, FS_StrictSubsetOrderingWellFounded
<1>4. Families \subseteq SUBSET S /\ Families # {}
  OBVIOUS
<1>5. \E x \in Families : \A y \in Families : <<y, x>> \notin StrictSubsetOrdering(S)
  <2> HIDE DEF Families
  <2> QED BY <1>3, <1>4, WFMin
<1>6. PICK i \in S : \A j \in S : <<Above(j), Above(i)>> \notin StrictSubsetOrdering(S)
  BY <1>5
<1>7. ASSUME NEW j \in S, j > i
      PROVE  FALSE
  <2>1. \A k \in S : k > j => k > i
    BY <1>1, <1>7
  <2>2. Above(j) \subseteq Above(i)
    BY <2>1
  <2>3. j \in Above(i)
    BY <1>7
  <2>4. ~ (j > j)
    BY <1>1
  <2>5. j \notin Above(j)
    BY <2>4
  <2>6. <<Above(j), Above(i)>> \in StrictSubsetOrdering(S)
    BY <2>2, <2>3, <2>5 DEF StrictSubsetOrdering
  <2> QED
    BY <1>6, <2>6
<1> QED
  BY <1>1, <1>7

(* The last provider of a plan is one of its providers. *)
LEMMA LastOfShape ==
    ASSUME NEW sources, sources \subseteq Index, sources # {}
    PROVE  /\ LastOf(sources) \in sources
           /\ \A j \in sources : j <= LastOf(sources)
<1>1. N - 1 \in Nat /\ sources \subseteq 0 .. (N - 1)
  BY DEF Index
<1>2. \E i \in sources : \A j \in sources : j <= i
  BY <1>1, LargestExists
<1> QED
  BY <1>2 DEF LastOf

(* The cursor stays within the providers. *)
LEMMA AfterShape ==
    ASSUME NEW i \in Index
    PROVE  After(i) \in Index
  BY DEF After, Index

(* Every rung of the ladder is a positive number of seconds. *)
LEMMA BackoffShape ==
    ASSUME NEW count \in 1 .. MaxFailures
    PROVE  Backoff(count) \in Nat
<1>1. count \in {1, 2, 3, 4, 5, 6}
  BY DEF MaxFailures
<1>2. <<1, 2, 4, 8, 16, 32>>[count] \in {1, 2, 4, 8, 16, 32}
  BY <1>1
<1>3. \A x \in {1, 2, 4, 8, 16, 32} : BackoffBase * x \in Nat
  OBVIOUS
<1> QED
  BY <1>2, <1>3 DEF Backoff, Least

(* A hint asks for a natural number of seconds. *)
LEMMA HintShape ==
    ASSUME NEW hint \in Hints(HintValues), NEW t \in Nat
    PROVE  HintDelay(hint, t) \in Nat
<1>1. CASE hint = None
  BY <1>1 DEF HintDelay
<1>2. CASE hint # None
  <2>1. hint \in [kind : {"Delay", "At"}, value : HintValues]
    BY <1>2 DEF Hints
  <2>2. hint.value \in Nat
    BY <2>1
  <2> QED
    BY <1>2, <2>2 DEF HintDelay, Greatest
<1> QED
  BY <1>1, <1>2

-----------------------------------------------------------------------------
(* The coordinator's records and the history agree. *)
Types ==
    /\ next_source \in Index
    /\ last_attempt \in Nat \union {None}
    /\ next_eligible \in [Index -> Nat \union {None}]
    /\ consecutive_failures \in [Index -> 0 .. MaxFailures]
    /\ completed_generation \in Nat
    /\ now \in Nat
    /\ requested \in Nat
    /\ streak \in [Index -> Nat]
    /\ not_before \in [Index -> Nat]
    /\ passed \in [Index -> Nat]

PlanShape ==
    plan # None => /\ plan.sources \in (SUBSET Index) \ {{}}
                   /\ plan.full_refresh \in BOOLEAN
                   /\ plan.generation \in 0 .. requested
                   /\ last_attempt # None

WaitsAgree ==
    \A i \in Index :
        /\ consecutive_failures[i] = Least(streak[i], MaxFailures)
        /\ next_eligible[i] # None => next_eligible[i] = not_before[i]
        /\ next_eligible[i] = None => not_before[i] = 0

RotationBound == \A i \in Index : passed[i] + Offset(i) <= N - 1

ServiceKept ==
    /\ completed_generation <= requested
    /\ covered \subseteq Index /\ promised \subseteq Index
    /\ plan # None /\ plan.full_refresh /\ plan.generation = requested => promised = Index
    /\ completed_generation = requested /\ requested > 0 => covered = Index

CadenceInv ==
    /\ Types
    /\ PlanShape
    /\ last_begin = last_attempt
    /\ WaitsAgree
    /\ RotationBound
    /\ ServiceKept

(* Who may be asked is who has waited. *)
LEMMA EligibleIsWaited ==
    ASSUME Types, WaitsAgree, NEW i \in Index
    PROVE  Eligible(i, now) <=> now >= not_before[i]
  BY DEF Types, WaitsAgree, Eligible

(* A position's distance from the cursor is a position. *)
LEMMA DistanceShape ==
    ASSUME NEW c \in Index, NEW i \in Index
    PROVE  (IF i >= c THEN i - c ELSE i - c + N) \in Index
  BY DEF Index

(* The offsets of two providers differ. *)
LEMMA OffsetShape ==
    ASSUME next_source \in Index, NEW i \in Index
    PROVE  /\ Offset(i) \in Index
           /\ \A j \in Index : Offset(i) = Offset(j) => i = j
  BY DEF Offset, Index

-----------------------------------------------------------------------------
LEMMA CadenceInit == Init => CadenceInv
<1> SUFFICES ASSUME Init PROVE CadenceInv
  OBVIOUS
<1>1. Types
  BY DEF Init, CoordinatorInit, Types, Index, MaxFailures
<1>2. PlanShape /\ last_begin = last_attempt /\ ServiceKept
  BY DEF Init, CoordinatorInit, PlanShape, ServiceKept
<1>3. WaitsAgree
  BY DEF Init, CoordinatorInit, WaitsAgree, Least, MaxFailures
<1>4. RotationBound
  BY DEF Init, CoordinatorInit, RotationBound, Offset, Index
<1> QED
  BY <1>1, <1>2, <1>3, <1>4 DEF CadenceInv

(* A new activation: nothing is promised to it yet. *)
LEMMA ActivateStep == CadenceInv /\ Activate => CadenceInv'
<1> SUFFICES ASSUME CadenceInv, Activate PROVE CadenceInv'
  OBVIOUS
<1> USE DEF CadenceInv, Activate, coordinatorVars
<1>1. Types'
  BY DEF Types
<1>2. PlanShape' /\ (last_begin = last_attempt)'
  BY DEF Types, PlanShape
<1>3. WaitsAgree'
  BY DEF WaitsAgree
<1>4. RotationBound'
  BY DEF RotationBound, Offset
<1>5. ServiceKept'
  <2>1. completed_generation' < requested'
    BY DEF Types, ServiceKept
  <2>2. plan' # None => plan'.generation < requested'
    BY DEF Types, PlanShape
  <2> QED
    BY <2>1, <2>2 DEF Types, PlanShape, ServiceKept
<1> QED
  BY <1>1, <1>2, <1>3, <1>4, <1>5

(* A refresh is begun. *)
LEMMA BeginStep == CadenceInv /\ BeginPlan => CadenceInv'
<1> SUFFICES ASSUME CadenceInv, BeginPlan PROVE CadenceInv'
  OBVIOUS
<1> DEFINE sources == Plan(now, requested).sources
           full == requested # completed_generation
<1> USE DEF CadenceInv
<1>1. /\ plan' = Plan(now, requested)
      /\ plan'.sources = Selected(now, full)
      /\ plan'.full_refresh = full
      /\ plan'.generation = requested
      /\ sources = plan'.sources
  BY DEF BeginPlan, Plan
<1>2. sources \subseteq Index /\ sources # {} /\ \A i \in sources : Eligible(i, now)
  BY <1>1 DEF BeginPlan, Begin, CanBegin, Selected
<1>3. /\ last_attempt' = now /\ last_begin' = now
      /\ next_eligible' = [i \in Index |-> IF i \in sources THEN now + Interval ELSE next_eligible[i]]
      /\ not_before' = [i \in Index |-> IF i \in sources THEN now + Interval ELSE not_before[i]]
      /\ next_source' = After(LastOf(sources))
      /\ passed' = [i \in Index |-> IF i \notin sources /\ Eligible(i, now) THEN passed[i] + 1 ELSE 0]
      /\ promised' = IF full THEN sources \union {i \in Index : now < not_before[i]} ELSE {}
      /\ UNCHANGED <<consecutive_failures, completed_generation, now, requested, streak, covered>>
  BY <1>1 DEF BeginPlan, Begin
<1>4. next_source' \in Index
  BY <1>2, <1>3, LastOfShape, AfterShape
<1> HIDE DEF sources, full
<1>5. Types'
  <2>1. last_attempt' \in Nat /\ now + Interval \in Nat
    BY <1>3 DEF Types
  <2>2. next_eligible' \in [Index -> Nat \union {None}] /\ not_before' \in [Index -> Nat]
    BY <1>3, <2>1 DEF Types
  <2>3. passed' \in [Index -> Nat]
    BY <1>3 DEF Types
  <2> QED
    BY <1>3, <1>4, <2>1, <2>2, <2>3 DEF Types
<1>6. PlanShape' /\ (last_begin = last_attempt)'
  <2>1. last_attempt' # None /\ requested' \in 0 .. requested'
    BY <1>3 DEF Types
  <2>2. plan'.sources \in (SUBSET Index) \ {{}}
    BY <1>1, <1>2
  <2>3. plan'.full_refresh \in BOOLEAN
    BY <1>1 DEF full
  <2> QED
    BY <1>1, <1>3, <2>1, <2>2, <2>3 DEF PlanShape
<1>7. WaitsAgree'
  BY <1>3 DEF WaitsAgree, Types
<1>8. RotationBound'
  <2> SUFFICES ASSUME NEW i \in Index PROVE passed'[i] + Offset(i)' <= N - 1
    BY DEF RotationBound
  <2>1. Offset(i)' \in Index
    BY <1>4, DistanceShape DEF Offset
  <2>2. CASE i \in sources \/ ~ Eligible(i, now)
    BY <1>3, <2>1, <2>2 DEF Index
  <2>3. CASE i \notin sources /\ Eligible(i, now)
    <3>1. ~ full
      BY <1>1, <2>3 DEF Selected
    <3>2. \A j \in sources : \A k \in Index : Eligible(k, now) => Offset(j) <= Offset(k)
      BY <1>1, <3>1 DEF Selected
    <3> DEFINE chosen == LastOf(sources)
    <3>3. chosen \in sources /\ chosen \in Index
      BY <1>2, LastOfShape
    <3> HIDE DEF chosen
    <3>4. Offset(chosen) <= Offset(i) /\ chosen # i
      BY <2>3, <3>2, <3>3
    <3>5. Offset(chosen) # Offset(i)
      BY <3>3, <3>4, OffsetShape DEF Types
    <3>6. next_source' = After(chosen)
      BY <1>3 DEF chosen
    <3>7. Offset(i)' <= Offset(i) - 1
      BY <3>3, <3>4, <3>5, <3>6 DEF Offset, After, Index, Types
    <3>8. passed'[i] = passed[i] + 1
      BY <1>3, <2>3
    <3>9. passed[i] + Offset(i) <= N - 1
      BY DEF RotationBound
    <3>10. passed[i] \in Nat /\ Offset(i) \in Int /\ Offset(i)' \in Int
      BY <2>1, OffsetShape DEF Types, Index
    <3> QED
      BY <3>7, <3>8, <3>9, <3>10
  <2> QED
    BY <2>2, <2>3
<1>9. ServiceKept'
  <2>1. promised' \subseteq Index
    BY <1>2, <1>3
  <2>2. full => promised' = Index
    <3> SUFFICES ASSUME full, NEW i \in Index PROVE i \in promised'
      BY <2>1
    <3>1. CASE Eligible(i, now)
      BY <1>1, <1>3, <3>1 DEF Selected
    <3>2. CASE ~ Eligible(i, now)
      <4>1. ~ (now >= not_before[i])
        BY <3>2, EligibleIsWaited
      <4>2. now < not_before[i]
        BY <4>1 DEF Types
      <4> QED
        BY <1>3, <4>2
    <3> QED
      BY <3>1, <3>2
  <2>3. completed_generation' <= requested' /\ covered' \subseteq Index
    BY <1>3 DEF ServiceKept
  <2>4. (completed_generation = requested /\ requested > 0 => covered = Index)'
    BY <1>3 DEF ServiceKept
  <2> QED
    BY <1>1, <2>1, <2>2, <2>3, <2>4 DEF ServiceKept
<1> QED
  BY <1>3, <1>5, <1>6, <1>7, <1>8, <1>9

(* A plan is dropped before any provider is asked. *)
LEMMA AbandonStep == CadenceInv /\ Abandon => CadenceInv'
<1> SUFFICES ASSUME CadenceInv, Abandon PROVE CadenceInv'
  OBVIOUS
<1> USE DEF CadenceInv, Abandon, coordinatorVars
<1>1. Types' /\ PlanShape' /\ (last_begin = last_attempt)'
  BY DEF Types, PlanShape
<1>2. WaitsAgree'
  BY DEF WaitsAgree
<1>3. RotationBound'
  BY DEF RotationBound, Offset
<1>4. ServiceKept'
  BY DEF ServiceKept
<1> QED
  BY <1>1, <1>2, <1>3, <1>4

(* A refresh is over: the code's waits are the documented ones. *)
LEMMA CompleteStep ==
    ASSUME CadenceInv, plan # None, NEW failed \in SUBSET plan.sources,
           NEW failures \in [failed -> Hints(HintValues)], CompletePlan(failures)
    PROVE  CadenceInv'
<1> USE DEF CadenceInv
<1>1. /\ DOMAIN failures = failed
      /\ failed \subseteq Index
      /\ plan.sources \subseteq Index
  BY DEF PlanShape
<1>2. /\ consecutive_failures' =
           [i \in Index |-> IF i \in failed THEN FailureCount(i)
                            ELSE IF i \in plan.sources THEN 0
                            ELSE consecutive_failures[i]]
      /\ next_eligible' =
           [i \in Index |-> IF i \in failed
                            THEN RetryAt(FailureCount(i), failures[i], now, now)
                            ELSE next_eligible[i]]
      /\ completed_generation' =
           IF plan.full_refresh THEN plan.generation ELSE completed_generation
      /\ streak' = [i \in Index |-> IF i \in failed THEN streak[i] + 1
                                    ELSE IF i \in plan.sources THEN 0 ELSE streak[i]]
      /\ not_before' = [i \in Index |-> IF i \in failed
                                        THEN now + DocumentedWait(streak'[i], failures[i])
                                        ELSE not_before[i]]
      /\ covered' = covered \union promised
      /\ plan' = None /\ promised' = {}
      /\ UNCHANGED <<next_source, last_attempt, now, requested, last_begin, passed>>
  BY <1>1 DEF CompletePlan, Complete
<1>3. ASSUME NEW i \in failed
      PROVE  /\ FailureCount(i) \in 1 .. MaxFailures
             /\ FailureCount(i) = Least(streak[i] + 1, MaxFailures)
  <2>1. i \in Index /\ streak[i] \in Nat /\ consecutive_failures[i] = Least(streak[i], MaxFailures)
    BY <1>1 DEF Types, WaitsAgree
  <2> QED
    BY <2>1 DEF FailureCount, Least, MaxFailures
<1>4. ASSUME NEW i \in failed
      PROVE  /\ RetryAt(FailureCount(i), failures[i], now, now) \in Nat
             /\ RetryAt(FailureCount(i), failures[i], now, now)
                  = now + DocumentedWait(streak'[i], failures[i])
  <2> DEFINE count == FailureCount(i)
             delay == HintDelay(failures[i], now)
  <2>1. count \in 1 .. MaxFailures /\ count = Least(streak[i] + 1, MaxFailures)
    BY <1>3
  <2>2. delay \in Nat /\ now \in Nat
    BY HintShape DEF Types
  <2>3. streak'[i] = streak[i] + 1
    BY <1>1, <1>2
  <2> HIDE DEF count, delay
  <2>4. Backoff(count) \in Nat /\ DocBackoff[count] = Backoff(count)
    BY <2>1, BackoffShape
  <2>5. DocBackoff[Least(streak'[i], Len(DocBackoff))] = Backoff(count)
    BY <2>1, <2>3, <2>4
  <2>6. Greatest(delay, Backoff(count)) = Greatest(Backoff(count), delay)
    BY <2>2, <2>4 DEF Greatest
  <2>7. Greatest(Backoff(count), delay) \in Nat
    BY <2>2, <2>4 DEF Greatest
  <2>8. RetryAt(count, failures[i], now, now) =
          LET wait == Greatest(Backoff(count), delay)
          IN  IF now + wait <= MaxInstant THEN now + wait ELSE now + Backoff(count)
    BY <2>6 DEF RetryAt, delay
  <2>9. DocumentedWait(streak'[i], failures[i]) =
          LET asked == Greatest(Backoff(count), delay)
          IN  IF now + asked <= MaxInstant THEN asked ELSE Backoff(count)
    BY <2>5 DEF DocumentedWait, delay
  <2> QED
    BY <2>2, <2>4, <2>7, <2>8, <2>9 DEF count
<1>5. Types'
  <2>1. consecutive_failures' \in [Index -> 0 .. MaxFailures]
    BY <1>2, <1>3 DEF Types, MaxFailures
  <2>2. next_eligible' \in [Index -> Nat \union {None}]
    BY <1>2, <1>4 DEF Types
  <2>3. not_before' \in [Index -> Nat]
    BY <1>2, <1>4 DEF Types
  <2>4. streak' \in [Index -> Nat]
    BY <1>2 DEF Types
  <2>5. completed_generation' \in Nat
    BY <1>2 DEF Types, PlanShape
  <2> QED
    BY <1>2, <2>1, <2>2, <2>3, <2>4, <2>5 DEF Types
<1>6. PlanShape' /\ (last_begin = last_attempt)'
  BY <1>2 DEF PlanShape
<1>7. WaitsAgree'
  <2> SUFFICES ASSUME NEW i \in Index
               PROVE  /\ consecutive_failures'[i] = Least(streak'[i], MaxFailures)
                      /\ next_eligible'[i] # None => next_eligible'[i] = not_before'[i]
                      /\ next_eligible'[i] = None => not_before'[i] = 0
    BY DEF WaitsAgree, Least
  <2>1. CASE i \in failed
    <3>1. consecutive_failures'[i] = FailureCount(i) /\ streak'[i] = streak[i] + 1
      BY <1>2, <2>1
    <3>2. next_eligible'[i] \in Nat /\ next_eligible'[i] = not_before'[i]
      BY <1>2, <1>4, <2>1
    <3> QED
      BY <1>3, <2>1, <3>1, <3>2
  <2>2. CASE i \notin failed
    <3>1. next_eligible'[i] = next_eligible[i] /\ not_before'[i] = not_before[i]
      BY <1>2, <2>2
    <3>2. CASE i \in plan.sources
      BY <1>2, <2>2, <3>1, <3>2 DEF WaitsAgree, Least, MaxFailures
    <3>3. CASE i \notin plan.sources
      BY <1>2, <2>2, <3>1, <3>3 DEF WaitsAgree
    <3> QED
      BY <3>2, <3>3
  <2> QED
    BY <2>1, <2>2
<1>8. RotationBound'
  BY <1>2 DEF RotationBound, Offset
<1>9. ServiceKept'
  <2>1. completed_generation' <= requested'
    BY <1>2 DEF PlanShape, ServiceKept, Types
  <2>2. covered' \subseteq Index /\ promised' \subseteq Index
    BY <1>2 DEF ServiceKept
  <2>3. (completed_generation = requested /\ requested > 0 => covered = Index)'
    BY <1>2, <2>2 DEF ServiceKept
  <2> QED
    BY <1>2, <2>1, <2>2, <2>3 DEF ServiceKept
<1> QED
  BY <1>5, <1>6, <1>7, <1>8, <1>9

(* Time passes. *)
LEMMA TickStep ==
    ASSUME CadenceInv, NEW d \in ClockSteps, Tick(d)
    PROVE  CadenceInv'
<1> USE DEF CadenceInv, Tick, coordinatorVars, history
<1>1. now' \in Nat
  BY DEF Types
<1>2. Types'
  BY <1>1 DEF Types
<1>3. PlanShape' /\ (last_begin = last_attempt)'
  BY DEF PlanShape
<1>4. WaitsAgree'
  BY DEF WaitsAgree
<1>5. RotationBound' /\ ServiceKept'
  BY DEF RotationBound, Offset, ServiceKept
<1> QED
  BY <1>2, <1>3, <1>4, <1>5

LEMMA CadenceStep == CadenceInv /\ [Next]_vars => CadenceInv'
<1> SUFFICES ASSUME CadenceInv, [Next]_vars PROVE CadenceInv'
  OBVIOUS
<1>1. CASE Activate
  BY <1>1, ActivateStep
<1>2. CASE BeginPlan
  BY <1>2, BeginStep
<1>3. CASE Abandon
  BY <1>3, AbandonStep
<1>4. CASE Answered
  BY <1>4, CompleteStep DEF Answered
<1>5. CASE \E d \in ClockSteps : Tick(d)
  BY <1>5, TickStep
<1>6. CASE UNCHANGED vars
  <2> USE <1>6 DEF CadenceInv, vars, coordinatorVars, environment, history
  <2>1. Types' /\ PlanShape' /\ (last_begin = last_attempt)'
    BY DEF Types, PlanShape
  <2>2. WaitsAgree' /\ RotationBound' /\ ServiceKept'
    BY DEF WaitsAgree, RotationBound, Offset, ServiceKept
  <2> QED
    BY <2>1, <2>2
<1> QED
  BY <1>1, <1>2, <1>3, <1>4, <1>5, <1>6 DEF Next

LEMMA Cadence == Spec => []CadenceInv
  BY CadenceInit, CadenceStep, PTL DEF Spec

-----------------------------------------------------------------------------
(* The coordinator's values keep their types, and a plan in progress has been charged. *)
THEOREM CoordinatorTypes == Spec => []TypeOK
<1>1. CadenceInv => TypeOK
  BY DEF CadenceInv, Types, PlanShape, ServiceKept, TypeOK, CoordinatorTypeOK
<1> QED
  BY <1>1, Cadence, PTL

(* Two accepted attempts are at least the minimum interval apart, whatever became of the first. *)
THEOREM Spacing == Spec => AttemptsSpaced
<1>1. CadenceInv /\ [Next]_vars =>
        [plan = None /\ plan' # None /\ last_begin # None => now - last_begin >= Interval]_vars
  <2> SUFFICES ASSUME CadenceInv, [Next]_vars, plan = None, plan' # None, last_begin # None
               PROVE  now - last_begin >= Interval
    OBVIOUS
  <2>1. BeginPlan
    BY DEF Next, Activate, Abandon, Answered, Tick, vars, environment
  <2> QED
    BY <2>1 DEF CadenceInv, BeginPlan, Begin, CanBegin, GateOpen
<1> QED
  BY <1>1, Cadence, PTL DEF Spec, AttemptsSpaced

(* No provider is asked before the documented wait after its failures is over. *)
THEOREM Waits == Spec => BackoffRespected
<1>1. CadenceInv /\ [Next]_vars =>
        [plan = None /\ plan' # None => \A i \in plan'.sources : now >= not_before[i]]_vars
  <2> SUFFICES ASSUME CadenceInv, [Next]_vars, plan = None, plan' # None,
                      NEW i \in plan'.sources
               PROVE  now >= not_before[i]
    OBVIOUS
  <2>1. BeginPlan
    BY DEF Next, Activate, Abandon, Answered, Tick, vars, environment
  <2>2. i \in Index /\ Eligible(i, now)
    BY <2>1 DEF BeginPlan, Plan, Selected
  <2> QED
    BY <2>2, EligibleIsWaited DEF CadenceInv
<1> QED
  BY <1>1, Cadence, PTL DEF Spec, BackoffRespected

(* A provider whose documented wait is over is taken by the next full refresh. *)
THEOREM NoLongerWaits == Spec => []NoNeedlessWait
<1>1. CadenceInv => NoNeedlessWait
  BY EligibleIsWaited DEF CadenceInv, NoNeedlessWait, Selected
<1> QED
  BY <1>1, Cadence, PTL

(* An eligible provider is passed over at most N - 1 times in a row. *)
THEOREM FairRotation == Spec => []NoOvertaking
<1>1. CadenceInv => NoOvertaking
  <2> SUFFICES ASSUME CadenceInv, NEW i \in Index PROVE passed[i] <= N - 1
    BY DEF NoOvertaking
  <2>1. Offset(i) \in Index /\ passed[i] \in Nat
    BY OffsetShape DEF CadenceInv, Types
  <2>2. passed[i] + Offset(i) <= N - 1
    BY DEF CadenceInv, RotationBound
  <2> QED
    BY <2>1, <2>2 DEF Index
<1> QED
  BY <1>1, Cadence, PTL

(* A full refresh is over only when it has served the last activation. *)
THEOREM ActivationsServed == Spec => []ActivationKept
<1>1. CadenceInv => ActivationKept
  BY DEF CadenceInv, ServiceKept, ActivationKept
<1> QED
  BY <1>1, Cadence, PTL
=============================================================================
