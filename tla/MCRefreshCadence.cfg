SPECIFICATION Spec
CONSTANTS
    N = 3
    Interval = 1
    BackoffBase = 1
    BackoffCap = 30
    MaxInstant = 20
    None = None
    DocBackoff <- MCDocBackoff
    HintValues = {3, 50}
    ClockSteps = {1}
    MaxNow = 5
    MaxActivations = 2
CHECK_DEADLOCK FALSE
INVARIANTS NoOvertaking ActivationKept NoNeedlessWait
PROPERTIES AttemptsSpaced BackoffRespected
