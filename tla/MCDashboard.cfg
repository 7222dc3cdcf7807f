SPECIFICATION Spec
CONSTANTS
    Sessions = {s1}
    Tab = s1
    TTL = 6
    MaxViewers = 1
    Cadence = 2
    StartupDelay = 1
    PresenceTimeout = 1
    PriceTimeout = 3
    MaxDelay = 1
    MaxGeneration = 4
    MaxFaults = 1
    MaxNow = 9
    None = None
INVARIANTS LoopsAlive OneSetOfTimers HiddenForgotten VisibleIsLive
CHECK_DEADLOCK FALSE
