SPECIFICATION Spec
CONSTANTS
    Sessions = {s1, s2}
    TTL = 0
    MaxViewers = 1
    N = 1
    Interval = 1
    BackoffBase = 1
    BackoffCap = 30
    MaxInstant = 1000
    None = None
    Readers = {r1}
    Tasks = {t1}
    MaxAge = 2
    MaxSkew = 0
    MaxNow = 1
    MaxActivations = 1
PROPERTIES NoDispatchWhileStopping
