SPECIFICATION LiveSpec
CONSTANTS
    Sessions = {s1}
    TTL = 1
    MaxViewers = 1
    N = 2
    Interval = 1
    BackoffBase = 1
    BackoffCap = 30
    MaxInstant = 1000
    None = None
    Readers = {r1}
    Tasks = {t1}
    MaxAge = 3
    MaxSkew = 0
    MaxNow = 2
    MaxActivations = 2
INVARIANTS LiveWasTrue
