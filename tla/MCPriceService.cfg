SPECIFICATION FairSpec
CONSTANTS
    Sessions = {s1}
    TTL = 0
    MaxViewers = 1
    N = 2
    Interval = 1
    BackoffBase = 1
    BackoffCap = 30
    MaxInstant = 1000
    None = None
    Readers = {r1}
    Tasks = {t1}
    MaxAge = 2
    MaxSkew = 1
    MaxNow = 1
    MaxActivations = 1
INVARIANTS TypeOK GuardDiscipline OwnerReadsCurrent BaseIsCurrent StoppedMeansQuiet
PROPERTIES SnapshotsSpaced BookSpec ReadersNeverWait RefreshReleases ShutdownEnds
