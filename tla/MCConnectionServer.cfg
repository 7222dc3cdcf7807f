SPECIFICATION ServerFairSpec
CONSTANTS
    Requests = {q1, q2, l1}
    Loopback = {l1}
    Rate = 2
    Concurrency = 1
    MaxConnections = 1
    MaxLocal = 1
    HeaderTimeout = 1
    HandlerTimeout = 2
    Lifetime = 3
    Grace = 2
    MaxNow = 5
    None = None
CHECK_DEADLOCK FALSE
INVARIANTS PermitsAccountedFor AdmissionBoundInOrder StoppedServerIsIdle HandlersEndFirst
PROPERTIES ServerEnds
