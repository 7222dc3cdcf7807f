SPECIFICATION ReaderSpec
CONSTANTS
    Fetches = {f1, f2}
    RefreshInterval = 2
    RefreshTimeout = 1
    RetryDelay = 2
    RetrySoon = 1
    ReaderTimeout = 1
    MaxGeneration = 3
    MaxSkew = 1
    MaxNow = 7
    None = None
CHECK_DEADLOCK FALSE
INVARIANTS OneFetch NoticeHonest HeadlinesArrive
PROPERTIES RefreshReturns
