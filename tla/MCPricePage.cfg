SPECIFICATION Spec
CONSTANTS
    p1 = p1
    p2 = p2
    other = other
    Configured = {p1, p2}
    MaxAge = 2
    FirstBooks <- MCFirstBooks
    Cadence = 1
    StartupDelay = 0
    PresenceTimeout = 1
    PriceTimeout = 2
    MaxRefreshes = 1
    MaxHides = 1
    MaxClock = 6
    None = None
SYMMETRY MCSymmetry
INVARIANTS AnswersValid LabelNeverBetter ShownQuotesAreRecent SilenceShows
CHECK_DEADLOCK FALSE
