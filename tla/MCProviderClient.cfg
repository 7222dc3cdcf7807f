SPECIFICATION Spec
CONSTANTS
    Plans <- MCPlans
    ConnectTimeout = 1
    RequestTimeout = 3
    BodyLimit = 3
    MaxChunk = 2
    HintValues = {7}
    MaxNow = 5
    None = None
INVARIANTS QuoteIffGenuine CauseNamed JoinBounded
