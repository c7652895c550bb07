CONSTANTS
    Key = {k1}
    Watchers = {w1}
    BaseTimeout = 5
    MaxBackoff = 10
    MaxRetry = 2
    MaxDuration = 20
    TickLength = 5
    Horizon = 15
SPECIFICATION PendingSpec
INVARIANT RetriesCounted
CHECK_DEADLOCK FALSE
