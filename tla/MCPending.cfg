CONSTANTS
    Key = {k1, k2}
    Watchers = {w1}
    BaseTimeout = 5
    MaxBackoff = 10
    MaxRetry = 2
    MaxDuration = 20
    TickLength = 5
    Horizon = 25
SYMMETRY Symmetry
SPECIFICATION PendingSpec
INVARIANTS
    PendingTypeOK
    QueueCovers
    WindowBounded
PROPERTIES
    WindowKept
    NotPurgedEarly
CONSTRAINT Bounded
CHECK_DEADLOCK FALSE
