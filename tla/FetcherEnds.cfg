CONSTANTS
    Key = {k1}
    Watchers = {w1, w2}
    BaseTimeout = 1
    MaxBackoff = 1
    MaxRetry = 0
    MaxDuration = 20
    TickLength = 1
    Horizon = 1
    StepTimeout <- MCStepTimeout
SPECIFICATION FairSpec
PROPERTY WorkerEnds
CONSTRAINT Bounded
CHECK_DEADLOCK FALSE
