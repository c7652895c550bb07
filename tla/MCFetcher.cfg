CONSTANTS
    Key = {k1, k2}
    Watchers = {w1, w2}
    BaseTimeout = 1
    MaxBackoff = 1
    MaxRetry = 0
    MaxDuration = 20
    TickLength = 1
    Horizon = 1
    StepTimeout <- MCStepTimeout
SYMMETRY Symmetry
SPECIFICATION Spec
INVARIANTS
    FetcherTypeOK
    WindowHasWorker
    WaiterRegistered
CONSTRAINT Bounded
CHECK_DEADLOCK FALSE
