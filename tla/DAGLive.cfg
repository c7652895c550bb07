CONSTANTS
    Hash = {1, 2, 3, 4}
    Validators <- MCValidators
    Parents <- MCParents
    Round <- MCRound
    Author <- MCAuthor
    Generation <- MCGeneration
    MalformedVertexPenalty = 15
    EquivocationPenalty = 100
    SlashThreshold = 100
    NoVertex = NoVertex
    Capacity = 2
    Threads = {t1, t2}
    NoThread = NoThread
    NoCall = NoCall
    NodeRound = 0
    SyncTriggerThreshold = 2
SPECIFICATION RedeliverySpec
INVARIANT BufferAgrees
PROPERTIES
    NoNeedlessEviction
    EventuallyComplete
    CallReturns
