CONSTANTS
    Hash = {1, 2, 3, 4, 5, 6}
    Validators <- MCValidators
    Parents <- MCParents
    Round <- MCRound
    Author <- MCAuthor
    Generation <- MCGeneration
    MalformedVertexPenalty = 15
    EquivocationPenalty = 100
    SlashThreshold = 100
    NoVertex = NoVertex
    Capacity = 1
    Threads = {t1}
    NoThread = NoThread
    NoCall = NoCall
    NodeRound = 0
    SyncTriggerThreshold = 2
SPECIFICATION Spec
INVARIANT ConvergedOnReceipt
