CONSTANTS
    Hash = {1, 2, 3, 4, 5, 6, 7}
    Validators <- MCValidators
    Parents <- MCParents
    Round <- MCRound
    Author <- MCAuthor
    Generation <- MCGeneration
    MalformedVertexPenalty = 15
    EquivocationPenalty = 100
    SlashThreshold = 15
    NoVertex = NoVertex
    Capacity = 7
    Threads = {t1, t2}
    NoThread = NoThread
    NoCall = NoCall
    NodeRound = 0
    SyncTriggerThreshold = 2
SYMMETRY Symmetry
SPECIFICATION Spec
INVARIANTS
    CausalClosure
    BufferAgrees
    WorklistFresh
    Convergent
    CanonicalIndex
    SyncCoverage
    TipsCover
    DemeritsAddUp
    InductiveInvariant
PROPERTIES
    CallAdvances
    ImplementsCausalLedger
