CONSTANTS
    Hash = {1, 2, 3, 4}
    Validators <- MCValidators
    Parents <- MCParents
    Round <- MCRound
    Author <- MCAuthor
    Generation <- MCGeneration
    MaxRequestHashes = 3
    MaxVertexCount = 2
    SyncTriggerThreshold = 10
    MaxRandomPeers = 1
    Gossiped <- MCGossiped
    MaxGaps = 1
    Stoppable = {1}
    MaxFaults = 1
SPECIFICATION FairSpec
INVARIANTS
    ReplicaInvariant
    AnswersFit
PROPERTIES
    GapCloses
    StopQuiesces
CHECK_DEADLOCK FALSE
