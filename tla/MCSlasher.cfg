CONSTANTS
    Hash <- MCHash
    Validators <- MCValidators
    Parents <- MCParents
    Round <- MCRound
    Author <- MCAuthor
    Generation <- MCGeneration
    MalformedVertexPenalty = 15
    EquivocationPenalty = 100
    SlashThreshold = 100
    NoVertex = NoVertex
SPECIFICATION SlasherSpec
INVARIANTS
    SlasherTypeOK
    ChargesAddUp
    EvidenceInSync
PROPERTY NoDoubleJeopardy
