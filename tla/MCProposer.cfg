CONSTANTS
    Hash = {1, 2}
    Validators <- MCValidators
    Parents <- MCParents
    Round <- MCZero
    Author <- MCAuthor
    Generation <- MCZero
    TotalNodes = 4
    CommitteeNodes = 4
    GlobalQuorumRatio <- DefaultGlobalRatio
    CommitteeQuorumRatio <- DefaultCommitteeRatio
    Honest <- MCHonest
    Ballot <- MCBallot
    Caller = {a, b}
    Home <- MCHome
    Instant = {1}
    MaxRound = 1
    MaxRestarts = 1
SPECIFICATION Spec
INVARIANTS
    ProposerTypeOK
    Justified
    EvidenceShared
    AtMostOncePerCaller
CONSTRAINT Bounded
SYMMETRY Symmetry
CHECK_DEADLOCK FALSE
