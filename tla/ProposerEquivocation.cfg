CONSTANTS
    Hash = {1, 2}
    Validators <- MCValidators
    Parents <- MCParents
    Round <- MCZero
    Author <- MCAuthor
    Generation <- MCZero
    TotalNodes = 4
    CommitteeNodes = 4
    GlobalQuorumRatio <- DefaultGlobalRatio
    CommitteeQuorumRatio <- DefaultCommitteeRatio
    Honest <- MCHonest
    Ballot <- MCBallot
    Caller = {a, b}
    Home <- MCHome
    Instant = {1}
    MaxRound = 0
    MaxRestarts = 0
SPECIFICATION Spec
INVARIANT AtMostOncePerRound
CHECK_DEADLOCK FALSE
