CONSTANTS
    Hash <- MCHash
    Validators = {1}
    Parents <- MCParents
    Round <- MCRound
    Author <- MCAuthor
    Generation <- MCGeneration
    MaxParents = 4
SPECIFICATION Spec
INVARIANTS
    MalformedIffNotCanonical
    DuplicatesNeverEscape
PROPERTY NormalizeRepairs
