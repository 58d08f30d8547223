SPECIFICATION FairSpec
CONSTANTS
    Copies = {c1, c2, c3}
    NoCopy = NoCopy
    MaxRequests = 2
INVARIANTS
    TypeOK
    TestsRunAlone
    DisturbsAtMostOnce
    LockedForTests
    StatusTellsStage
PROPERTIES
    PauseEnds
CHECK_DEADLOCK FALSE
