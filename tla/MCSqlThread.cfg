SPECIFICATION FairSpec
CONSTANTS
    num_physical_sectors = 4
    Blocks = 2
    MaxRounds = 1
    MaxBad = 2
    MaxFaults = 1
INVARIANTS
    TypeOK
    RowFitsTogether
    SurvivesLosses
PROPERTIES
    RowGoesForward
    BadShown
CHECK_DEADLOCK FALSE
