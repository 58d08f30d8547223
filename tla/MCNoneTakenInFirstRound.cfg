SPECIFICATION Spec
CONSTANTS
    NumSectors = 14
    NUM_SLICES = 4
    SectorsPerBlock = 3
    AreaSectors = 2
    SampleSize = 13
    MaxRounds = 2
    MaxFaults = 2
INVARIANT NoneTakenInFirstRound
CHECK_DEADLOCK FALSE
