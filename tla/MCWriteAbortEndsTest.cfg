SPECIFICATION Spec
CONSTANTS
    NumSectors = 8
    NUM_SLICES = 2
    SectorsPerBlock = 2
    MaxMismatches = 2
    MaxRounds = 1
    MaxFaults = 2
PROPERTY
    WriteAbortEndsTest
CHECK_DEADLOCK FALSE
