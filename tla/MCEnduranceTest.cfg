SPECIFICATION FairSpec
CONSTANTS
    NumSectors = 5
    NUM_SLICES = 2
    SectorsPerBlock = 2
    MaxMismatches = 2
    MaxRounds = 2
    MaxFaults = 2
INVARIANTS
    TypeOK
    BadCountMatchesMap
    EverySectorJudged
    RoundTally
    OneSessionPerSlice
    ReadsInPlace
    ThresholdsRecorded
PROPERTIES
    BadSectorsStayBad
    UnusableNeverWritten
    KeepsPromise
    RoundFinishes
CHECK_DEADLOCK FALSE
