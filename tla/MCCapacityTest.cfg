SPECIFICATION FairSpec
CONSTANTS
    num_logical_sectors = 96
    num_slices = 7
    slice_sectors = 2
    sector_size = 2
    Word = 1024
    Draws = {0, 15}
    MaxFaults = 1
INVARIANTS
    TypeOK
    GenuineFound
    NotTooLarge
    NotMuchTooSmall
PROPERTIES
    ProbeEnds
CHECK_DEADLOCK FALSE
