SPECIFICATION Spec
CONSTANTS
    Sectors = {s1, s2, s3, s4}
    Thresholds <- MCThresholds
    sectors_to <- MCsectors_to
    MaxRounds = 3
    MaxBad = 2
SYMMETRY MCSymmetry
PROPERTIES
    UnusableOutlivesRestart
CHECK_DEADLOCK FALSE
