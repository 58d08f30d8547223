SPECIFICATION FairSpec
CONSTANTS
    MAX_RESET_RETRIES = 2
    MaxUnplugs = 3
    MaxCalls = 2
INVARIANTS
    TypeOK
    AnsweredInPlace
    RenewalTold
    FirstRoundNotRecovered
PROPERTIES
    KeepsAnswers
    CallEnds
CHECK_DEADLOCK FALSE
