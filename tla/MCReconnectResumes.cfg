SPECIFICATION FairSpec
CONSTANTS
    MAX_RESET_RETRIES = 1
    MaxUnplugs = 1
    MaxCalls = 1
PROPERTY
    ReconnectResumes
CHECK_DEADLOCK FALSE
