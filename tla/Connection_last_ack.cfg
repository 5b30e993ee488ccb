SPECIFICATION FairSpec
CONSTANTS
    SynRetries = 2
    DataRetries = 1
    MaxForks = 1
CHECK_DEADLOCK FALSE
PROPERTY LastAckWaitsForAck
