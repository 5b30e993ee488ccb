SPECIFICATION FairSpec
CONSTANTS
    NumSegs = 4
    FirstWrite = 3
    SegSize = 2
    InitialCwnd = 3
    InitialSsThresh = 1023
    RWnd = 20
    RetxThresh = 2
    DataRetries = 1
    UseEcn = FALSE
    Recoveries = {"Classic", "PRR"}
    ReductionBound = "SSRB"
    Word = 1024
    Builds = {"optimized"}
    MaxAcks = 1
CHECK_DEADLOCK FALSE
PROPERTY Settles
