SPECIFICATION Spec
CONSTANTS
    NumSegs = 4
    FirstWrite = 3
    SegSize = 2
    InitialCwnd = 3
    InitialSsThresh = 1023
    RWnd = 20
    RetxThresh = 2
    DataRetries = 2
    UseEcn = TRUE
    Recoveries = {"Classic", "PRR"}
    ReductionBound = "SSRB"
    Word = 1024
    Builds = {"debug", "optimized"}
    MaxAcks = 2
CHECK_DEADLOCK FALSE
INVARIANT TypeOK
INVARIANT ScoreboardTruthful
INVARIANT ScoreboardConsistent
INVARIANT TimerRuns
 
INVARIANT WindowUsable
INVARIANT SocketAssertions
PROPERTY NeverResendSacked
 
