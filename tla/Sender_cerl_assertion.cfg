SPECIFICATION Spec
CONSTANTS
    NumSegs = 2
    FirstWrite = 2
    SegSize = 2
    InitialCwnd = 2
    InitialSsThresh = 6
    RWnd = 20
    RetxThresh = 2
    DataRetries = 1
    UseEcn = FALSE
    Recoveries = {"Classic"}
    ReductionBound = "SSRB"
    Word = 1024
    Builds = {"debug"}
    MaxAcks = 1
CHECK_DEADLOCK FALSE
INVARIANT CerlAssertion
