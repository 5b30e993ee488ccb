SPECIFICATION Spec
CONSTANTS
    AdaptiveDelayWindow = TRUE
    AggregationAwareDelay = FALSE
    DelAckMaxCount = 2
    DelAckTime = 3
    IatThreshold = 1
    AlphaNum = 3
    AlphaDen = 4
    Beta = 3
    Lambda = 2
    UpdatePeriod = 0
    SegSize = 2
    RcvBuf = 4
    MaxWinSize = 7
    CwndValues = {2,5,12}
    EcnCapable = FALSE
    Bidirectional = FALSE
    MaxGap = 3
    MaxWait = 20
    MaxLag = 1
    Scale = 12
    SecondsOfInfinity <- ConvertsToZero
    Infinity = Infinity
    Never = Never
INVARIANT TypeOK
INVARIANT DelayedSegmentsBounded
