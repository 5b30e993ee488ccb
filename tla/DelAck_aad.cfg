SPECIFICATION FairSpec
CONSTANTS
    AdaptiveDelayWindow = FALSE
    AggregationAwareDelay = TRUE
    DelAckMaxCount = 2
    DelAckTime = 4
    IatThreshold = 1
    AlphaNum = 3
    AlphaDen = 4
    Beta = 3
    Lambda = 3
    UpdatePeriod = 6
    SegSize = 2
    RcvBuf = 4
    MaxWinSize = 100
    CwndValues = {}
    EcnCapable = FALSE
    Bidirectional = TRUE
    MaxGap = 5
    MaxWait = 20
    MaxLag = 1
    Scale = 180
    SecondsOfInfinity <- ConvertsToZero
    Infinity = Infinity
    Never = Never
INVARIANT NoForgottenAck
INVARIANT AckLatency
PROPERTY BaseIatTracks
PROPERTY EventuallyAcked
