SPECIFICATION Spec
CONSTANTS
    AdaptiveDelayWindow = FALSE
    AggregationAwareDelay = FALSE
    DelAckMaxCount = 3
    DelAckTime = 3
    IatThreshold = 1
    AlphaNum = 3
    AlphaDen = 4
    Beta = 3
    Lambda = 3
    UpdatePeriod = 0
    SegSize = 2
    RcvBuf = 4
    MaxWinSize = 100
    CwndValues = {}
    EcnCapable = TRUE
    Bidirectional = FALSE
    MaxGap = 3
    MaxWait = 20
    MaxLag = 3
    Scale = 18
    SecondsOfInfinity <- ConvertsToZero
    Infinity = Infinity
    Never = Never
INVARIANT NoForgottenAck
INVARIANT AckLatency
INVARIANT WindowRespected
PROPERTY CeEchoed
