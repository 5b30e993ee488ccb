SPECIFICATION Spec
CONSTANTS
    StreamLen = 8
    MaxSegment = 5
    RcvBufSize = 6
    BufferSizes = {3, 6}
    ClosesFirst = FALSE
    SackBlocks = 2
CHECK_DEADLOCK FALSE
INVARIANT TypeOK
INVARIANT Accounting
INVARIANT OfferHonoured
INVARIANT SackTruthful
INVARIANT SackComplete
PROPERTY SackNewestFirst
PROPERTY GapReported
PROPERTY StreamImplemented
