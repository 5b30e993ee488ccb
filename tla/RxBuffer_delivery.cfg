SPECIFICATION FairSpec
CONSTANTS
    StreamLen = 5
    MaxSegment = 2
    RcvBufSize = 3
    BufferSizes = {}
    ClosesFirst = TRUE
    SackBlocks = 4
PROPERTY EventuallyDelivered
