SPECIFICATION FairSpec
CONSTANTS
    Total = 9
    Write = 4
    SegSize = 3
    BufSize = 5
    NoDelays = {TRUE, FALSE}
    PartialReads = TRUE
    MaxLoss = 2
CHECK_DEADLOCK FALSE
INVARIANT TypeOK
INVARIANT DataFits
INVARIANT ProbeAhead
INVARIANT StuckOnlyHeldBack
PROPERTY EventuallyRead
