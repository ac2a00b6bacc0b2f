SPECIFICATION FairSpec
CONSTANTS
    Requests = {cat}
    FirstIds = {0}
    MaxId = 2
    RawIds = {0, 1}
    None = None
INVARIANT NoRequestLost
PROPERTY ServiceSpec
PROPERTY DeadlinedWaitReturns
PROPERTY WorkerStops
PROPERTY EveryWaitReturns
CHECK_DEADLOCK FALSE
