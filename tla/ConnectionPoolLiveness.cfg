SPECIFICATION FairSpec
CONSTANTS
    Callers = {c1, c2}
    NoCaller = NoCaller
    MinSize = 1
    MaxSize = 2
    Shards = 2
    Wrap = 8
    MayDie = TRUE
    MaxIds = 3
    MaxCancels = 1
    MaxShutdowns = 1
PROPERTIES AcquireReturns
CHECK_DEADLOCK FALSE
