SPECIFICATION Spec
CONSTANTS
    Callers = {c1, c2, c3}
    NoCaller = NoCaller
    MinSize = 1
    MaxSize = 2
    Shards = 2
    Wrap = 8
    MayDie = TRUE
    MaxIds = 4
    MaxCancels = 1
    MaxShutdowns = 1
INVARIANTS WithinMaxSize OneUser IdleCountAccounted
SYMMETRY CallerSymmetry
CHECK_DEADLOCK FALSE
