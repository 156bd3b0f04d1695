SPECIFICATION FairSpec
CONSTANTS
    GrpcExports = {g1}
    HttpExports = {h1}
    Size = 3
    Items <- MCItems
    Zero = Zero
    Capacity = 3
INVARIANTS EventsKept StoppedClean
PROPERTIES QueueSpec RecordsSettle Stops
CHECK_DEADLOCK FALSE
