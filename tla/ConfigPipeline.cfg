SPECIFICATION PipelineSpec
CONSTANTS
    Ticker = Ticker
    Callers = {}
    MaxVersion = 2
    MaxEpoch = 2
    MaxFailures = 1
    Requests = {q1, q2}
    MaxReadFailures = 1
    MaxProxyRestarts = 1
INVARIANTS RouterSound LastVerIsFile
PROPERTIES PublishedSpec RouterMovesForward FileCatchesUp RouterCatchesUp 
