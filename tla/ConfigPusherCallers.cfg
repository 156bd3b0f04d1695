SPECIFICATION FairSpec
CONSTANTS
    Ticker = Ticker
    Callers = {c1}
    MaxVersion = 2
    MaxEpoch = 1
    MaxFailures = 0
PROPERTIES FileCatchesUp
