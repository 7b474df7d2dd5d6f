SPECIFICATION FairSpec
CONSTANTS
    memo = memo
    photo = photo
    virus = virus
    NoDoc = NoDoc
    Verdicts <- MCVerdicts
    Textual <- MCTextual
    Documents = {memo}
    Workers = {w1, w2}
    FailOnError = TRUE
    SweepLimit = 1
    Requests = {}
    MaxRequests = 0
    MaxBroken = 1
    MaxOutages = 0
    MaxSweeps = 1
PROPERTIES
    StuckIsFailed
