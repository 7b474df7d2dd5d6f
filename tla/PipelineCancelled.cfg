SPECIFICATION Spec
CONSTANTS
    memo = memo
    photo = photo
    virus = virus
    NoDoc = NoDoc
    Verdicts <- MCVerdicts
    Textual <- MCTextual
    Documents = {memo}
    Workers = {w1, w2}
    FailOnError = TRUE
    SweepLimit = 1
    Requests = {"cancel"}
    MaxRequests = 1
    MaxBroken = 0
    MaxOutages = 0
    MaxSweeps = 1
PROPERTIES
    CancelledStaysFailed
