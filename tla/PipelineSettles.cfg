SPECIFICATION FairSpec
CONSTANTS
    memo = memo
    photo = photo
    virus = virus
    NoDoc = NoDoc
    Verdicts <- MCVerdicts
    Textual <- MCTextual
    Documents = {photo}
    Workers = {w1, w2}
    FailOnError = TRUE
    SweepLimit = 1
    Requests = {"retry"}
    MaxRequests = 1
    MaxBroken = 1
    MaxOutages = 1
    MaxSweeps = 1
PROPERTIES
    EveryDocumentSettles
    WaitingIsPickedUp
