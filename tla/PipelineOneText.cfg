SPECIFICATION Spec
CONSTANTS
    memo = memo
    photo = photo
    virus = virus
    NoDoc = NoDoc
    Verdicts <- MCVerdicts
    Textual <- MCTextual
    Documents = {memo}
    Workers = {w1, w2}
    FailOnError = TRUE
    SweepLimit = 1
    Requests = {"retry", "cancel", "reindex", "scan_all", "archive", "delete"}
    MaxRequests = 2
    MaxBroken = 1
    MaxOutages = 1
    MaxSweeps = 1
SYMMETRY Symmetry
INVARIANTS
    TypeOK
    IdsBacked
    FinalStatusTruthful
    NotForgotten
PROPERTIES
    RemovedStaysRemoved
