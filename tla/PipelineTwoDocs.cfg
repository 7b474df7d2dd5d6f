SPECIFICATION Spec
CONSTANTS
    memo = memo
    photo = photo
    virus = virus
    NoDoc = NoDoc
    Verdicts <- MCVerdicts
    Textual <- MCTextual
    Documents = {photo, virus}
    Workers = {w1, w2}
    FailOnError = TRUE
    SweepLimit = 2
    Requests = {"delete", "reindex"}
    MaxRequests = 1
    MaxBroken = 0
    MaxOutages = 0
    MaxSweeps = 1
SYMMETRY Symmetry
INVARIANTS
    NotForgotten
    TaintedNeverSearchable
