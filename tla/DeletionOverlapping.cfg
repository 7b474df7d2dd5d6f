SPECIFICATION DeletionSpec
CONSTANTS
    memo = memo
    NoDoc = NoDoc
    Verdicts <- MCVerdicts
    Textual = {memo}
    Documents = {memo}
    Workers = {w1}
    FailOnError = TRUE
    SweepLimit = 1
    Requests = {"retry"}
    MaxRequests = 1
    MaxBroken = 0
    MaxOutages = 0
    MaxSweeps = 1
    Deleters = {r1, r2}
    Faults = {"prepare", "delete", "unlink", "commit", "restore"}
    MaxFaults = 1
SYMMETRY Symmetry
INVARIANTS
    IdsBackedWhenQuiet
