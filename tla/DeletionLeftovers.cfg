SPECIFICATION DeletionSpec
CONSTANTS
    memo = memo
    NoDoc = NoDoc
    Verdicts <- MCVerdicts
    Textual = {memo}
    Documents = {memo}
    Workers = {w1}
    FailOnError = TRUE
    SweepLimit = 1
    Requests = {}
    MaxRequests = 0
    MaxBroken = 0
    MaxOutages = 0
    MaxSweeps = 1
    Deleters = {r1}
    Faults = {}
    MaxFaults = 0
INVARIANTS
    GoneIsGoneEverywhere
