SPECIFICATION UploadSpec
CONSTANTS
    first = first
    second = second
    batch = batch
    folder = folder
    Requests = {batch}
    Route <- MCRoute
    Tenant <- MCTenant
    Files <- MCFiles
    MaxFaults = 1
    MaxDeletions = 0
INVARIANTS
    FailureStaysWithItsFile
