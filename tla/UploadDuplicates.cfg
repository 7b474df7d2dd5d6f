SPECIFICATION UploadSpec
CONSTANTS
    first = first
    second = second
    batch = batch
    folder = folder
    Requests = {first, second, batch, folder}
    Route <- MCRoute
    Tenant <- MCTenant
    Files <- MCFiles
    MaxFaults = 1
    MaxDeletions = 2
SYMMETRY Symmetry
INVARIANTS
    UploadTypeOK
    DuplicatesMet
    RowsKeepTheirFiles
