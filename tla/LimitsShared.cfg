SPECIFICATION LimitsSpec
CONSTANTS
    Clients = {"single", "browser"}
    Endpoints = {"upload", "search"}
    Uses <- MCUses
    Limits <- MCLimits
    Window = 3
    CleanupAge = 4
    Users = {"analyst"}
    MaxExports <- MCMaxExports
    ExportWindow = 3
INVARIANTS
    RefusedOverItsLimit
