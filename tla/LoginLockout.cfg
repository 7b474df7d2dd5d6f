SPECIFICATION LockFairSpec
CONSTANTS
    Logins = {l1, l2, l3}
    MaxAttempts = 3
    Window = 3
    Lockout = 3
    MaxFactor = 4
    MaxLockout = 10
    MaxCount = 2
INVARIANTS
    LockTypeOK
    TriesBounded
PROPERTIES
    LockRunsItsTime
    LocksEscalate
    LockEnds
