SPECIFICATION Spec
CONSTANTS
    None = None
    Users = {1}
    Servers = {a}
    Active = {1}
    Page = page
    ClaimLimit = 2
    QueryFactor = 4
    RunTimeout = 1
    ClaimLease = 2
    SyncLease = 2
    Interval = 3
    MaxFailures = 2
    Backoff <- MCBackoff
    Kinds <- MCKinds
    Budgets <- MCGrantBudgets
INVARIANTS
    AskedForReason
CHECK_DEADLOCK FALSE
