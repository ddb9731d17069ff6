SPECIFICATION FairSpec
CONSTANTS
    None = None
    Users = {1, 2, 3}
    Servers = {a, b}
    Active = {1}
    Page = page
    ClaimLimit = 2
    QueryFactor = 4
    RunTimeout = 1
    ClaimLease = 2
    SyncLease = 2
    Interval = 3
    MaxFailures = 0
    Backoff <- MCBackoff
    Kinds <- MCKinds
    Budgets <- MCBudgets
INVARIANTS
    TypeOK
    ClaimedByOne
PROPERTIES
    NoStarvation
CHECK_DEADLOCK FALSE
