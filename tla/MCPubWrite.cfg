SPECIFICATION Spec
CONSTANTS
    None = None
    s1 = s1
    s2 = s2
    Syncers = {s1, s2}
    Editors = {e1, e2}
    Disconnecters = {}
    Cells = {1, 2}
    Windows = {{1}, {1, 2}}
    Policies = {p1, p2}
    DefaultPolicy = p1
    Overrides = {}
    Accounts = {g1}
    Ids <- MCIds
    Budgets <- MCWriteBudgets
INVARIANTS
    TypeOK
    CommittedIsSnapshot
    PublishedIsCurrent
PROPERTIES
    WritesBehindGates
    OpensOnlyByCompletion
SYMMETRY MCSyncers
CHECK_DEADLOCK FALSE
