SPECIFICATION FairSpec
CONSTANTS
    None = None
    s1 = s1
    s2 = s2
    Syncers = {s1}
    Editors = {}
    Disconnecters = {}
    Cells = {1, 2}
    Windows = {{1, 2}}
    Policies = {p1}
    DefaultPolicy = p1
    Overrides = {o1}
    Accounts = {g1}
    Ids <- MCIds
    Budgets <- MCReopenBudgets
PROPERTIES
    KeepsReopening
CHECK_DEADLOCK FALSE
